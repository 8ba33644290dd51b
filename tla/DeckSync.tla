------------------------------ MODULE DeckSync ------------------------------
(***************************************************************************)
(* Co-editing of one slide deck as one tab sees it: DeckSyncEngine of      *)
(* packages/collab/src/deckSync.ts, its operations on decks, and the part  *)
(* of deckManager.ts that feeds it.                                        *)
(*                                                                         *)
(* A deck has a title and slides, a slide an id and one field; their       *)
(* values are numbers, an edit's own number or the negated position of     *)
(* another editor's entry.  Theme, shape overrides and the other fields    *)
(* are further fields of the same kind and are left out, as are malformed  *)
(* operations.                                                             *)
(***************************************************************************)
EXTENDS EditRoom

CONSTANTS
  Slides,        \* ids of slides
  FirstDeck,     \* the deck as loaded
  DeckBounds,    \* the bounds on what happens, one of which a behaviour has
  DeckAttempts,  \* how often submitLoop submits (8)
  Moves          \* bound: later changes only write fields

ASSUME DeckAssumption ==
  /\ FirstDeck.slides # <<>>
  /\ \A i \in 1..Len(FirstDeck.slides) : FirstDeck.slides[i].id \in Slides
  /\ DeckBounds \subseteq [BoundNames -> Nat]
  /\ DeckAttempts \in Nat \ {0} /\ Moves \in Nat

VARIABLE deck   \* the engine

kvars == <<room, deck>>

-----------------------------------------------------------------------------
(***************************************************************************)
(* Operations on decks.                                                    *)
(***************************************************************************)
IdsOf(slides) == [i \in 1..Len(slides) |-> slides[i].id]
Has(slides, id) == \E i \in 1..Len(slides) : slides[i].id = id
At(slides, id) == CHOOSE i \in 1..Len(slides) : slides[i].id = id
Start == "start"

(* Fault: a slide goes in front of its anchor. *)
PlaceBefore(slides, slide, after) ==
  IF after = Start THEN <<slide>> \o slides
  ELSE IF Has(slides, after) THEN InsertAt(slides, At(slides, after), slide)
  ELSE Append(slides, slide)

(* After its anchor; at the end if the anchor is gone. *)
Place(slides, slide, after) ==
  IF after = Start THEN <<slide>> \o slides
  ELSE IF Has(slides, after) THEN InsertAt(slides, At(slides, after) + 1, slide)
  ELSE Append(slides, slide)

Edited(slides, op) ==
  CASE op.kind = "insert" ->
         IF Has(slides, op.slide.id) THEN slides ELSE Place(slides, op.slide, op.after)
    [] ~Has(slides, op.id) -> slides
    [] op.kind = "delete" ->
         IF Len(slides) = 1 THEN slides ELSE RemoveAt(slides, At(slides, op.id))
    [] op.kind = "move" ->
         LET i == At(slides, op.id)
         IN  Place(RemoveAt(slides, i), slides[i], op.after)
    [] op.kind = "text" -> [slides EXCEPT ![At(slides, op.id)].text = op.value]

ApplyOp(d, op) ==
  IF op.kind = "title" THEN [d EXCEPT !.title = op.value]
  ELSE [d EXCEPT !.slides = Edited(@, op)]

ApplyDeckOps(d, ops) == FoldLeft(ApplyOp, d, ops)

(* What an entry of the log, or a batch yet to be logged, does to a deck. *)
ApplyEntry(d, entry) == ApplyDeckOps(d, entry.ops)

(* The slide at i is placed after the one in front of it. *)
AfterOf(slides, i) == IF i = 1 THEN Start ELSE slides[i - 1].id

Refusal == [kind |-> "refusal"]

(* One slide inserted, deleted or moved, the others as they were. *)
StructuralEdit(before, after) ==
  LET b == IdsOf(before)
      a == IdsOf(after)
      kept == ToSet(a) \cap ToSet(b)
      Among(ids) == SelectSeq(ids, LAMBDA s : s \in kept)
      moved == {i \in 1..Len(b) : Remove(b, b[i]) = Remove(a, b[i])}
  IN  IF \E s \in kept : before[At(before, s)] # after[At(after, s)] THEN Refusal
      ELSE IF Len(a) = Len(b) + 1 /\ Among(a) = b
      THEN LET i == CHOOSE i \in 1..Len(a) : a[i] \notin kept
           IN  [kind |-> "insert", slide |-> after[i], after |-> AfterOf(after, i)]
      ELSE IF Len(b) = Len(a) + 1 /\ Among(b) = a /\ Len(b) > 1
      THEN [kind |-> "delete", id |-> CHOOSE s \in ToSet(b) : s \notin kept]
      ELSE IF Len(a) = Len(b) /\ moved # {}
      THEN LET s == b[Min(moved)]
           IN  [kind |-> "move", id |-> s, after |-> AfterOf(after, At(after, s))]
      ELSE Refusal

FieldEdits(before, after) ==
  LET texts == SelectSeq(after.slides, LAMBDA s :
                 before.slides[At(before.slides, s.id)].text # s.text)
      ops == [i \in 1..Len(texts) |->
                [kind |-> "text", id |-> texts[i].id, value |-> texts[i].text]]
  IN  IF before.title = after.title THEN ops
      ELSE <<[kind |-> "title", value |-> after.title]>> \o ops

(* diffDeck. *)
DiffDeck(before, after) ==
  IF IdsOf(before.slides) = IdsOf(after.slides) THEN FieldEdits(before, after)
  ELSE <<StructuralEdit(before.slides, after.slides)>>

-----------------------------------------------------------------------------
(***************************************************************************)
(* The engine.                                                             *)
(***************************************************************************)
Idle == [phase |-> "idle"]

Visible(e) == FoldLeft(ApplyEntry, e.base, e.pending)

(* submitLoop, from the top of its loop: the oldest batch is sent. *)
SubmitLoop(e) ==
  IF e.pending = <<>> \/ e.tries = DeckAttempts
  THEN [e EXCEPT !.submit = Idle, !.tries = 0]
  ELSE [e EXCEPT !.submit = [phase |-> "asked", base |-> e.applied,
                             batch |-> Head(e.pending)],
                 !.tries = @ + 1]

SubmitUnlessBusy(e) == IF e.submit.phase # "idle" THEN e ELSE SubmitLoop(e)

Ask(e, who) ==
  [e EXCEPT !.catching = @ \cup {[who |-> who, phase |-> "asked", from |-> e.applied]}]

(* apply. *)
Apply(e, n) == [e EXCEPT !.base = ApplyEntry(@, log[n]), !.applied = n]

(* drain: the held entries that follow one another are taken off and applied. *)
TakeHeld(e, n) ==
  IF n = e.applied + 1 /\ n \in e.held
  THEN Apply([e EXCEPT !.held = @ \ {n}], n) ELSE e

Drain(e) == FoldLeft(TakeHeld, e, [n \in 1..Len(log) |-> n])

(* Fault: an entry behind a gap is applied at once. *)
ReceiveAnyLater(e, n) == IF n <= e.applied THEN e ELSE Drain(Apply(e, n))

(* receiveEntry. *)
Receive(e, n) ==
  IF n <= e.applied THEN e
  ELSE IF n = e.applied + 1 THEN Drain(Apply(e, n))
  ELSE Ask([e EXCEPT !.held = @ \cup {n}], "live")

(* Fault: after a stale submission the loop is left. *)
EndCatchUpWithoutRetry(e, call) ==
  LET u == [e EXCEPT !.catching = @ \ {call},
                     !.submit = IF call.who = "submit" THEN Idle ELSE @]
  IN  IF call.who = "resume" THEN SubmitUnlessBusy(u) ELSE u

(* What the caller of catchUp does next. *)
EndCatchUp(e, call) ==
  LET u == [e EXCEPT !.catching = @ \ {call}]
  IN  CASE call.who = "submit" -> SubmitLoop(u)
        [] call.who = "resume" -> SubmitUnlessBusy(u)
        [] OTHER -> u

(* What was applied meanwhile is passed over. *)
TakeNews(e, n) == IF n > e.applied THEN Apply(e, n) ELSE e

(* catchUp, when the answer has come. *)
CatchUp(e, call) ==
  IF call.reset THEN [e EXCEPT !.reload = TRUE]
  ELSE Drain(FoldLeft(TakeNews, e, call.todo))

(* Fault: an acknowledged batch is not taken off the queue. *)
AckedWithoutShift(e) ==
  [e EXCEPT !.base = ApplyDeckOps(@, Head(e.pending).ops), !.applied = e.submit.seq]

(* The batch is applied and the position set, whatever was applied meanwhile. *)
Acked(e) ==
  [e EXCEPT !.base = ApplyDeckOps(@, Head(e.pending).ops),
            !.pending = Tail(@), !.applied = e.submit.seq]

-----------------------------------------------------------------------------
(***************************************************************************)
(* Actions                                                                 *)
(***************************************************************************)
(* What a step of the engine sends. *)
Sent(u) ==
  IF u.submit.phase = "asked" /\ u.submit # deck.submit
  THEN {[base |-> u.submit.base, ops |-> u.submit.batch.ops,
         batch |-> u.submit.batch.n, client |-> ident]}
  ELSE {}

(* startSync: the tab has joined, loaded the deck as first saved and replays. *)
DeckInit ==
  /\ RoomInit(DeckBounds)
  /\ log = <<>>
  /\ deck = [base |-> FirstDeck, applied |-> 0, pending |-> <<>>, made |-> <<>>,
             submit |-> Idle, tries |-> 0, held |-> {}, reload |-> FALSE,
             catching |-> {[who |-> "boot", phase |-> "asked", from |-> 0]}]

(* The user hands change() another deck, made in one gesture or two. *)
NewSlide(id, n) == [id |-> id, text |-> n]
Rewrites(d, n) ==
  LET slides == d.slides
      indices == 1..Len(slides)
      moved ==
        {InsertAt(slides, i, NewSlide(s, n)) :
           i \in 1..(Len(slides) + 1), s \in {s \in Slides : ~Has(slides, s)}}
        \cup ({RemoveAt(slides, i) : i \in indices} \ {<<>>})
        \cup {InsertAt(RemoveAt(slides, i), k, slides[i]) : i, k \in indices}
        \cup {[Reverse(slides) EXCEPT ![1].text = n]}
      orders == {[slides EXCEPT ![1].text = n]} \cup IF n > Moves THEN {} ELSE moved
  IN  {[d EXCEPT !.slides = o] : o \in orders} \cup {[d EXCEPT !.title = n]}

DeckChange(next) ==
  LET ops == DiffDeck(Visible(deck), next)
  IN  /\ Spend("edits")
      /\ deck' = IF ops = <<Refusal>> \/ ops = <<>> THEN deck
                 ELSE SubmitUnlessBusy(
                   [deck EXCEPT !.made = Append(@, ops),
                      !.pending = Append(@, [n |-> Len(deck.made) + 1, ops |-> ops])])
      /\ wire' = wire \cup Sent(deck')
      /\ UNCHANGED <<log, floor, feed, link, ident, mishaps>>

DeckServeSubmit(r) ==
  /\ Serve(r)
  /\ deck' = IF /\ deck.submit.phase = "asked"
                /\ deck.submit.base = r.base /\ deck.submit.batch.n = r.batch
             THEN [deck EXCEPT !.submit = [phase |-> "answered", seq |-> Verdict(r)]]
             ELSE deck

(* Another editor's entry, or a new file. *)
Others(n) ==
  { <<[kind |-> "title", value |-> -n]>>,
    <<[kind |-> "delete", id |-> FirstDeck.slides[1].id]>>,
    <<[kind |-> "move", id |-> Last(FirstDeck.slides).id, after |-> Start]>> }

DeckOther ==
  /\ (\E ops \in Others(Len(log) + 1) : OtherSubmits(ops)) \/ FileReplaced(<<>>)
  /\ UNCHANGED deck

DeckEvent ==
  /\ feed # <<>>
  /\ deck' = IF Head(feed) = 0 THEN [deck EXCEPT !.reload = TRUE]
             ELSE Receive(deck, Head(feed))
  /\ Arrive(Sent(deck'))

DeckSubmitReturns ==
  /\ deck.submit.phase = "answered"
  /\ deck' = IF deck.submit.seq = 0
             THEN Ask([deck EXCEPT !.submit = [phase |-> "catching"]], "submit")
             ELSE SubmitLoop(Acked(deck))
  /\ Quiet(Sent(deck'),
           IF deck.submit.seq \in 1..deck.applied THEN {"late acknowledgement"} ELSE {})

(* Any other error ends the loop: a change or a reconnect tries again. *)
DeckSubmitLost ==
  /\ deck.submit.phase = "asked"
  /\ deck' = [deck EXCEPT !.submit = Idle, !.tries = 0]
  /\ Lose({})

DeckServeCatchUp(call) ==
  /\ call.phase = "asked"
  /\ LET since == Since(call.from)
         answered == [who |-> call.who, phase |-> since.phase,
                      reset |-> since.reset, todo |-> since.todo]
     IN  deck' = [deck EXCEPT !.catching = (@ \ {call}) \cup {answered}]
  /\ UNCHANGED room

DeckCatchUpReturns(call) ==
  /\ call.phase = "answered"
  /\ \E caught \in {CatchUp(deck, call)} : deck' = EndCatchUp(caught, call)
  /\ Quiet(Sent(deck'), {})

DeckCatchUpLost(call) ==
  /\ deck' = EndCatchUp(deck, call)
  /\ Lose(Sent(deck'))

DeckDrop == Drop /\ UNCHANGED deck

(* onReconnect: join again, then resume. *)
DeckReconnect ==
  /\ Rejoin({})
  /\ deck' = Ask(deck, "resume")

DeckNext ==
  \/ \E next \in Rewrites(Visible(deck), Len(deck.made) + 1) : DeckChange(next)
  \/ \E r \in wire : DeckServeSubmit(r)
  \/ \E call \in deck.catching :
       DeckServeCatchUp(call) \/ DeckCatchUpReturns(call) \/ DeckCatchUpLost(call)
  \/ DeckOther \/ DeckEvent \/ DeckSubmitReturns \/ DeckSubmitLost
  \/ DeckDrop \/ DeckReconnect

DeckSpec == DeckInit /\ [][DeckNext]_kvars

(* Calls are served and answered, events arrive, and a lost connection comes
   back.  Nobody has to edit. *)
DeckFairSpec ==
  /\ DeckSpec
  /\ WF_kvars(DeckEvent) /\ WF_kvars(DeckReconnect)
  /\ WF_kvars(\E r \in wire : DeckServeSubmit(r)) /\ WF_kvars(DeckSubmitReturns)
  /\ WF_kvars(\E call \in deck.catching : DeckServeCatchUp(call))
  /\ WF_kvars(\E call \in deck.catching : DeckCatchUpReturns(call))

-----------------------------------------------------------------------------
(***************************************************************************)
(* Properties                                                              *)
(***************************************************************************)
(* "The confirmed base advances only with server-ordered entries": it is the
   loaded deck with the log's entries up to the applied position, in order
   (apply, drain and submitLoop). *)
BaseFollowsLog ==
  ~deck.reload =>
    deck.base = FoldLeft(ApplyEntry, FirstDeck, SubSeq(log, 1, deck.applied))

(* The same as long as no acknowledgement trails entries that follow it. *)
BaseFollowsLogIfCoped == mishaps \ {"call lost"} = {} => BaseFollowsLog

(* The batches this tab has in the log, in order. *)
WithOwn(batches, entry) ==
  IF entry.client = 0 THEN batches ELSE Append(batches, entry.ops)

(* Batches are logged in the order made, each once while no call is lost, and
   none is forgotten: one is pending until its acknowledgement (change,
   submitLoop). *)
BatchesKept ==
  LET sent == FoldLeft(WithOwn, <<>>, log)
      done == Len(deck.made) - Len(deck.pending)
  IN  /\ deck.pending = [i \in 1..Len(deck.pending) |->
                           [n |-> done + i, ops |-> deck.made[done + i]]]
      /\ ToSet(SubSeq(deck.made, 1, done)) \subseteq ToSet(sent)
      /\ mishaps \ {"late acknowledgement"} = {} =>
           /\ IsPrefix(sent, deck.made)
           /\ Len(sent) \in {done, done + 1}

(* An accepted change shows the deck that was made, retitling while slides move
   apart (diffDeck, applyDeckOps, change). *)
ShownAsMade ==
  [][deck'.made # deck.made =>
       \A next \in Rewrites(Visible(deck), Len(deck.made) + 1) :
         DeckChange(next) => Visible(deck') = next]_kvars

(* The tab reaches the head of the log and everything changed is logged, if no
   call is lost and no acknowledgement comes late (submitLoop, resume). *)
DeckSettles ==
  <>[](mishaps # {} \/ deck.reload \/ (deck.applied = Len(log) /\ deck.pending = <<>>))

=============================================================================
