------------------------------ MODULE DocSync ------------------------------
(***************************************************************************)
(* Co-editing of one text document as one tab sees it: DocSyncEngine of    *)
(* packages/collab/src/docSync.ts, the part of docManager.ts that feeds it *)
(* and the ProseMirror editor as apps/playground/src/collab/docs.tsx hooks *)
(* it in.                                                                  *)
(*                                                                         *)
(* What an entry does is a sequence of edits, each a number: those of this *)
(* tab count up from 1, one of another editor is the negated position of   *)
(* its entry.  Of the text only the order in which the editor took edits   *)
(* as confirmed is kept (seen) and its own unconfirmed edits (pending).    *)
(*                                                                         *)
(* Applying an entry is awaited.  A host that applies at once goes on in   *)
(* microtasks, before anything else happens; one that applies later lets   *)
(* events and answers in between.                                          *)
(***************************************************************************)
EXTENDS EditRoom

CONSTANTS
  DocHosts,     \* which of {"at once", "later"} the host may be
  DocBounds,    \* the bounds on what happens, one of which a behaviour has
  DocAttempts   \* how often submitLoop submits (8)

ASSUME DocAssumption ==
  /\ DocHosts \subseteq {"at once", "later"}
  /\ DocBounds \subseteq [BoundNames -> Nat]
  /\ DocAttempts \in Nat \ {0}

VARIABLES
  doc,    \* the engine and its editor
  host    \* rigid: the kind of host

dvars == <<room, doc, host>>

Self == 1   \* the connection under which the engine was started
Idle == [phase |-> "idle"]
WithEdits(edits, entry) == edits \o entry.ops
Edits == FoldLeft(WithEdits, <<>>, log)
Later(m, n) == IF m > n THEN m ELSE n
Free == ~(host = "at once" /\ doc.tasks # {})

-----------------------------------------------------------------------------
(***************************************************************************)
(* The engine: catch-up and submission.                                    *)
(***************************************************************************)
(* One catch-up at a time; a second caller shares the first one's. *)
CatchUp(e) ==
  IF e.catch.phase # "idle" THEN e
  ELSE [e EXCEPT !.catch = [phase |-> "asked", from |-> e.applied]]

(* submitLoop, from the top of its loop: everything unconfirmed is sent. *)
SubmitLoop(e) ==
  IF e.pending = <<>> \/ e.tries = DocAttempts
  THEN [e EXCEPT !.submit = Idle, !.tries = 0]
  ELSE [e EXCEPT !.submit = [phase |-> "asked", base |-> e.applied, ops |-> e.pending],
                 !.tries = @ + 1]

SubmitSoon(e) == IF e.submit.phase # "idle" THEN e ELSE SubmitLoop(e)

(* Fault: after a stale submission, and at the start, nothing is submitted. *)
EndCatchUpWithoutRetry(e) ==
  LET u == [e EXCEPT !.catch = Idle, !.resuming = FALSE,
                     !.submit = IF @.phase \in {"catching", "booting"} THEN Idle ELSE @]
  IN  IF e.resuming THEN SubmitSoon(u) ELSE u

(* It resolves for the submission refused as stale, for startSync, before which
   nothing is submitted, and for resume(). *)
EndCatchUp(e) ==
  LET u == [e EXCEPT !.catch = Idle, !.resuming = FALSE]
      v == IF u.submit.phase \in {"catching", "booting"} THEN SubmitLoop(u) ELSE u
  IN  IF e.resuming THEN SubmitSoon(v) ELSE v

-----------------------------------------------------------------------------
(***************************************************************************)
(* The editor, and the awaited application of entries.  A task applies the *)
(* entries it was given and then those held that follow.                   *)
(***************************************************************************)
(* Fault: what was typed since the submission counts as confirmed too. *)
ConfirmAll(e, edits) == [e EXCEPT !.seen = @ \o edits, !.pending = <<>>]

(* receiveTransaction with the editor's own id. *)
Confirm(e, edits) ==
  [e EXCEPT !.seen = @ \o edits,
            !.pending = SubSeq(@, Len(edits) + 1, Len(@))]

(* Own entries are passed over; those the current connection sent are
   confirmed; all others are taken in as another editor's. *)
ApplyHook(e, entry) ==
  IF entry.client = Self THEN e
  ELSE IF entry.client = ident THEN Confirm(e, entry.ops)
  ELSE [e EXCEPT !.seen = @ \o entry.ops]

EndTask(e, who) ==
  CASE who = "catch" -> EndCatchUp(e)
    [] who = "submit" -> SubmitLoop(e)
    [] OTHER -> e

Start(e, who, n, todo) ==
  [e EXCEPT !.tasks = @ \cup {[who |-> who, at |-> n, todo |-> todo]}]

(* The next entry that is news, the next one held, or the end. *)
GoOn(e, who, todo) ==
  LET news == {i \in 1..Len(todo) : todo[i] > e.applied}
      next == e.applied + 1
  IN  IF news # {}
      THEN Start(e, who, todo[Min(news)], SubSeq(todo, Min(news) + 1, Len(todo)))
      ELSE IF next \in e.held
      THEN Start([e EXCEPT !.held = @ \ {next}], who, next, <<>>)
      ELSE EndTask(e, who)

(* Fault: an entry behind a gap is applied at once. *)
ReceiveAnyLater(e, n) == IF n <= e.applied THEN e ELSE Start(e, "live", n, <<>>)

(* receiveEntry. *)
Receive(e, n) ==
  IF n <= e.applied THEN e
  ELSE IF n = e.applied + 1 THEN Start(e, "live", n, <<>>)
  ELSE CatchUp([e EXCEPT !.held = @ \cup {n}])

-----------------------------------------------------------------------------
(***************************************************************************)
(* Actions                                                                 *)
(***************************************************************************)
(* What a step of the engine sends. *)
Sent(u) ==
  IF u.submit.phase = "asked" /\ u.submit # doc.submit
  THEN {[base |-> u.submit.base, ops |-> u.submit.ops, client |-> ident]} ELSE {}

(* startSync: the tab has joined, loaded the file as first saved and replays. *)
DocInit ==
  /\ RoomInit(DocBounds)
  /\ \E n \in {0, 1} : log = [i \in 1..n |-> Entry(0, <<-i>>)]
  /\ host \in DocHosts
  /\ doc = [applied |-> 0, seen |-> <<>>, pending |-> <<>>, made |-> 0,
            submit |-> [phase |-> "booting"], tries |-> 0, resuming |-> FALSE,
            catch |-> [phase |-> "asked", from |-> 0],
            held |-> {}, tasks |-> {}, reload |-> FALSE]

(* The user types. *)
Type ==
  /\ Free /\ Spend("edits")
  /\ doc' = SubmitSoon([doc EXCEPT !.made = @ + 1, !.pending = Append(@, doc.made + 1)])
  /\ wire' = wire \cup Sent(doc')
  /\ UNCHANGED <<log, floor, feed, link, ident, mishaps, host>>

(* An awaited application ends: the entry counts as applied. *)
Applied(task) ==
  /\ doc' = GoOn([ApplyHook(doc, log[task.at]) EXCEPT !.tasks = @ \ {task},
                    !.applied = Later(@, task.at)], task.who, task.todo)
  /\ Quiet(Sent(doc'), IF log[task.at].client # 0 THEN {"own entry returned"} ELSE {})
  /\ UNCHANGED host

(* The editor cannot apply it: the host is told to reload. *)
Refused(task) ==
  /\ log[task.at].client # Self
  /\ Spend("bad")
  /\ doc' = GoOn([doc EXCEPT !.tasks = @ \ {task}, !.reload = TRUE], task.who, task.todo)
  /\ wire' = wire \cup Sent(doc')
  /\ UNCHANGED <<log, floor, feed, link, ident, mishaps, host>>

DocServeSubmit(r) ==
  /\ Free
  /\ Serve(r)
  /\ doc' = IF /\ doc.submit.phase = "asked"
               /\ doc.submit.base = r.base /\ doc.submit.ops = r.ops
            THEN [doc EXCEPT !.submit = [phase |-> "answered", ops |-> r.ops,
                                         seq |-> Verdict(r)]]
            ELSE doc
  /\ UNCHANGED host

DocOther ==
  /\ Free
  /\ OtherSubmits(<<-(Len(log) + 1)>>) \/ FileReplaced(<<-(Len(log) + 1)>>)
  /\ UNCHANGED <<doc, host>>

DocEvent ==
  /\ Free /\ feed # <<>>
  /\ doc' = IF Head(feed) = 0 THEN [doc EXCEPT !.reload = TRUE]
            ELSE Receive(doc, Head(feed))
  /\ Arrive(Sent(doc'))
  /\ UNCHANGED host

Acked(e) ==
  Confirm([e EXCEPT !.applied = Later(@, e.submit.seq),
                    !.submit = [phase |-> "draining"]], e.submit.ops)

DocSubmitReturns ==
  /\ Free /\ doc.submit.phase = "answered"
  /\ doc' = IF doc.submit.seq = 0
            THEN CatchUp([doc EXCEPT !.submit = [phase |-> "catching"]])
            ELSE GoOn(Acked(doc), "submit", <<>>)
  /\ Quiet(Sent(doc'), {})
  /\ UNCHANGED host

(* Any other error ends the loop: reconnecting tries again. *)
DocSubmitLost ==
  /\ Free /\ doc.submit.phase = "asked"
  /\ doc' = [doc EXCEPT !.submit = Idle, !.tries = 0]
  /\ Lose({})
  /\ UNCHANGED host

DocServeCatchUp ==
  /\ Free /\ doc.catch.phase = "asked"
  /\ doc' = [doc EXCEPT !.catch = Since(@.from)]
  /\ UNCHANGED <<room, host>>

DocCatchUpReturns ==
  /\ Free /\ doc.catch.phase = "answered"
  /\ doc' = IF doc.catch.reset THEN EndCatchUp([doc EXCEPT !.reload = TRUE])
            ELSE GoOn([doc EXCEPT !.catch = [phase |-> "applying"]], "catch",
                      doc.catch.todo)
  /\ Quiet(Sent(doc'), {})
  /\ UNCHANGED host

DocCatchUpLost ==
  /\ Free /\ doc.catch.phase \in {"asked", "answered"}
  /\ doc' = EndCatchUp(doc)
  /\ Lose(Sent(doc'))
  /\ UNCHANGED host

DocDrop == Free /\ Drop /\ UNCHANGED <<doc, host>>

(* onReconnect: join again, then resume. *)
DocReconnect ==
  /\ Free
  /\ Rejoin(IF doc.catch.phase # "idle" THEN {"old catch-up shared"} ELSE {})
  /\ doc' = CatchUp([doc EXCEPT !.resuming = TRUE])
  /\ UNCHANGED host

DocNext ==
  \/ Type \/ DocOther \/ DocEvent
  \/ \E task \in doc.tasks : Applied(task) \/ Refused(task)
  \/ \E r \in wire : DocServeSubmit(r)
  \/ DocSubmitReturns \/ DocSubmitLost
  \/ DocServeCatchUp \/ DocCatchUpReturns \/ DocCatchUpLost
  \/ DocDrop \/ DocReconnect

DocSpec == DocInit /\ [][DocNext]_dvars

(* Calls are served and answered, events arrive, what the host applies ends,
   and a lost connection comes back.  Nobody has to type. *)
DocFairSpec ==
  /\ DocSpec
  /\ WF_dvars(DocEvent) /\ WF_dvars(DocReconnect)
  /\ WF_dvars(\E task \in doc.tasks : Applied(task))
  /\ WF_dvars(\E r \in wire : DocServeSubmit(r)) /\ WF_dvars(DocSubmitReturns)
  /\ WF_dvars(DocServeCatchUp) /\ WF_dvars(DocCatchUpReturns)

-----------------------------------------------------------------------------
(***************************************************************************)
(* Properties                                                              *)
(***************************************************************************)
DocCoped == mishaps = {} /\ host = "at once" /\ ~doc.reload

(* "live entries apply in seq order": what the editor took as confirmed is the
   log so far, in its order and nothing twice (receiveEntry, catchUp,
   submitLoop and the hooks). *)
SeenFollowsLog == ~doc.reload => IsPrefix(doc.seen, Edits)

(* The same with a host that applies at once, no call lost, and no own entry
   come back through a catch-up. *)
SeenFollowsLogIfCoped == DocCoped => IsPrefix(doc.seen, Edits)

(* This tab's among them. *)
WithOwn(own, n) == IF n > 0 THEN Append(own, n) ELSE own
Own(edits) == FoldLeft(WithOwn, <<>>, edits)

(* What the editor shows besides others' edits is what it made, in the order
   typed, and none of it is logged twice (getPending, onAcked). *)
NothingTwiceOrLost ==
  DocCoped =>
    /\ \A i \in 1..Len(Own(Edits)) : Own(Edits)[i] = i
    /\ Own(doc.seen) \o doc.pending = [i \in 1..doc.made |-> i]

(* The tab reaches the head of the log and what was typed is logged, if no call
   is lost and no resumption shares an older catch-up. *)
DocSettles ==
  <>[](mishaps # {} \/ doc.reload \/ (doc.applied = Len(log) /\ doc.pending = <<>>))

=============================================================================
