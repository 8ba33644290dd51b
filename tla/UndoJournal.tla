---------------------------- MODULE UndoJournal ----------------------------
(***************************************************************************)
(* Collaborative undo of one client: the two stacks of                     *)
(* packages/collab/src/undo.ts (CollaborativeUndoManager) and the          *)
(* coordinator of packages/collab/src/undoJournal.ts, which runs records,  *)
(* undos, redos, remote batches and acknowledgements one after the other.  *)
(*                                                                         *)
(* A batch writes cells: it is a function from cells to values.  Row and   *)
(* column edits, selections and what undo refuses to touch are left out,   *)
(* and so are dispose, an id recorded twice (the caller's contract), and a *)
(* reset while the journal is storing a batch.                             *)
(*                                                                         *)
(* External: the journal (OutboundJournal) is the ordered outbox it        *)
(* promises to be, whose writes may fail; the server logs its head when    *)
(* the client has been fed the whole log; the host keeps remote writes off *)
(* the cells of local ones still under way, and feeds the coordinator      *)
(* every other client's entry in order.                                    *)
(***************************************************************************)
EXTENDS SequencesExt, Integers

CONSTANTS
  UndoCells,     \* the cells of the sheet
  Ranges,        \* the sets of cells a batch may write
  UndoBounds     \* the bounds on what happens, one of which a behaviour has

UndoBoundNames ==
  {"edits", "others", "undos", "redos", "refusals", "unsaved", "stops",
   "overtakes", "resets", "withdrawals"}

ASSUME UndoAssumption ==
  /\ Ranges \subseteq SUBSET UndoCells \ {{}}
  /\ UndoBounds \subseteq [UndoBoundNames -> Nat]

VARIABLES
  serverLog,   \* the server's log of batches, other clients' with key 0
  fed,         \* how much of it the host has handed on
  outbox,      \* the journal's entries
  doc,         \* the sheet
  coord,       \* the coordinator with its undo manager
  budget,      \* what is left of the bounds
  keys,        \* entries the journal ever accepted
  mishaps      \* history: which situations the code does not cope with arose

uvars == <<serverLog, fed, outbox, doc, coord, budget, keys, mishaps>>

Blank == [cell \in UndoCells |-> 0]
Over(sheet, ops) ==
  [cell \in UndoCells |-> IF cell \in DOMAIN ops THEN ops[cell] ELSE sheet[cell]]
Played(sheet, w) == Over(sheet, w.ops)
Content(writes) == FoldLeft(Played, Blank, writes)
Outside(ops, cells) == [cell \in DOMAIN ops \ cells |-> ops[cell]]

Resting == [phase |-> "none"]

Fresh(seq) ==
  [undo |-> <<>>, redo |-> <<>>, seq |-> seq, status |-> "active",
   pending |-> [id \in {} |-> 0], tail |-> <<>>, run |-> Resting]

Spend(what) ==
  /\ budget[what] > 0
  /\ budget' = [budget EXCEPT ![what] = @ - 1]

-----------------------------------------------------------------------------
(***************************************************************************)
(* CollaborativeUndoManager: an entry is [id, undo, redo].                 *)
(***************************************************************************)
(* Fault: what was undone can still be redone. *)
RecordKeepingRedo(s, entry) == [s EXCEPT !.undo = Append(@, entry)]

Record(s, entry) == [s EXCEPT !.undo = Append(@, entry), !.redo = <<>>]

(* commit: the planned entry changes stacks. *)
Commit(s, direction) ==
  IF direction = "undo"
  THEN [s EXCEPT !.undo = Front(@), !.redo = Append(@, Last(s.undo))]
  ELSE [s EXCEPT !.redo = Front(@), !.undo = Append(@, Last(s.redo))]

(* Fault: only the side that would be undone gives up the cells. *)
RebaseEntryHalf(entry, ops, earlier) ==
  IF earlier THEN entry
  ELSE [entry EXCEPT !.undo = Outside(@, DOMAIN ops)]

(* rebaseEntry: a later remote write takes its cells out of both sides. *)
RebaseEntry(entry, ops, earlier) ==
  IF earlier THEN entry
  ELSE [entry EXCEPT !.undo = Outside(@, DOMAIN ops), !.redo = Outside(@, DOMAIN ops)]

RebaseRemote(s, ops) ==
  LET rebased(stack) ==
        [i \in DOMAIN stack |->
           RebaseEntry(stack[i], ops, stack[i].id \in DOMAIN s.pending)]
  IN  [s EXCEPT !.undo = rebased(@), !.redo = rebased(@)]

-----------------------------------------------------------------------------
(***************************************************************************)
(* CollaborativeUndoJournalCoordinator                                     *)
(***************************************************************************)
Block(s) == [s EXCEPT !.status = "blocked"]

Track(s, id) ==
  [s EXCEPT !.pending = IF id \in DOMAIN @ THEN [@ EXCEPT ![id] = @ + 1]
                        ELSE (id :> 1) @@ @]

Untrack(s, id) ==
  [s EXCEPT !.pending =
     IF @[id] = 1 THEN [d \in DOMAIN @ \ {id} |-> @[d]] ELSE [@ EXCEPT ![id] = @ - 1]]

(* Fault: the position of an acknowledgement is not counted. *)
AcknowledgeUncounted(s, id, seq) ==
  LET u == Untrack(s, id)
  IN  IF seq > s.seq + 1 THEN Block(u) ELSE u

Acknowledge(s, id, seq) ==
  LET u == Untrack(s, id)
  IN  IF seq > s.seq + 1 THEN Block(u)
      ELSE IF seq = s.seq + 1 THEN [u EXCEPT !.seq = seq] ELSE u

Queued(s, op) == [s EXCEPT !.tail = Append(@, op)]

(* The operation at the head of the tail may start. *)
Starts(kinds) ==
  coord.run = Resting /\ coord.tail # <<>> /\ Head(coord.tail).op \in kinds
Operation == Head(coord.tail)
Dequeued == [coord EXCEPT !.tail = Tail(@)]

-----------------------------------------------------------------------------
(***************************************************************************)
(* The client's batches in the order the server has them or will.          *)
(***************************************************************************)
Seen == SubSeq(serverLog, 1, coord.seq)
IfAck(batches, o) == IF o.op = "ack" THEN Append(batches, o.batch) ELSE batches
IfRecord(batches, o) == IF o.op = "record" THEN Append(batches, o.batch) ELSE batches
Acks == FoldLeft(IfAck, <<>>, coord.tail)
Records == FoldLeft(IfRecord, <<>>, coord.tail)

(* Held back by the send gate: the host has not executed it. *)
Unexecuted == IF coord.run.phase \in {"kept", "refused"} THEN {coord.run.key} ELSE {}

Ahead(w) == w.key \notin Unexecuted /\ \A n \in DOMAIN Seen : Seen[n].key # w.key
IfAhead(batches, w) == IF Ahead(w) THEN Append(batches, w) ELSE batches
LocalWrites == FoldLeft(IfAhead, <<>>, Acks \o outbox) \o Records

Writes == Seen \o LocalWrites
Writing(writes, cell) == {i \in DOMAIN writes : cell \in DOMAIN writes[i].ops}

-----------------------------------------------------------------------------
(***************************************************************************)
(* Actions                                                                 *)
(***************************************************************************)
UndoInit ==
  /\ serverLog = <<>>
  /\ fed = 0
  /\ outbox = <<>>
  /\ doc = Blank
  /\ coord = Fresh(0)
  /\ budget \in UndoBounds
  /\ keys = 0
  /\ mishaps = {}

(* The user writes cells; the host computes the inverse and calls recordLocal. *)
Edit(cells) ==
  LET n == budget.edits
      ops == [cell \in cells |-> n]
      batch == [id |-> n, kind |-> "do", ops |-> ops]
  IN  /\ coord.status = "active"
      /\ Spend("edits")
      /\ doc' = Over(doc, ops)
      /\ coord' = Queued(coord, [op |-> "record", batch |-> batch,
                                 inverse |-> [cell \in cells |-> doc[cell]]])
      /\ UNCHANGED <<serverLog, fed, outbox, keys, mishaps>>

Ask(direction) ==
  /\ Spend(IF direction = "undo" THEN "undos" ELSE "redos")
  /\ coord' = Queued(coord, [op |-> direction])
  /\ UNCHANGED <<serverLog, fed, outbox, doc, keys, mishaps>>

(* A blocked coordinator refuses whatever its turn comes to, and an undo with
   nothing to undo does nothing. *)
Skip ==
  /\ Starts({"record", "undo", "redo", "remote"})
  /\ \/ coord.status = "blocked"
     \/ Operation.op \in {"undo", "redo"} /\ coord[Operation.op] = <<>>
     \/ Operation.op = "remote" /\ Operation.seq <= coord.seq
  /\ coord' = Dequeued
  /\ UNCHANGED <<serverLog, fed, outbox, doc, budget, keys, mishaps>>

(* What the journal has of a batch, and the coordinator while it runs a plan. *)
Stored(batch, key, held) ==
  [key |-> key, id |-> batch.id, kind |-> batch.kind, ops |-> batch.ops,
   held |-> held, tracked |-> TRUE]
Planned(batch, key) ==
  [key |-> key, id |-> batch.id, kind |-> batch.kind, ops |-> batch.ops,
   phase |-> "kept"]

(* recordLocal: stored, recorded, tracked and released to the transport. *)
RunRecord ==
  LET batch == Operation.batch
      entry == [id |-> batch.id, undo |-> Operation.inverse, redo |-> batch.ops]
  IN  /\ Starts({"record"}) /\ coord.status = "active"
      /\ keys' = keys + 1
      /\ outbox' = Append(outbox, Stored(batch, keys + 1, FALSE))
      /\ coord' = Track(Record(Dequeued, entry), batch.id)
      /\ UNCHANGED <<serverLog, fed, doc, budget, mishaps>>

(* The journal cannot store a batch. *)
RunUnsaved ==
  /\ Starts({"record", "undo", "redo"}) /\ coord.status = "active"
  /\ Operation.op # "record" =>
       /\ coord[Operation.op] # <<>>
       /\ DOMAIN Last(coord[Operation.op])[Operation.op] # {}
  /\ Spend("unsaved")
  /\ coord' = Block(Dequeued)
  /\ mishaps' = mishaps \cup {"unsaved"}
  /\ UNCHANGED <<serverLog, fed, outbox, doc, keys>>

(* executePlan, up to the host: the batch is stored behind the send gate.  All
   that changes the stacks waits in the tail, so the plan stays good. *)
RunPlan ==
  LET direction == Operation.op
      entry == Last(coord[direction])
      batch == [id |-> entry.id, kind |-> direction, ops |-> entry[direction]]
  IN  /\ Starts({"undo", "redo"}) /\ coord.status = "active"
      /\ coord[direction] # <<>>
      /\ IF DOMAIN batch.ops = {}
         THEN /\ coord' = Commit(Dequeued, direction)
              /\ UNCHANGED <<outbox, keys>>
         ELSE /\ keys' = keys + 1
              /\ outbox' = Append(outbox, Stored(batch, keys + 1, TRUE))
              /\ coord' = [Dequeued EXCEPT !.run = Planned(batch, keys + 1)]
      /\ UNCHANGED <<serverLog, fed, doc, budget, mishaps>>

(* The host executes the batch, by now perhaps over an edit that waits to be
   recorded. *)
Execute ==
  /\ coord.run.phase = "kept"
  /\ doc' = Over(doc, coord.run.ops)
  /\ coord' = [coord EXCEPT !.run.phase = "executed"]
  /\ mishaps' =
       IF \E cell \in DOMAIN coord.run.ops : Writing(Records, cell) # {}
       THEN mishaps \cup {"edit overwritten"} ELSE mishaps
  /\ UNCHANGED <<serverLog, fed, outbox, budget, keys>>

HostRefuses ==
  /\ coord.run.phase = "kept"
  /\ Spend("refusals")
  /\ coord' = [coord EXCEPT !.run.phase = "refused"]
  /\ mishaps' = mishaps \cup {"refused"}
  /\ UNCHANGED <<serverLog, fed, outbox, doc, keys>>

(* Fault: the batch stays behind the send gate. *)
FinishPlanHeld ==
  /\ coord.run.phase = "executed"
  /\ coord' = Track(Commit([coord EXCEPT !.run = Resting], coord.run.kind), coord.run.id)
  /\ UNCHANGED <<serverLog, fed, outbox, doc, budget, keys, mishaps>>

(* The plan is committed and its batch released. *)
FinishPlan ==
  /\ coord.run.phase = "executed"
  /\ coord' = Track(Commit([coord EXCEPT !.run = Resting], coord.run.kind), coord.run.id)
  /\ outbox' = [i \in DOMAIN outbox |->
                  IF outbox[i].key = coord.run.key THEN [outbox[i] EXCEPT !.held = FALSE]
                  ELSE outbox[i]]
  /\ UNCHANGED <<serverLog, fed, doc, budget, keys, mishaps>>

IfNotPlanned(batches, w) == IF w.key = coord.run.key THEN batches ELSE Append(batches, w)

(* What the host would not execute is taken back, if the journal can store that. *)
CancelPlan ==
  /\ coord.run.phase = "refused"
  /\ coord' = Block([coord EXCEPT !.run = Resting])
  /\ \/ /\ outbox' = FoldLeft(IfNotPlanned, <<>>, outbox)
        /\ UNCHANGED <<budget, mishaps>>
     \/ /\ Spend("unsaved")
        /\ mishaps' = mishaps \cup {"unsaved"}
        /\ UNCHANGED outbox
  /\ UNCHANGED <<serverLog, fed, doc, keys>>

(* receiveRemote: executed by the host, then the history is rebased. *)
RunRemote ==
  LET ops == Operation.batch.ops
      free == Outside(ops, UNION {DOMAIN LocalWrites[i].ops : i \in DOMAIN LocalWrites})
  IN  /\ Starts({"remote"}) /\ coord.status = "active" /\ Operation.seq > coord.seq
      /\ IF Operation.seq > coord.seq + 1
         THEN coord' = Block(Dequeued) /\ UNCHANGED <<doc, mishaps>>
         ELSE /\ doc' = Over(doc, free)
              /\ coord' = [RebaseRemote(Dequeued, ops) EXCEPT !.seq = Operation.seq]
              /\ mishaps' = IF free # ops THEN mishaps \cup {"older remote write"} ELSE mishaps
      /\ UNCHANGED <<serverLog, fed, outbox, budget, keys>>

RemoteRefused ==
  /\ Starts({"remote"}) /\ coord.status = "active" /\ Operation.seq = coord.seq + 1
  /\ Spend("refusals")
  /\ coord' = Block(Dequeued)
  /\ mishaps' = mishaps \cup {"refused"}
  /\ UNCHANGED <<serverLog, fed, outbox, doc, keys>>

RunAck ==
  /\ Starts({"ack"})
  /\ coord' = Acknowledge(Dequeued, Operation.batch.id, Operation.seq)
  /\ UNCHANGED <<serverLog, fed, outbox, doc, budget, keys, mishaps>>

(* The waiter of a batch that left the journal unacknowledged: the coordinator
   blocks, and the batch stays pending. *)
RunReject ==
  /\ Starts({"reject"})
  /\ coord' = Block(Dequeued)
  /\ UNCHANGED <<serverLog, fed, outbox, doc, budget, keys, mishaps>>

-----------------------------------------------------------------------------
(* resetAfterResync: the host has loaded the file as the log has it.  Nothing is
   outbound, but operations may wait, among them edits the file does not have. *)
Reset ==
  /\ DOMAIN coord.pending = {} /\ outbox = <<>>
  /\ Spend("resets")
  /\ coord' = [Fresh(Len(serverLog)) EXCEPT !.tail = coord.tail, !.run = coord.run]
  /\ doc' = Content(serverLog)
  /\ fed' = Len(serverLog)
  /\ mishaps' =
       IF \E i \in DOMAIN coord.tail : coord.tail[i].op \in {"record", "ack"}
       THEN mishaps \cup {"reset over edits"} ELSE mishaps
  /\ UNCHANGED <<serverLog, outbox, keys>>

IfUnlogged(batches, w) ==
  IF \E n \in DOMAIN serverLog : serverLog[n].key = w.key THEN batches
  ELSE Append(batches, w)

(* The page is loaded again.  The undo history is gone; the journal sends what
   it stored, and nobody tracks it. *)
Restart ==
  /\ Spend("stops")
  /\ outbox' = [i \in DOMAIN outbox |-> [outbox[i] EXCEPT !.held = FALSE, !.tracked = FALSE]]
  /\ coord' = Fresh(Len(serverLog))
  /\ fed' = Len(serverLog)
  /\ doc' = Content(serverLog \o FoldLeft(IfUnlogged, <<>>, outbox))
  /\ mishaps' = IF outbox = <<>> THEN mishaps ELSE mishaps \cup {"restarted with entries"}
  /\ UNCHANGED <<serverLog, keys>>

(* The journal's head reaches the log, for the first time. *)
ServerLogs ==
  /\ outbox # <<>> /\ ~Head(outbox).held
  /\ fed = Len(serverLog)
  /\ \A n \in DOMAIN serverLog : serverLog[n].key # Head(outbox).key
  /\ serverLog' = Append(serverLog, Head(outbox))
  /\ UNCHANGED <<fed, outbox, doc, coord, budget, keys, mishaps>>

(* The acknowledgement: the entry leaves the journal, which tells the waiter. *)
Acked ==
  \E n \in DOMAIN serverLog :
    /\ outbox # <<>> /\ serverLog[n].key = Head(outbox).key
    /\ outbox' = Tail(outbox)
    /\ coord' = IF Head(outbox).tracked
                THEN Queued(coord, [op |-> "ack", seq |-> n, batch |-> Head(outbox)])
                ELSE coord
    /\ UNCHANGED <<serverLog, fed, doc, budget, keys, mishaps>>

(* The user takes back a stored batch, which may have reached the server. *)
Withdraw(i) ==
  /\ ~outbox[i].held
  /\ Spend("withdrawals")
  /\ outbox' = RemoveAt(outbox, i)
  /\ coord' = IF outbox[i].tracked THEN Queued(coord, [op |-> "reject"]) ELSE coord
  /\ mishaps' = mishaps \cup {"withdrawn"}
  /\ UNCHANGED <<serverLog, fed, doc, keys>>

OtherLogs(cells) ==
  /\ Spend("others")
  /\ serverLog' = Append(serverLog,
       [key |-> 0, id |-> 0, kind |-> "do", ops |-> [cell \in cells |-> -budget.others]])
  /\ UNCHANGED <<fed, outbox, doc, coord, keys, mishaps>>

(* The host hands on the next entry, if it is another client's.  An own one is
   passed over when it is acknowledged, or its event overtook the answer. *)
Feed ==
  LET n == fed + 1
      own == serverLog[n].key # 0
      unacked == \E i \in DOMAIN outbox : outbox[i].key = serverLog[n].key
  IN  /\ n <= Len(serverLog)
      /\ fed' = n
      /\ coord' = IF own THEN coord
                  ELSE Queued(coord, [op |-> "remote", seq |-> n, batch |-> serverLog[n]])
      /\ IF own /\ unacked
         THEN Spend("overtakes") /\ mishaps' = mishaps \cup {"answer overtaken"}
         ELSE UNCHANGED <<budget, mishaps>>
      /\ UNCHANGED <<serverLog, outbox, doc, keys>>

Run ==
  \/ Skip \/ RunRecord \/ RunPlan \/ Execute \/ FinishPlan \/ CancelPlan
  \/ RunRemote \/ RunAck \/ RunReject

UndoNext ==
  \/ \E cells \in Ranges : Edit(cells) \/ OtherLogs(cells)
  \/ \E direction \in {"undo", "redo"} : Ask(direction)
  \/ Run
  \/ RunUnsaved \/ HostRefuses \/ RemoteRefused
  \/ Reset \/ Restart
  \/ ServerLogs \/ Acked \/ Feed
  \/ \E i \in DOMAIN outbox : Withdraw(i)

UndoSpec == UndoInit /\ [][UndoNext]_uvars

(* Promises resolve, the host executes, the journal sends, the server answers
   and the log is handed on. *)
UndoFairSpec ==
  /\ UndoSpec
  /\ WF_uvars(Run) /\ WF_uvars(ServerLogs) /\ WF_uvars(Acked) /\ WF_uvars(Feed)

-----------------------------------------------------------------------------
(***************************************************************************)
(* Properties                                                              *)
(***************************************************************************)
(* What the sheet shows is the log as far as it was taken in, with the local
   batches that are still under way on top in the order the server will have
   them: this client will agree with the others (executePlan, recordLocal). *)
DocFollowsLog == coord.status = "active" => doc = Content(Writes)

DocFollowsLogIfCoped ==
  mishaps \cap {"edit overwritten", "unsaved", "restarted with entries",
                "withdrawn", "reset over edits"} = {}
    => DocFollowsLog

(* "so undo does not overwrite newer remote content": an undo or redo writes only
   cells whose last writer is this client (rebaseEntry, pendingCounts).  The undo
   of a batch the user withdrew has nothing of this client's beneath it. *)
UndoKeepsNewerRemote ==
  [][Execute /\ "withdrawn" \notin mishaps => \A cell \in DOMAIN coord.run.ops :
        Writing(Writes, cell) # {} =>
          Writes[Max(Writing(Writes, cell))].id # 0]_uvars

(* An undo shows what lay beneath the action: the value the cell had before the
   action last wrote it, in the order of the log (recordLocal, rebaseEntry).
   Where another client's older write arrived while the action was under way,
   the inverse predates that write. *)
Beneath(cell) ==
  LET mine == {i \in Writing(Writes, cell) :
                 Writes[i].id = coord.run.id /\ Writes[i].kind # "undo"}
  IN  Content(SubSeq(Writes, 1, Max(mine) - 1))[cell]

UndoRestores ==
  [][Execute /\ coord.run.kind = "undo"
       /\ mishaps' \cap {"edit overwritten", "older remote write",
                       "restarted with entries", "withdrawn", "reset over edits"} = {}
     => \A cell \in DOMAIN coord.run.ops : coord.run.ops[cell] = Beneath(cell)]_uvars

(* Whatever was asked is carried out, and an active coordinator ends up with the
   whole log taken in and nothing outbound.  It stays blocked only if the host
   refused a batch, the journal could not write, the user withdrew a batch, an
   event overtook the answer before it or entries outlived a restart; after the
   last two an active one may also end up behind the log.  With entries handed on
   in order it finds no gap of its own making (executePlan, track, acknowledge,
   receiveRemote). *)
EventuallySettled ==
  <>[](/\ coord.tail = <<>> /\ coord.run = Resting
       /\ \/ /\ coord.status = "blocked"
             /\ mishaps \ {"older remote write", "edit overwritten", "reset over edits"} # {}
          \/ coord.seq = Len(serverLog) /\ outbox = <<>>
          \/ mishaps \cap {"restarted with entries", "answer overtaken"} # {})

=============================================================================
