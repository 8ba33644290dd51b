# Formal model of InjOffice collaboration

TLA+ modules, TLC configurations and TLAPS proofs about the collaborative part
of InjOffice. The code is the reference: every definition names, in
`PROJECT.json` under `map`, the lines it was written from.

## 1. What the system is made of

InjOffice edits office files in the browser and the desktop. The file formats
(`go/docxpatch`, `go/xlsxpatch`, `go/pptxpatch` and the viewers under
`packages/`) are large but sequential. What is concurrent is collaboration:

| component | source | state it keeps | operations |
|---|---|---|---|
| hub and operation log | `go/collab` | rooms with their peers, index client → rooms, per artifact a log with head, saved position and at most 5000 entries | Join, Leave, LeaveAll, Presence, Submit, Since, NotifyFileChanged (ResetLog, MarkSaved, FileChanged), Forget |
| sheet client | `packages/collab/src/manager.ts`, `sync.ts`, `presence.ts` | workbook, applied position, reorder buffer, submission queue, outstanding join, catch-up and submission, catch-up timer | user edit, event, acknowledgement, catch-up, (re)join, file change, stop |
| document, deck, PDF clients | `docSync.ts`, `deckSync.ts`, `docManager.ts`, `deckManager.ts`, `pdfManager.ts` (the document engine again) | pending steps, applied position, reorder buffer | as above, with other retry rules |
| transforms | `transform.ts`, `selection.ts` | none | shift an operation or a selection over a row or column edit |
| offline outbox | `offlineJournal.ts` | persisted queue with attempts, status, retry timer | enqueue, cancel, pump, resynchronise, dispose, recover |
| collaborative undo | `undo.ts`, `undoJournal.ts` | two stacks, persisted journal | record, undo, redo, remote operation |
| live share | `liveShare.ts`, `permissions.ts` | invitations, roles | start, accept, revoke, check |
| collaboration over HTTP | `go/injoffice-server/internal/collabhttp` | up to 256 sessions, each with a buffer of 32 events | open stream, call, expire, kill |
| artifact store | `go/injoffice-server/internal/fsstore`, `artifacthttp`, `officehttp` | bytes of each artifact | get, compare-and-swap put |
| agent tools | `packages/agent-tools` | prepared edits, commits by idempotency key | prepare, commit |
| native runtime | `packages/native-runtime` | requests in flight in a worker | request, cancel, restart |
| history, formulas, connectors, exchange | `packages/history`, `formulas`, `connectors`, `xlsx-exchange` | versions, calculation results, refreshes, export jobs | see their managers |
| desktop shell | `apps/desktop/electron` | recovery snapshots, recent files | save, recover, update |

How they interact. A tab calls the hub through a transport the host supplies
(a socket, or `collabhttp`: calls as HTTP requests, events as one SSE stream)
and gets events back. The hub calls each connection's Sender while it holds the
room's mutex, so one room's log entries are sent in log order. The host loads
and saves the bytes through the artifact store and tells the hub of a write
with NotifyFileChanged; the hub tells the room. Tabs share nothing else.

Which behaviours are hard, and what makes each component correct:

- *Hub.* Lock hand-over between hub and room, two indexes that must agree, a
  log that is forgotten with its room, three non-atomic steps of
  NotifyFileChanged. Correct means: a member's feed has no hole, the indexes
  agree, everybody learns of a replacement.
- *Log.* Three rules decide what is retained (a ring, saves, replacements) and
  two conditions decide what may be replayed from it. Correct means: a replay is
  complete or refused, and is refused only when it must be.
- *Sheet client.* One log position reaches a tab by up to three ways (event,
  catch-up answer, acknowledgement) in any order, across reconnects, while its
  own edits wait. Correct means: each position is taken in once and in order,
  edits are neither lost nor reordered, and all tabs end with the same sheet.
- *Outbox, undo journal, store, recovery.* Crashes between a write and what it
  announces. Correct means: nothing acknowledged is lost or done twice.
- *Document and deck clients.* Acknowledgement and event race for one position.

`PROJECT.json` lists the hazards at their lines, with the properties that guard
each or the reason why none does yet.

## 2. Modules

| module | models | uses |
|---|---|---|
| `MemoryStore` | `memory.go`: a log as a record, one operator per method | |
| `LinearLog` | the abstract log: a linear history grown by compare-and-append, the newest part readable | |
| `CollabHub` | `hub.go`, `oplog.go`: rooms, peers, indexes, logs, host threads | EXTENDS `MemoryStore`, INSTANCE `LinearLog` |
| `SheetSync` | sheet clients against a room of the hub over a network | EXTENDS `MemoryStore` |
| `Transform` | `transform.ts`: rows, spans and operations through insertions, removals and moves | |
| `SheetRows` | tabs that change rows at the same time: applyEntry and its transforms | EXTENDS `Transform` |
| `Outbox` | the abstract outbox: kept, delivered in order and once, dropped only when delivered or withdrawn | |
| `OutboundJournal` | `offlineJournal.ts`: the stored queue, its pump, resynchronisation and restarts | INSTANCE `Outbox` |
| `EditRoom` | the room a document or deck engine talks to | |
| `DocSync`, `DeckSync` | `docSync.ts`, `deckSync.ts` with their managers | EXTEND `EditRoom` |
| `CollabHttp` | `handler.go`, `collabTransport.ts`, `presence.ts`: sessions, streams, mirrors | |
| `UndoJournal` | `undo.ts`, `undoJournal.ts`: the stacks and the coordinator | |
| `AgentSession` | `session.ts`: commits and restores of an agent | |
| `CollabHubProofs`, `SheetSyncProofs`, `DocSyncProofs`, `DeckSyncProofs`, `OutboundJournalProofs`, `CollabHttpProofs` | theorems about the component named; those about `Transform` are in `SheetSyncProofs` | that module, TLAPS |
| `AgentUndoProofs` | theorems about `AgentSession` and `UndoJournal` | both, TLAPS |
| `Folding` | what a fold over a sequence is, for the proofs that meet one | `Folds`, TLAPS |
| `MC...` | bounds and symmetry for TLC, one per component | |

In the client modules a handler runs to its next await, as JavaScript does, so a
handler or a promise continuation is one step. What may go wrong is bounded by a
record of counters (drops, lost answers, restarts, ...), of which each
behaviour has one; the MC modules list the records.

### MemoryStore

Each method of the store holds its mutex throughout, so it is one operator on a
record `[entries, seq, savedSeq]`. A log missing from the store's map behaves
like the empty one (Append and Reset create it, Since and LogState read zeros,
MarkSaved clamps to 0), so it is `EmptyLog`. `Replayable` is the chain of early
returns of Since, `Fresh` the compare of Append, `Trim` its ring.

### CollabHub

| code | model |
|---|---|
| `Hub.rooms`, `room.peers`, `Hub.byClient` | `rooms`, `peers`, `byClient` |
| `Hub.store` | `log` |
| position of a host thread inside NotifyFileChanged | `notifying` |
| Join, Leave, LeaveAll, Presence, Submit, Forget | actions `Join`, `Leave`, `Disconnect`, `Presence`, `Submit`, `Forget` |
| NotifyFileChanged | `NotifyReset` or `NotifySaved`, then `NotifyRead`, then `NotifySend` |
| Since | operator `Since`: it changes nothing and may be called at any moment |

A method that holds a mutex for its whole body is one action. Join and Leave
take the room mutex before they release the hub mutex, so no other method sees
them half done on the same room; LeaveAll walks its rooms one after the other
and is one action here, which leaves out other clients' steps between two rooms
of one departing client. NotifyFileChanged holds no lock between its steps and
is three actions. A call that fails changes nothing and is no action. `slots`
and `view` are history: what the log ever accepted, and what each connection was
told. In the repository NotifyFileChanged and Forget have no caller outside
the hub and its tests; they are the host's to call at any moment, and are modelled so.

### SheetSync

`tab[c]` is one PresenceManager with its SubmitQueue and the sheet of its
workbook. JavaScript runs a handler to its next await, so a handler or a promise
continuation is a function from a tab's record to its record, named after the
method (`Receive`, `Drain`, `ApplyEntries`, `CatchUpAnswer`, `Accepted`, `Flush`,
`FileChanged`, `Resync`, ...), and `Handle` dispatches a message. `ApplyEntries` is
what the loops over applyEntry come to: the last remote write of a cell stands,
unless a pending edit writes that cell too, and nothing else of the queue changes
meanwhile. `join`, `since` and `submit` are the three calls a tab may have
outstanding. `made` and `seen` are history: which tab made each edit, and the positions
whose effect is in what a tab shows. A first join has taken in the saved log if the file
is still the one that was loaded, and nothing otherwise (`TakenInBy`). The hub's side
is `HubJoin`, `HubAccepts`, `HubRefuses`, `HubSince`, over the operators of
`MemoryStore`.

The transport is the host's code and external; a behaviour has one, `left.network`.
A `"socket"` delivers a tab's messages in order, and a lost connection fails the
calls made on it. `"http"` keeps the order of events only: an answer may overtake an
event, and answers given before the stream broke still arrive.

What is abstracted: an edit writes one cell and is a submission of its own (the
code batches the edits of a tick); row, column and sheet edits are in
`SheetRows`; values are numbers of edits. Edits made while a tab is not joined
are never queued by the code and are not made here. A tab is opened once; what a
host does after it was told to reload is not modelled. A host saves when its
queue is empty and reports the position applied; older bytes than the stored
ones do not pass the store's compare-and-swap, hence the guard of `Save`.

### Transform and SheetRows

`MapIndex`, `MapSpan`, `MapIndexThroughMove` and `MapSpanThroughMove` are the
functions of these names; `ThroughStruct` is transformOp, `ThroughMove`
transformOpThroughMove, `TransformOps` transformOps. Rows of one sheet stand for
rows and columns; a write is of one row. `SheetRows` abstracts from delivery,
which is `SheetSync`'s: `Edit` applies and queues, `Submit` logs the head of the
queue if its tab is at the head of the log, `ApplyEntry` is applyEntry with
reconcileRemote (`Reconciled`) and transformQueued. `Play`, what an operation
does to a sheet, is external. The code's "lossy" flag only leads to a warning
and is left out.

### Outbox and OutboundJournal

The journal is the record `jn`, the storage `disk`. A mutation of the snapshot
waits its turn in `jn.jobs`; its write and what follows are `WriteMutation` or
`FailToWrite`, then `ResumeMutation`: between them `jn.snap` is what was written and
`jn.written` that it was. `pump` and `resync` are the two loops with
the point each has reached; `Stop` is dispose or the end of the process at any
point, `Open` the restart. `Enqueue`, `Cancel`, `Release`, `Connect`,
`Disconnect` and `RetryDue` are the methods and the timer. The server and the
host's resync are external and do what the transport's interface asks: log a
submission once per key and only on the head. `MaxEdits` is the largest number of
submissions any record of bounds allows.

### EditRoom, DocSync and DeckSync

`EditRoom` is the server as these engines see it: a log, events and answers that
travel apart, calls that outlive the connection. `doc` and `deck` are one
engine each: applied position, reorder buffer, pending edits, catch-up and
submission under way. Another editor is whoever else writes the log. In
`DocSync` the order of edits stands for the text, and the host applies an entry
at once or later; in `DeckSync` decks have a title, slides with one field,
and an order, so `DiffDeck` and `ApplyDeckOps` do what diffDeck and applyDeckOps do. The
drain of the reorder buffer is a fold over the positions held (`TakeHeld`): entries that
follow are applied, older ones stay where they are.

### CollabHttp

`sess` are the server's sessions with their event buffers, `tab` the transport
and the mirror of each tab (probe, mint, attach, rejoin), `calls` the joins
under way. A join is looked up, enters the room and is answered in three steps,
because it reads the artifact store between the first two. Of the hub only the
membership and selections of one room are kept.

### UndoJournal

`coord` is the coordinator: its queue of tasks (`tail`), the task it runs, the two
stacks, the counts of outbound batches. `RunRecord`, `RunPlan`, `Execute`,
`FinishPlan`, `RunRemote`, `RunAck` and `RunReject` are the parts of a task between its
awaits. `Withdraw` is the user taking back a stored batch, `Reset` the host's reload,
which the code allows whatever waits in the tail.
`outbox` is the ordered outbox `OutboundJournal` is shown to be.

### AgentSession

A call of commit or restore moves through phases: waiting for its turn, looking
at the artifact, confirming, writing, checking the result, verifying it. Others
write to a host artifact at any moment; a value artifact (pdf, authored pptx)
lives in the session. Revisions are contents, so they may come back. That a host
remembers idempotency keys is not relied on.

## 3. Properties and runs

Sizes and times are of two workers. Besides the number of states a line names the
instance; two tabs or one tab and a server are meant where it does not.

| run | instance | shows |
|---|---|---|
| `hub_log` | one room, two connections, two hosts, 3 positions, 2 retained; 315 000 states | `TypeOK`, `RetentionExact`, `ReplayExact`, `ReplayComplete`, `FeedGapFree`, `ReplacementAnnounced`, `LogsAreLinear` |
| `hub_rooms` | two rooms, three connections for two places each, two selections, an empty log | `IndexesAgree`, `PresenceAgrees` |
| `sheet` | two cells, one entry retained; a socket with 2 edits, a drop, a save and a replacement, and http with 2 edits and a drop; 1 100 000 states, 1 minute | `SeenIsLogPrefix`, `SheetFollowsLog`, `EditsKeptInOrder`, `AcceptedOnce`, `EditsBuildOnWholeLog` |
| `sheet_settles` | a socket with 2 edits and a drop, or 1 edit, a drop, a save and a replacement | `EventuallyInSync`: caught up with nothing queued, or the host was told to reload |
| `sheet_late_ack` | http, 2 edits | a counterexample to `Converged`, below |
| `rows` | 3 rows; 3 edits of rows without or with moves, or any 2; 370 000 states | `RowsFollowLogIfCoped` |
| `outbox` | 2 submissions with pairs of a foreign entry, a restart, a drop, a lost answer, a failed write, a cancellation, a refusal, or a drop with a lost answer; 390 000 states, 100 s | `ImplementsOutbox`, `AcknowledgedIsLogged`, `RebasedUnlessUnseen`, `BlockedOnlyIfRefused`, `ResyncBeforeReplay`, `EventuallyLogged` |
| `doc` | 2 edits or 2 foreign entries with a drop, a lost call, a reset and a malformed step; 137 000 states | `SeenFollowsLogIfCoped`, `NothingTwiceOrLost`, `DocSettles` |
| `deck` | two slides and a third to insert, 2 changes or 2 foreign entries with a drop, a lost call or a reset; 234 000 states | `BaseFollowsLogIfCoped`, `BatchesKept`, `ShownAsMade`, `DeckSettles` |
| `http` | buffers of 2 events, up to 3 sessions, a selection, a broken stream, a closed tab, a delay; 132 000 states | `NobodyLeftBehindIfCoped`, `MirrorAgreesIfCoped`, `EventuallyAllPresent` |
| `undo` | two cells, up to 2 edits, 2 undos, a redo, foreign writes, a refusal, a failed write, a restart, a withdrawal, a reset; 523 000 states, 2 minutes | `DocFollowsLogIfCoped`, `UndoKeepsNewerRemote`, `UndoRestores`, `EventuallySettled` |
| `agent` | 3 commits under two keys, or 2 calls of any kind, another writer, a failure; 134 000 states | `WrittenOnce`, `WrittenAsReviewed`, `AdoptsSuccessor`, `EventuallyAnswered` |

*Bounds.* In the hub, retention of 2 with 3 positions makes the ring overflow, and
the saved position fall inside, below and above what is retained; two hosts race
each other; three connections for two places make a room full, and two rooms give
a disconnect something to walk. Who is in a room does not depend on the log, so
`hub_rooms` has none and `hub_log` has no selections. On the client two tabs give
every race between somebody else's entry and one's own, and one drop all of a
rejoin. Two cells let writes collide or not. Three rows and edits of up to two
rows let two edits lie apart, touch, overlap and contain each other; the
theorems of section 4 say the same of rows and edits of any size. In the outbox
two submissions suffice for order, and each pair of mishaps is in some record. In
`CollabHttp` two events overflow a buffer of two, and a tab whose session ended
needs a second. An action under way is undone, redone and undone in `undo` while
another client writes. Two keys and three commits give an agent a repeated key
between two others. The bound of 8 attempts of the engines is the code's.

*Fairness* is assumed for the properties that something happens in the end, and
only for what a machine does by itself. `SheetSync`: a message is handled, a timer
fires, a lost connection is established again, a call is answered, for each tab.
`OutboundJournal`: the file is opened, retries come due, stored mutations
proceed, deferred entries are released by their host, and the server answers.
`DocSync` and `DeckSync`: events arrive, calls reach the server and return, an
awaited application ends, the tab reconnects. `CollabHttp`: streams open, events
and answers arrive, a broken stream is noticed, unused sessions idle out, and
some request comes (the server looks for idle sessions only then).
`UndoJournal`: tasks run, the server logs and acknowledges, the host hands on.
`AgentSession`: the adapter and the host's confirmation answer. Event loops,
timers and request goroutines give this much. Users and hosts are not fair:
nobody has to edit, save, undo, reconnect by hand or stay.

*Deadlock* is checked for the hub. The others do end: their budgets run out.

Every property of a passing run has a mutant: an operator marked `Fault:` beside
the definition it replaces, with a bug somebody could have written, under which
the property fails.

### What the code does not cope with

The run `sheet_late_ack` ends in a counterexample to what `sync.ts:228` says of
protecting pending cells, "Every client does this, so all converge": over http
a tab's catch-up passes its own entry, somebody writes the same cell, and only
then the acknowledgement is handled. The later write is suppressed on this tab
only, for good (`findings`).

Elsewhere a property holds but for named situations. They are history variables
(`mishaps`), so the runs show that nothing else breaks the property; without
the condition TLC finds it violated. In `SheetSync` the constant `Mishaps` keeps
them out altogether:

- *"rejoin lost"* (`manager.ts:285`): the connection is lost again during a rejoin,
  whose failure makes the next one count as the first: it replays from the
  saved position and steps over what was saved meanwhile.
- *"save while opening"* (`manager.ts:279`): a save between a tab's load and its first
  join hides the saved edits from it.
- *"replaced while opening"* (`manager.ts:279`, against the comment at line 276, "First
  join: the file we loaded reflects saved_seq; replay the rest"): a tab loads the file;
  somebody replaces it, which takes a position of the log and marks it saved; the tab
  joins, replays from that saved position, and was not a member to be told. It shows the
  old bytes, counts the replacement as applied, and what it edits on them enters the log.
  With this mishap TLC finds `SeenIsLogPrefix`, `SheetFollowsLog`,
  `EditsBuildOnWholeLog` and `Converged` violated.
- *"room emptied"* (`memory.go:81`): a tab cut off while the room empties comes back to
  a new log as long as the old one and is told it is up to date.
- Over http, liveness: a rejoin shares a catch-up answered before the drop
  (`manager.ts:445`), and a submission refused after the rejoin's flush leaves the
  queue waiting for the next edit (`sync.ts:315`). On a socket that drops, an
  edit whose acknowledgement is lost is logged twice; it rewrites the cell
  with the same value. `AcceptedOnce` is stated where acknowledgements survive.

In `SheetRows`, where tabs then differ for good:

- *"insert inside a removal"* (`transform.ts:281`): rows inserted strictly inside rows
  that are removed at the same time are removed too on one side, and land at the
  cut on the other. No warning is given.
- *"tangled move"*: moves, and edits of the rows a move shifts, do not commute. The
  code warns of some of these.
- *"edit on pending rows"* (`manager.ts:408`): of several pending edits each goes
  through the entry as it was logged, not as the pending ones before it leave it.

In `OutboundJournal`:

- *"unseen edit"* (`offlineJournal.ts:375`): a submission made while a resync waits for
  earlier writes counts as known but is not rebased; the test at
  `offlineJournal.test.ts:182` expects otherwise.
- *"cancel readied"*, *"overlap"* (`:508`, `:520`): a cancellation, or an answer or its
  commit that was under way when the connection came back, sets the status to ready
  while a resync is still needed, so a replay may come before it, against
  `packages/collab/README.md:80`.
- *"overlap"* may also end in a blocked journal (`:484`): the answer to the submission
  is older than the head that the resync rebased the rest upon. `BlockedOnlyIfRefused` says that
  nothing but this and a refused replay blocks it.
- *"cancel unsaved"* (`:332`): nothing is sent until the host reconnects; *"replay
  refused"*: the host refuses a replay, and the journal is blocked as documented.
- A deferred entry is sent unreleased when the head is cancelled while the pump waits
  to mark it (`:445`, against line 22). No property is stated about it.

In `DocSync` and `DeckSync`: hosts that apply later, a lost call, an own entry that
comes back through a catch-up (`docSync.ts:126`), an acknowledgement after entries
that follow it (`deckSync.ts:299`, against the comment at line 232), and a
resumption that shares an older catch-up (`docSync.ts:89`).

In `CollabHttp`: a session closed between the two halves of a join, which leaves
its peer behind (`handler.go:267`, against `docs/COLLABORATION-PROTOCOL.md:76`);
events handled before the answer to the join, an answer of an older session, a
frame taken by a stream nobody reads (`handler.go:231`), a minting that is refused
and an attach that times out (`collabTransport.ts:123`).

In `UndoJournal`: an undo executed over an edit made while it waited to be stored,
which is logged after it (`undoJournal.ts:228`); a failed write; entries that
outlive a restart; an event that overtakes the answer before it; a stored batch that
the user withdraws (`:261`: the coordinator blocks only when the rejection has its
turn, and since the batch stays pending, resetAfterResync refuses from then on); a reset
with an edit still waiting to be recorded (`:189` asks neither for that nor for the
status); and for `UndoRestores` a remote write that is older than the action. Not
modelled are the path of `:140` for an id recorded twice, which is the caller's
contract, and a reset while the journal is storing a batch.

## 4. Proofs

The proof modules prove for every value of the constants: any number of tabs,
rooms, cells, edits, mishaps, any retention limit. They use the assumptions named
with the constants (`RetentionAssumption`, `HubAssumption`, `SheetAssumption`,
`DocAssumption`, `DeckAssumption`, `AgentAssumption`, `JournalAssumption`,
`UndoAssumption`, `HttpAssumption`), and the theorems about
`SheetSync` also `Mishaps = {}`, the value its passing runs give the constant:
the four situations that `AllMishaps` lists do break the properties (section 3). So
where the table says `SheetFollowsLog`, `EditsBuildOnWholeLog` or that tabs agree, it
does so of tabs between whose load and first join nobody saves or replaces the file. A
property named `...IfCoped` carries the condition of section 3 that its definition
spells out, and so does its theorem.

| theorem | says |
|---|---|
| `CollabHubProofs!Inductive` | `Spec => []IInv` |
| `TypeCorrect`, `IndexesAlwaysAgree`, `RetentionAlwaysExact`, `ReplayAlwaysExact`, `ReplayAlwaysComplete`, `EmptyRoomsRetainNothing` | `TypeOK`, `IndexesAgree`, `RetentionExact`, `ReplayExact`, `ReplayComplete`, `EmptyRoomRetainsNothing` |
| `PresenceAlwaysAgrees`, `FeedAlwaysGapFree`, `ReplacementAlwaysAnnounced` | `PresenceAgrees`, `FeedGapFree`, `ReplacementAnnounced` |
| `LogsImplementLinearLog` | `Spec => LogsAreLinear`: each room's log implements `LinearLog` |
| `SheetSyncProofs!SheetInductive` | `Mishaps = {}` implies `Spec => [](TakenInv /\ OpensFile)` |
| `SeenAlwaysPrefix`, `EditsAlwaysBuildOnWholeLog` | `SeenIsLogPrefix`, `EditsBuildOnWholeLog` |
| `KeptInductive` | `Mishaps = {}` implies `Spec => [](TakenInv /\ OpensFile /\ KeptInv)` |
| `EditsAlwaysKeptInOrder`, `EditsAcceptedOnce` | `EditsKeptInOrder`, `AcceptedOnce` |
| `SheetShownInductive` | `Mishaps = {}` implies `Spec => [](TakenInv /\ OpensFile /\ KeptInv /\ ShownInv)` |
| `SheetAlwaysFollowsLog` | `SheetFollowsLog` |
| `SheetsAlwaysConverge` | on a socket, two quiet tabs with the whole log applied agree in every cell |
| `DeckSyncProofs!DeckInductive` | `DeckSpec => []IInv` |
| `BaseAlwaysFollowsLog`, `BatchesAlwaysKept` | `BaseFollowsLogIfCoped`, `BatchesKept` |
| `DocSyncProofs!DocInductive` | `DocSpec => []IInv` |
| `SeenAlwaysFollowsLog`, `NothingEverTwiceOrLost` | `SeenFollowsLogIfCoped`, `NothingTwiceOrLost` |
| `OutboundJournalProofs!OutboxInductive` | `JournalSpec => []OutboxInv` |
| `AcknowledgedAlwaysLogged`, `JournalImplementsOutbox` | `AcknowledgedIsLogged`; `ImplementsOutbox`: the journal with its server implements `Outbox` |
| `PaceInductive`, `ResyncAlwaysBeforeReplay` | `JournalSpec => []PaceInv`; `ResyncBeforeReplay` |
| `ClearInductive`, `AlwaysRebasedUnlessUnseen` | `JournalSpec => []ClearInv`; `RebasedUnlessUnseen` |
| `AgentUndoProofs!SessionInductive` | `AgentSpec => []IInv` |
| `KeyWritesOnce`, `WritesAsReviewed`, `AlwaysAdoptsSuccessor` | `WrittenOnce`, `WrittenAsReviewed`, `AdoptsSuccessor` |
| `UndoInductive`, `DocAlwaysFollowsLog` | `UndoSpec => []UndoInv`; `DocFollowsLogIfCoped` |
| `CollabHttpProofs!HttpInductive` | `HttpSpec => []HttpInv` |
| `NobodyEverLeftBehind`, `MirrorAlwaysAgrees` | `NobodyLeftBehindIfCoped`, `MirrorAgreesIfCoped` |
| `SheetSyncProofs!EditsConverge` | two insertions or removals, each put through the other, take every row to the same place in both orders, unless one inserts strictly inside what the other removes |
| `InsideRemovalDiverges` | in that case every row below ends up apart |
| `RowsKeepTheirOrder`, `SpanGoneWithItsRows`, `SpanIsItsSurvivors`, `MovedRowsComeBack` | mapIndex, mapSpan and mapIndexThroughMove lose, merge and reorder nothing they should not |

*The hub.* What Since answers depends on the log alone, so replay is proved
of any log related to its history as `LogInv` says: the history has as many
positions as the head, each is numbered by its place, and what is retained is
exactly its newest unsaved part, all of it operations. Each method of the store
keeps `LogInv` (`AppendLogInv`, `MarkSavedLogInv`, `ResetLogInv`,
`EmptyLogInv`); `ReplayOfLog` and `ReplayableIfRetained` derive the answers of
Since from it. `RetentionExact` by itself is not inductive: MarkSaved and Since
pick a suffix by sequence numbers, so that the numbers are the places must be
part of the invariant, and that the mark of a replacement is never retained too,
or a replay could contain it. In the hub, `IInv` joins `LogInv` of every log
with the types and with `HubInv`, the agreement of the indexes, which the leave
and disconnect steps need to know that the rooms they walk are those the client
is in. That an empty room's log is empty is inductive relative to `IInv`: a
room's last leave forgets the log, and afterwards only a save or a replacement
can touch it, and neither adds an entry.

What a connection was told is inductive relative to `IInv`. `FeedInv` says of each
member (`Feed`) that it started from a position of the history and was told exactly the
operations after it, which an append extends and everything else leaves alone;
`AnnouncedInv` that a member out of date has a host thread between its reset and its
fan-out (`Announcing`), which only that thread's own step ends. `PresenceAgrees` comes
down to laws of the peer maps as two members see them (`WithoutWith`, `WithWithout`,
`WithoutTwice`). For `LinearLog` each method is
mapped to a step of the abstract log: an accepted submission to its append,
trimming and saving to a loss of old history, a forgotten room to a new log, the rest
to a stutter.

*The sheet client.* That a tab has taken in a prefix of the log is not inductive,
because what it will take in is still under way. `TakenInv` says three
things. The log retains the end of its history, each entry at its own position
(`LogFits`). What a tab has taken in is the log's beginning, and it counts exactly that as
applied, or, after its first join, still nothing while it has the saved part from the
file; what it holds back are operations of the log at their positions; what it asks for
starts no later than where it is (`Took`). A tab not yet in the room has loaded the file
as it is, by assumption (`OpensFile`), which is why a first join may count it as the
saved log. And
every message on its way fits the log and the tab: an event or an acknowledgement
carries the log's entry, the answer to a catch-up is a gapless piece of the log or a
reset, and a tab that never was in the room has events and the answer to its join only (`Fits`). Each handler is a lemma: it
takes in what it was given and no more (`Takes`), or only changes its calls
(`Steers`). Messages may be handled in any order over http, so a message that fits
must go on fitting whatever is handled before it (`StillFits`, `Leads`). A
submission is accepted only at the head (`Fresh`), and a tab that asks at the head has
taken in everything, which is `EditsBuildOnWholeLog`.

`KeptInv` is about a tab's own edits: the queue is in the order the edits were
made, a submission under way is the head of it, at most one reply to a
submission is on its way and only while it is awaited, an edit is in the log or
queued and in order with the earlier ones. `AcceptedOnce` needs also that over http an
edit which is logged and still queued is the one whose acknowledgement is on
its way. Dropping a connection keeps of an inbox what `KeepAnswer` folds out of it;
`Folding` makes that a statement about every sequence.

`ShownInv` is about what a tab shows where messages keep their order. A cell has the
value of the last pending edit of it, or else of the last position taken in that
writes it (`Shows`), and the entries of its own that a tab has not taken in yet are
still queued (`OwnQueued`): a handler passes over an own entry, which is right only
because a pending edit covers the cell. A catch-up may bring a tab its own entry while
the acknowledgement is on its way; on a socket it cannot, as the answer given first
arrives first. That is `AtHead`: everything before an acknowledgement in the inbox
fits the tab even if the log ended where the tab is, so when the acknowledgement is
handled its entry is the next position, and none of the tab's own follows it. Over http
this fails (`sheet_late_ack`). Where a tab starts is the file, so the file must stand
for the saved part of the log (`FileFollows`), and an open tab not yet joined must still
show it (`Loaded`); a save keeps this because nothing is pending in the tab that saves,
a replacement because it takes a position of its own, and both because by assumption no
tab is opening. `SheetFollowsLog` says the
same with a CHOOSE of the last edit, to which `ShowsShown` leads; convergence follows,
since tabs that have applied the head have taken in the same log.

*The deck engine.* `Core` relates the base, the position and the held entries to the
log. That no batch is lost or logged twice (`BatchesKept`) needs to know what is
under way: what is pending was made last, in the order made (`PendingIsLast`);
one loop submits at a time (`OneLoop`); a request carries a batch that was made
(`RequestSound`); and while no call was lost, the log holds what was made up to the
pending batches, and the first of them only while its acknowledgement is being
handled (`LoggedOnce`), with no request under way but the one awaited (`WireFits`). Mishaps
are never forgotten (`LossesLast`), so a step into one owes nothing of the last two.

*The document engine.* Its properties are stated but for named mishaps, so the
invariant is `IsDoc(doc) /\ (DocCoped => Sound)`: fields without condition, the rest
while the engine copes, and a step that ends that owes nothing. `Sound` relates the
text, the position and what is held back to the log (`Core`), what the engine awaits
to the one thing that is under way (`OneTask`, `WireFits`), and the pending edits to
those of the log that are its own. Own edits are picked from the text by a fold
(`OwnOfOthers`, `OwnOfOwn`, `OwnUpTo`).

*The outbox.* A submission has a key for good, but the key is first in a mutation that
waits, then in the file, in memory, in a request, in the log, and after a restart only
in some of them. `OutboxInv` therefore speaks of a function from keys to submissions:
it rises with the key, and every place where a key is found agrees with it
(`FileKeyed`, `MemoryKeyed`, `JobsKeyed`, `CallKeyed`, `WireKeyed`, `LogKeyed`). With
it goes an order: what is on the wire is no newer than what the file holds
(`WireInOrder`), so the server, which answers a known key and appends a new one, logs
the submissions as they were made; and what is settled is in the log (`LoggedFits`,
`FatesFit`). The function is extended when a submission gets its key and is otherwise
kept. `JournalImplementsOutbox` maps the write of an enqueue to the abstract keep, the
write of a cancellation to the withdrawal, that of a commit to the forgetting, the
server's append to the delivery, and every other step to a stutter; that the file and
the log come from two machines that stop and lose messages independently does not
show in `Outbox`.

`PaceInv` says whose turn it is: the pump waits for the end of a resync and a resync
for the pump's (`TurnsIn`), and until a resync has finished since connect nothing is
marked, sent or about to be (`Steady`, `MarkReady`), but for the two ways of section 3 in
which the status turns to ready too early. `ClearInv` adds positions. The file counts
the log up to at most one own entry before its end, since only one submission is under
way (`AheadInv`); a resync which need not go round again knows every entry there is to
rebase (`Seen`), which an edit made while it waits for earlier writes would break; what
may be replayed is expressed on the log as far as the file counts it (`FileClear`), what
is on the wire on the base it names (`WireClear`), and so what the server accepts is
expressed on the whole log before it (`LogClear`). `FileClear` is stated only while a
replay is possible: during a resync the file's position is ahead of its entries.

*Presence over HTTP.* `MirrorAgrees` speaks of a tab without a join under way, so it is
not inductive: the answer of a join was made earlier, of a room that has changed since.
What every step of the server keeps is a relation between two states of it (`Kept`):
a session that is not ended stays in the room, and whatever map of selections led to the
room by the events in its buffer before the step does so after it (`Follows`). A change
of the room is told to all others by an event that, applied to a map, comes to the
same change (`Told`, for `Entered`, `Exited`, `Selected`), or else the buffer is full and
the session ended. `expireIdle` is a fold of such changes. So the mirror of a tab and the
answer under way are treated alike (`TabsFollow`, `CallsFollow`), and only the new
answer must be looked at: what it tells is the room of that moment, but the buffer may
already hold events from before it, of peers that joined the room while this session was
in it. Each of them must lead from the room back to the room (`Settled`), which a
further event keeps because what is shown of a client depends on the last event
about it (`SettledAppend`). A tab takes events in the order sent (`ShownHead`), sessions
are not shared (`Owned`), and an event that is delivered to a tab whose join was answered
is the named mishap. `NobodyLeftBehind` follows from the same steps: only `drop` unlists
a session, and it takes it out of the room; `Hub.Join` lists nobody.

*Folds.* `Folding` derives what FoldLeft computes from its definition by well-founded
induction over the naturals, stated for a set instead of for an operator
(`LeastNatural`, `Induction`), which the provers can use. The drain of
`DeckSync`, the text of `DocSync`, what of a log is a tab's own, `KeepAnswer`, `ExpireIdle`, what a mirror shows after its events, and everything that
`UndoJournal` says of a sheet, a tail or a queue are folds. A fold over a concatenation
starts where the first part ends (`FoldConcat`); one that appends starts anywhere
(`FoldOnto`).

*The agent session.* `WrittenOnce` is not inductive: a second write under a key could
come from a call that is still under way. `KeyInv` says that a call which may yet
write, or has written, is the one its key remembers, so there is one such call per
key, and `WriteInv` that a call which wrote is past its write. A failed
call gives its key up only before it has written. `SerialInv`, that whoever is
past waiting has its turn, makes two calls under way impossible; so nothing
replaces a value between a call's last look and its adoption (`ValueInv`), and
`AdoptsSuccessor` follows from the step alone. `ReviewInv` carries what
was compared and shown to the write.

*Undo.* `DocFollowsLogIfCoped` compares the sheet with a fold over the log, the
acknowledgements that wait in the tail, the outbox and the records that wait, less what
the log shows already and what the host has not executed. The invariant says
the same without that filter. Four parts hold whatever happens: every entry has its own
key and its contents wherever it is found (`LogInv`, `BoxInv`), what waits in the tail is
what the log has, and no acknowledgement comes twice (`TailInv`), and a batch that is
planned and not executed is the last of the outbox and held back (`RunInv`). Two more hold
while the coordinator is active and nothing of section 3 went wrong: what is outbound
is past what was taken in (`PastInv`), so the filter drops nothing but that last batch,
and the sheet is the log up to there with the rest played on top (`SheetInv`). Each step
moves a batch from one of the four parts to the next and leaves the fold as it was: a
record from the tail to the end of the outbox, the head of the outbox to the last of
the acknowledgements, an acknowledgement to the log, where by `PastInv` it is the next
position. A remote batch goes under all local ones, though it is executed last: what is
written first is covered by what is written later (`PlayUnder`), and the host
leaves the covered cells alone. A plan is executed over what waits to be recorded; that this
overwrites no edit is what the exception is for, and disjoint batches commute. A
coordinator that is reset or loaded again starts from the log; what then still waits
in the tail must not be a record, which is what the exception for a reset is for.

*The transforms.* `EditsConverge` is about one row at a time, so it is linear
arithmetic once `ThroughStruct` is known to return one edit or none
(`InsertThrough`, `RemoveThrough`). Two removals need the rows that each leaves
of the other in closed form (`StartLeft`, `EndLeft`); `CutsCommute` then says
that the order does not matter. That tabs agree (`RowsFollowLogIfCoped`) folds
this over sequences of operations and stays with TLC, as does the image of a
span under a move.

Only proved: `EmptyRoomRetainsNothing` of `CollabHub`. Only model-checked: `ShownAsMade` of `DeckSync`, `BlockedOnlyIfRefused` of
`OutboundJournal`, `UndoKeepsNewerRemote` and `UndoRestores` of `UndoJournal`,
`RowsFollowLogIfCoped` of `SheetRows`, and all liveness: temporal properties under
fairness need ENABLED, which the prover does not support.
`UndoRestores` relates the inverse kept in a stack entry to the last of the action's
own writes in a history that the stacks do not record, and needs an invariant over all
entries of both stacks. That two row edits commute is proved of pairs; that sequences
of them do (`RowsFollowLogIfCoped`) needs an induction over both and the queue at once.

## 5. Plan

In order of importance:

1. Proofs: `UndoKeepsNewerRemote` of `UndoJournal`, `RowsFollowLogIfCoped` of `SheetRows`.
2. `HubLocking`: the hub's methods as sequences of lock, read and send steps, shown
   to implement `CollabHub`; no deadlock; Since between its two locks. By
   reading, the order is hub, room, store, and no Sender blocks.
3. Columns, sheets and structural edits in `SheetSync` itself; presence selections
   through row edits.
4. `NativeRuntime`, `LiveShare`, `ArtifactStore`, `DesktopRecovery`.
5. Histories, formulas, connectors and exchange, whose managers race a remote call
   against a changing sheet.

## 6. Not modelled

The file engines, viewers and renderers are sequential functions on large data
with no state a model checker would explore; they make up most of the
repository. Playground, documentation, build and deployment files hold no logic
of the system, but for the playground's transport, which is in `CollabHttp`.
Components of section 1 that have no module yet are listed as `not_modelled` in
`PROJECT.json` with the module planned for them. Of the hub, name and size limits
of arguments and the JSON checks (`jsonlimit.go`) only refuse calls and are left
out. Of the sheet client, drawing of presence; of the transforms, content ranges,
merges, sheets and selections; of undo, structural edits and selections; of the
agent tools, reads, previews, plans and the dispatcher.
