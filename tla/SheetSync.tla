----------------------------- MODULE SheetSync -----------------------------
(***************************************************************************)
(* Co-editing of one sheet: the browser side (packages/collab/src:         *)
(* PresenceManager of manager.ts, SubmitQueue of sync.ts, the identity     *)
(* part of PresenceState) against a room of the hub, over a transport the  *)
(* host supplies.                                                          *)
(*                                                                         *)
(* A tab is one PresenceManager.  An edit writes one cell and is one       *)
(* submission; what two edits of a tick share a submission is left out, as *)
(* are row, column and sheet edits and the transforms they need.  A        *)
(* mutation handler, a microtask or a promise continuation is one step:    *)
(* the handlers below map a tab's record to its record after the handler.  *)
(*                                                                         *)
(* The transport is external.  On a "socket" every message to a tab keeps  *)
(* its order; on "http" events keep theirs, and each answer arrives on its *)
(* own (go/injoffice-server streams events and answers calls separately).  *)
(***************************************************************************)
EXTENDS MemoryStore, SequencesExt

CONSTANTS
  Tabs,          \* editors that may open the artifact, each once
  Cells,         \* cells they write
  Mishaps,       \* which of AllMishaps may happen
  Scenarios      \* networks, each with bounds on what happens

(* Situations the code does not cope with: the connection is lost again while a
   tab rejoins; a tab loads the file and another saves, or somebody replaces
   it, before its first join is through; everybody is disconnected at once. *)
AllMishaps ==
  {"rejoin lost", "save while opening", "replaced while opening", "room emptied"}

ASSUME SheetAssumption ==
  /\ Tabs # {} /\ "host" \notin Tabs
  /\ Mishaps \subseteq AllMishaps
  /\ Scenarios \subseteq
       [network : {"socket", "http"}, edits : Nat, drops : Nat, saves : Nat,
        replaces : Nat]

VARIABLES
  log,       \* the room's operation log
  members,   \* tabs whose connection is in the room
  file,      \* the stored bytes: which edit each cell shows
  tab,       \* each tab's manager, queue and sheet
  inbox,     \* messages on their way to each tab, oldest first
  left,      \* the scenario: its network, and what remains of its bounds
  slots,     \* history: every position of the log
  ground,    \* history: the sheet that slots[1] was accepted on
  made       \* history: which tab made each edit

vars == <<log, members, file, tab, inbox, left, slots, ground, made>>

-----------------------------------------------------------------------------

NoCall == [phase |-> "idle"]

Closed ==
  [open |-> FALSE, link |-> FALSE, room |-> FALSE, joined |-> FALSE,
   join |-> NoCall, applied |-> 0, doc |-> [x \in Cells |-> 0],
   queue |-> <<>>, submit |-> NoCall, since |-> NoCall, flushAfter |-> FALSE,
   awaited |-> 0, reorder |-> [n \in {} |-> 0], timer |-> FALSE,
   resynced |-> FALSE, told |-> FALSE, seen |-> <<>>]

(* A write of one cell; n numbers the edits.  0 is a cell as first stored and
   -1 a cell as replaced. *)
Replaced(seq) == Entry(seq, "host", [n |-> -1])
IsOp(slot) == slot.client # "host"

IsEvent(msg) == msg.kind \in {"op", "file"}

Keys(f) == DOMAIN f

-----------------------------------------------------------------------------
(***************************************************************************)
(* SubmitQueue: submit is the send it awaits ("asked", "lost", "answered") *)
(* or, after STALE_BASE, the catch-up it awaits ("catching").              *)
(***************************************************************************)
Flush(t) ==
  IF t.submit.phase # "idle" \/ t.queue = <<>> \/ ~t.link
  THEN t
  ELSE [t EXCEPT !.submit =
          [phase |-> "asked", op |-> Head(t.queue), base |-> t.applied]]

(* The user's write of a cell. *)
Written(t, cell, n) ==
  [t EXCEPT !.doc = [x \in Cells |-> IF x = cell THEN n ELSE t.doc[x]]]

(* Push an edit and run the microtask that queues and sends it. *)
Push(t, op) == Flush([t EXCEPT !.queue = Append(@, op)])

(* The catch-up promise resolves for whoever awaits it: join(), which then
   flushes; a send that was refused as stale, which then tries again; and a
   file change, of which the host is told if the tab is still behind it. *)
EndCatchUp(t) ==
  LET u == [t EXCEPT !.since = NoCall, !.flushAfter = FALSE, !.awaited = 0,
              !.told = @ \/ t.awaited > t.applied,
              !.submit = IF @.phase = "catching" THEN NoCall ELSE @]
  IN  IF t.flushAfter \/ t.submit.phase = "catching" THEN Flush(u) ELSE u

(* One catch-up at a time; a second caller shares the first one's. *)
StartCatchUp(t, from) ==
  IF t.since.phase # "idle" THEN t
  ELSE IF ~t.link THEN EndCatchUp(t)
  ELSE [t EXCEPT !.since = [phase |-> "asked", from |-> from]]

-----------------------------------------------------------------------------
(***************************************************************************)
(* PresenceManager, log to sheet.  seen records what a tab took in.        *)
(***************************************************************************)
Owns(t, cell) == \E i \in 1..Len(t.queue) : t.queue[i].cell = cell

(* The entries another tab wrote to a cell. *)
Writers(c, entries, cell) ==
  {i \in 1..Len(entries) : entries[i].client # c /\ entries[i].ops.cell = cell}

TakeIn(t, entries, doc) ==
  [t EXCEPT !.doc = doc, !.seen = @ \o entries,
            !.applied = IF entries = <<>> THEN @ ELSE entries[Len(entries)].seq]

(* Fault: a remote write overwrites a pending local one. *)
ApplyOverPending(c, t, entries) ==
  TakeIn(t, entries,
    [x \in Cells |-> LET writers == Writers(c, entries, x)
                     IN  IF writers = {} THEN t.doc[x]
                         ELSE entries[Max(writers)].ops.n])

(* Entries one after the other.  A remote write is ordered before everything
   pending, so a cell that a pending edit writes keeps it; a tab's own entries
   are passed over. *)
ApplyEntries(c, t, entries) ==
  TakeIn(t, entries,
    [x \in Cells |-> LET writers == Writers(c, entries, x)
                     IN  IF writers = {} \/ Owns(t, x) THEN t.doc[x]
                         ELSE entries[Max(writers)].ops.n])

Hold(t, e) ==
  [t EXCEPT !.reorder = [n \in Keys(t.reorder) \cup {e.seq} |->
                           IF n = e.seq THEN e ELSE t.reorder[n]]]

Only(f, keys) == [n \in keys |-> f[n]]

(* Take in the held entries that follow without a gap. *)
Drain(c, t) ==
  LET ready == {n \in Keys(t.reorder) :
                  n > t.applied /\ (t.applied + 1)..n \subseteq Keys(t.reorder)}
      last == Max(ready \cup {t.applied})
      held == [i \in 1..(last - t.applied) |-> t.reorder[t.applied + i]]
  IN  ApplyEntries(c, [t EXCEPT !.reorder = Only(@, Keys(@) \ ready)], held)

(* Fault: an entry behind a gap is applied at once. *)
ReceiveAnyLater(c, t, e) ==
  IF e.seq <= t.applied THEN t ELSE Drain(c, ApplyEntries(c, t, <<e>>))

(* An entry behind a gap is held and a timer set that will ask the log.  The
   hub sends a tab its own entry when it was submitted under a former
   connection. *)
Receive(c, t, e) ==
  IF e.client = c
  THEN Drain(c, IF e.seq > t.applied THEN Hold(t, e) ELSE t)
  ELSE IF e.seq <= t.applied THEN t
  ELSE IF e.seq = t.applied + 1 THEN Drain(c, ApplyEntries(c, t, <<e>>))
  ELSE [Hold(t, e) EXCEPT !.timer = TRUE]

(* resync: the host is told to reload; what was queued is dropped. *)
Resync(t) ==
  IF t.resynced THEN t
  ELSE [t EXCEPT !.resynced = TRUE, !.queue = <<>>]

CatchUpAnswer(c, t, answer) ==
  IF answer.reset THEN EndCatchUp(Resync(t))
  ELSE LET u == ApplyEntries(c, t, After(answer.ops, t.applied))
           v == IF answer.head > u.applied /\ answer.ops = <<>>
                THEN [u EXCEPT !.applied = answer.head] ELSE u
           w == Drain(c, v)
           ahead == {n \in Keys(w.reorder) : n > w.applied}
       IN  EndCatchUp([w EXCEPT !.reorder = Only(@, ahead)])

(* Fault: a replacement is treated like a save. *)
FileChangedLikeSave(t, reset, savedSeq) ==
  IF savedSeq <= t.applied \/ reset THEN t
  ELSE StartCatchUp([t EXCEPT !.awaited = IF @ > savedSeq THEN @ ELSE savedSeq],
                    t.applied)

(* Of a replacement the host is told at once; of a save only if the tab is
   behind it and the log does not help. *)
FileChanged(t, reset, savedSeq) ==
  IF reset THEN [t EXCEPT !.told = TRUE]
  ELSE IF savedSeq <= t.applied THEN t
  ELSE StartCatchUp([t EXCEPT !.awaited = IF @ > savedSeq THEN @ ELSE savedSeq],
                    t.applied)

-----------------------------------------------------------------------------
(***************************************************************************)
(* PresenceManager, answers to its calls.                                  *)
(***************************************************************************)
(* Fault: an acknowledged submission stays at the head of the queue. *)
AcceptedWithoutShift(c, t, e) ==
  LET u == [t EXCEPT !.submit = NoCall]
  IN  Flush(IF e.seq = u.applied + 1 THEN Drain(c, ApplyEntries(c, u, <<e>>))
            ELSE IF e.seq > u.applied THEN Hold(u, e) ELSE u)

(* The head of the queue is shifted, whatever it is by now. *)
Accepted(c, t, e) ==
  LET u == [t EXCEPT !.submit = NoCall,
                     !.queue = IF @ = <<>> THEN @ ELSE Tail(@)]
  IN  Flush(IF e.seq = u.applied + 1 THEN Drain(c, ApplyEntries(c, u, <<e>>))
            ELSE IF e.seq > u.applied THEN Hold(u, e) ELSE u)

Stale(t) ==
  StartCatchUp([t EXCEPT !.submit = [phase |-> "catching"]], t.applied)

(* Fault: a submission that failed is forgotten. *)
RefusedForgets(t) ==
  [t EXCEPT !.submit = NoCall, !.queue = IF @ = <<>> THEN @ ELSE Tail(@)]

(* Any other failure leaves the submission queued until the next flush. *)
Refused(t) == [t EXCEPT !.submit = NoCall]

(* A first join replays what the loaded file lacks, a later one what this
   tab lacks; then the queue is flushed. *)
Joined(t, savedSeq) ==
  LET from == IF t.joined THEN t.applied ELSE savedSeq
      u == [t EXCEPT !.join = NoCall, !.room = TRUE, !.joined = TRUE,
                     !.flushAfter = TRUE]
  IN  StartCatchUp(u, from)

JoinFailed(t) == [t EXCEPT !.join = NoCall, !.joined = FALSE]

(* PresenceState.apply lets no event through before the first join. *)
Handle(c, t, msg) ==
  CASE msg.kind = "op"       -> IF t.room THEN Receive(c, t, msg.entry) ELSE t
    [] msg.kind = "file"     -> IF t.room THEN FileChanged(t, msg.reset, msg.savedSeq) ELSE t
    [] msg.kind = "joined"   -> Joined(t, msg.savedSeq)
    [] msg.kind = "since"    -> CatchUpAnswer(c, t, msg.answer)
    [] msg.kind = "failed"   -> EndCatchUp(t)
    [] msg.kind = "accepted" -> Accepted(c, t, msg.entry)
    [] msg.kind = "stale"    -> Stale(t)
    [] msg.kind = "refused"  -> Refused(t)

-----------------------------------------------------------------------------
Init ==
  /\ log = EmptyLog
  /\ members = {}
  /\ file = [x \in Cells |-> 0]
  /\ tab = [c \in Tabs |-> Closed]
  /\ inbox = [c \in Tabs |-> <<>>]
  /\ \E scenario \in Scenarios :
       left = [opens |-> Tabs, network |-> scenario.network, edits |-> scenario.edits,
               drops |-> scenario.drops, saves |-> scenario.saves,
               replaces |-> scenario.replaces]
  /\ slots = <<>>
  /\ ground = [x \in Cells |-> 0]
  /\ made = <<>>

Opening(c) == tab[c].open /\ ~tab[c].room

(* The messages of inbox[c] that may arrive next. *)
Arriving(c) ==
  {i \in 1..Len(inbox[c]) :
     \/ i = 1
     \/ /\ left.network = "http"
        /\ IsEvent(inbox[c][i]) =>
             \A j \in 1..(i - 1) : ~IsEvent(inbox[c][j])}

Reply(c, msg) == inbox' = [inbox EXCEPT ![c] = Append(@, msg)]

(* An event to the others in the room and an answer to c. *)
ReplyAndPush(c, msg, event) ==
  inbox' = [d \in Tabs |->
    IF d = c THEN Append(inbox[d], msg)
    ELSE IF d \in members THEN Append(inbox[d], event) ELSE inbox[d]]

PushToAll(except, event) ==
  inbox' = [d \in Tabs |->
    IF d \in members \ except THEN Append(inbox[d], event) ELSE inbox[d]]

-----------------------------------------------------------------------------
(***************************************************************************)
(* The tab's own steps.                                                    *)
(***************************************************************************)
(* The host loads the file and starts a manager. *)
Open(c) ==
  /\ c \in left.opens
  /\ left' = [left EXCEPT !.opens = @ \ {c}]
  /\ tab' = [tab EXCEPT ![c] =
       [Closed EXCEPT !.open = TRUE, !.link = TRUE, !.doc = file,
                      !.join = [phase |-> "asked"]]]
  /\ UNCHANGED <<log, members, file, inbox, slots, ground, made>>

(* The user writes a cell.  Before the first join, and after a failed rejoin,
   edits are not shipped at all; such edits are not modelled. *)
Edit(c, cell) ==
  LET n == Len(made) + 1
  IN  /\ left.edits > 0
      /\ tab[c].joined
      /\ ~tab[c].resynced
      /\ left' = [left EXCEPT !.edits = @ - 1]
      /\ made' = Append(made, c)
      /\ tab' = [tab EXCEPT ![c] =
           Push(Written(@, cell, n), [n |-> n, cell |-> cell])]
      /\ UNCHANGED <<log, members, file, inbox, slots, ground>>

Deliver(c) ==
  \E i \in Arriving(c) :
    /\ tab' = [tab EXCEPT ![c] = Handle(c, @, inbox[c][i])]
    /\ inbox' = [inbox EXCEPT ![c] = RemoveAt(@, i)]
    /\ UNCHANGED <<log, members, file, left, slots, ground, made>>

(* The 300 ms timer of a held entry. *)
TimerFires(c) ==
  /\ tab[c].timer
  /\ tab' = [tab EXCEPT ![c] = StartCatchUp([@ EXCEPT !.timer = FALSE], @.applied)]
  /\ UNCHANGED <<log, members, file, inbox, left, slots, ground, made>>

(* The transport is connected again and tells the manager, which rejoins. *)
Reconnect(c) ==
  /\ tab[c].open
  /\ ~tab[c].link
  /\ tab[c].join.phase = "idle"
  /\ tab' = [tab EXCEPT ![c] = [@ EXCEPT !.link = TRUE, !.join = [phase |-> "asked"]]]
  /\ UNCHANGED <<log, members, file, inbox, left, slots, ground, made>>

-----------------------------------------------------------------------------
(***************************************************************************)
(* The hub answers a call.                                                 *)
(***************************************************************************)
(* What the sheet of a tab that joins stands for: before its first join the
   file it loaded, which reflects the saved part of the log only if it is still
   the stored one. *)
TakenInBy(t) ==
  IF t.room THEN t.seen
  ELSE IF t.doc = file THEN SubSeq(slots, 1, log.savedSeq) ELSE <<>>

HubJoin(c) ==
  /\ tab[c].join.phase = "asked"
  /\ members' = members \cup {c}
  /\ LET t == tab[c]
     IN  tab' = [tab EXCEPT ![c] =
                   [t EXCEPT !.join = [phase |-> "answered"], !.seen = TakenInBy(t)]]
  /\ Reply(c, [kind |-> "joined", savedSeq |-> log.savedSeq])
  /\ UNCHANGED <<log, file, left, slots, ground, made>>

Answered(c) ==
  LET call == [tab[c].submit EXCEPT !.phase = "answered"]
  IN  tab' = [tab EXCEPT ![c] = [@ EXCEPT !.submit = call]]

(* A call made on a connection that is gone, or before its join, is refused. *)
HubAccepts(c) ==
  LET call == tab[c].submit
      entry == Entry(log.seq + 1, c, call.op)
  IN  /\ call.phase = "asked"
      /\ c \in members
      /\ Fresh(log, call.base)
      /\ log' = AppendOp(log, c, call.op)
      /\ slots' = Append(slots, entry)
      /\ ReplyAndPush(c, [kind |-> "accepted", entry |-> entry],
                         [kind |-> "op", entry |-> entry])
      /\ Answered(c)
      /\ UNCHANGED <<members, file, left, ground, made>>

HubRefuses(c) ==
  LET call == tab[c].submit
      refused == call.phase = "lost" \/ c \notin members
  IN  /\ call.phase \in {"asked", "lost"}
      /\ refused \/ ~Fresh(log, call.base)
      /\ Reply(c, [kind |-> IF refused THEN "refused" ELSE "stale"])
      /\ Answered(c)
      /\ UNCHANGED <<log, members, file, left, slots, ground, made>>

HubSince(c) ==
  LET call == tab[c].since
  IN  /\ call.phase \in {"asked", "lost"}
      /\ Reply(c, IF call.phase = "asked" /\ c \in members
                  THEN [kind |-> "since", answer |-> Since(log, call.from)]
                  ELSE [kind |-> "failed"])
      /\ tab' = [tab EXCEPT ![c] = [@ EXCEPT !.since = [phase |-> "answered"]]]
      /\ UNCHANGED <<log, members, file, left, slots, ground, made>>

-----------------------------------------------------------------------------
(***************************************************************************)
(* Connections end, and the host writes the file.                          *)
(***************************************************************************)
(* The connection leaves the room; the last one takes the log with it. *)
LeaveRoom(c) ==
  /\ members' = members \ {c}
  /\ IF members = {c}
     THEN /\ log' = EmptyLog
          /\ slots' = <<>>
          /\ ground' = file
     ELSE UNCHANGED <<log, slots, ground>>

(* Would the room be empty without c, while a tab relies on its log? *)
Empties(c, tabs) ==
  members \subseteq {c} /\ \E d \in tabs : tab[d].open /\ tab[d].room

Abandoned(call) == IF call.phase = "asked" THEN [call EXCEPT !.phase = "lost"] ELSE call

(* On a socket every call fails with the connection.  Over http only the
   event stream ends; answers already given still arrive. *)
CallsFail(t) ==
  LET u == [t EXCEPT !.submit = IF @.phase = "catching" THEN @ ELSE NoCall]
  IN  IF u.since.phase = "idle" THEN u ELSE EndCatchUp(u)

CallsLinger(t) ==
  [t EXCEPT !.submit = Abandoned(@), !.since = Abandoned(@)]

KeepAnswer(kept, msg) ==
  IF IsEvent(msg) \/ msg.kind = "joined" THEN kept ELSE Append(kept, msg)

Drop(c) ==
  /\ left.drops > 0
  /\ tab[c].link
  /\ tab[c].joined /\ tab[c].join.phase # "idle" => "rejoin lost" \in Mishaps
  /\ Empties(c, Tabs) => "room emptied" \in Mishaps
  /\ left' = [left EXCEPT !.drops = @ - 1]
  /\ LET t == [tab[c] EXCEPT !.link = FALSE]
         u == IF t.join.phase = "idle" THEN t ELSE JoinFailed(t)
     IN  tab' = [tab EXCEPT ![c] =
                   IF left.network = "socket" THEN CallsFail(u) ELSE CallsLinger(u)]
  /\ inbox' = [inbox EXCEPT ![c] =
       IF left.network = "socket" THEN <<>>
       ELSE FoldLeft(KeepAnswer, <<>>, @)]
  /\ LeaveRoom(c)
  /\ UNCHANGED <<file, made>>

(* stop(): the manager leaves and forgets everything. *)
Close(c) ==
  /\ tab[c].open
  /\ Empties(c, Tabs \ {c}) => "room emptied" \in Mishaps
  /\ tab' = [tab EXCEPT ![c] = Closed]
  /\ inbox' = [inbox EXCEPT ![c] = <<>>]
  /\ LeaveRoom(c)
  /\ UNCHANGED <<file, left, made>>

(* The host of a tab with nothing pending saves its sheet and reports the
   position it reflects.  Bytes older than the stored ones do not pass the
   store's compare-and-swap. *)
Save(c) ==
  /\ left.saves > 0
  /\ c \in members
  /\ tab[c].joined /\ ~tab[c].resynced /\ tab[c].queue = <<>>
  /\ tab[c].applied > log.savedSeq
  /\ (\E d \in Tabs : Opening(d)) => "save while opening" \in Mishaps
  /\ left' = [left EXCEPT !.saves = @ - 1]
  /\ file' = tab[c].doc
  /\ log' = MarkSaved(log, tab[c].applied)
  /\ PushToAll({c}, [kind |-> "file", reset |-> FALSE, savedSeq |-> log'.savedSeq])
  /\ UNCHANGED <<members, tab, slots, ground, made>>

(* Somebody replaces the file: no operation of the log applies any more. *)
Replace ==
  /\ left.replaces > 0
  /\ (\E d \in Tabs : Opening(d)) => "replaced while opening" \in Mishaps
  /\ left' = [left EXCEPT !.replaces = @ - 1]
  /\ file' = [x \in Cells |-> -1]
  /\ log' = Reset(log)
  /\ slots' = Append(slots, Replaced(log'.seq))
  /\ PushToAll({}, [kind |-> "file", reset |-> TRUE, savedSeq |-> log'.savedSeq])
  /\ UNCHANGED <<members, tab, ground, made>>

TabStep(c) ==
  \/ Open(c)
  \/ \E cell \in Cells : Edit(c, cell)
  \/ Deliver(c)
  \/ TimerFires(c)
  \/ Reconnect(c)
  \/ Close(c)

HubStep(c) == HubJoin(c) \/ HubAccepts(c) \/ HubRefuses(c) \/ HubSince(c)

Next ==
  \/ \E c \in Tabs : TabStep(c) \/ HubStep(c) \/ Drop(c) \/ Save(c)
  \/ Replace

Spec == Init /\ [][Next]_vars

(* Weak fairness of Deliver(c), written out: it is enabled exactly when the inbox
   is not empty. *)
Arrives(c) == []<>(inbox[c] = <<>>) \/ []<><<Deliver(c)>>_vars

(* Messages arrive, timers fire, lost connections come back, calls are
   answered.  Nothing makes a user edit or a host save. *)
Fairness ==
  \A c \in Tabs :
    /\ Arrives(c)
    /\ WF_vars(TimerFires(c))
    /\ WF_vars(Reconnect(c))
    /\ WF_vars(HubStep(c))

FairSpec == Spec /\ Fairness
-----------------------------------------------------------------------------
(* A tab in sync with its room: joined, and not told to reload. *)
InRoom(c) == c \in members /\ tab[c].joined /\ ~tab[c].resynced

(***************************************************************************)
(* What a tab has taken in, from the file and by event, catch-up and ack,  *)
(* is a prefix of the log: every position once and in order, none skipped, *)
(* and no position counted as applied that was not.                        *)
(***************************************************************************)
SeenIsLogPrefix ==
  \A c \in Tabs : InRoom(c) =>
    /\ IsPrefix(tab[c].seen, slots)
    /\ tab[c].applied <= Len(tab[c].seen)

(* The value of a cell after a history and pending edits on top. *)
LastOf(f, S) == f[CHOOSE i \in S : \A j \in S : j <= i]

Shown(history, queue, cell) ==
  LET mine == {i \in 1..Len(queue) : queue[i].cell = cell}
      theirs == {i \in 1..Len(history) :
                   IsOp(history[i]) => history[i].ops.cell = cell}
  IN  IF mine # {} THEN LastOf(queue, mine).n
      ELSE IF theirs # {} THEN LastOf(history, theirs).ops.n
      ELSE ground[cell]

(***************************************************************************)
(* reconcileRemote's promise, "last writer by server order": a tab shows,  *)
(* cell by cell, the part of the log it has taken in with its unacked      *)
(* edits on top.  Two tabs that have taken in the same log and have        *)
(* nothing pending therefore show the same sheet.  This takes an ordered   *)
(* transport.                                                              *)
(***************************************************************************)
SheetFollowsLog ==
  \A c \in Tabs : left.network = "socket" /\ InRoom(c) =>
    \A cell \in Cells :
      tab[c].doc[cell] = Shown(tab[c].seen, tab[c].queue, cell)

(***************************************************************************)
(* A tab's edits are in the log or still queued, none forgotten, and they  *)
(* enter the log in the order they were made.                              *)
(***************************************************************************)
Logged(c, n) == {i \in 1..Len(slots) : slots[i].client = c /\ slots[i].ops.n = n}
Queued(c, n) == \E i \in 1..Len(tab[c].queue) : tab[c].queue[i].n = n

MadeBy(c) == {n \in 1..Len(made) : made[n] = c}

EditsKeptInOrder ==
  \A c \in Tabs : InRoom(c) =>
    \A n \in MadeBy(c) :
      /\ Logged(c, n) # {} \/ Queued(c, n)
      /\ \A m \in MadeBy(c), k \in Logged(c, n) :
           m < n => \E j \in Logged(c, m) : j < k

(***************************************************************************)
(* An edit is accepted once, where no acknowledgement is lost: answers      *)
(* given over http arrive, those on a socket that drops do not.            *)
(***************************************************************************)
AcceptedOnce ==
  \A i, j \in 1..Len(slots) :
    /\ left.network = "http"
    /\ IsOp(slots[i]) /\ IsOp(slots[j])
    /\ slots[i].ops.n = slots[j].ops.n
    => i = j

(***************************************************************************)
(* An edit enters the log only from a tab that has taken in the whole log  *)
(* before it.  In particular no edit made on replaced bytes does, where no *)
(* replacement, and no save, meets a tab that has loaded the file and is   *)
(* not yet in the room; with those among the Mishaps it fails.              *)
(***************************************************************************)
EditsBuildOnWholeLog ==
  [][\A c \in Tabs :
       HubAccepts(c) => tab[c].seen = slots]_vars

(***************************************************************************)
(* Once edits, drops and saves have come to an end, every open tab ends up *)
(* with the whole log applied and with everything queued while it was      *)
(* offline shipped, unless its host has been told to reload (catchUp,      *)
(* handleFileChanged, flush).                                              *)
(***************************************************************************)
Reloads(c) == tab[c].resynced \/ tab[c].told

InSync(c) ==
  tab[c].open /\ ~Reloads(c) =>
    /\ tab[c].joined /\ tab[c].applied = log.seq
    /\ tab[c].queue = <<>>

EventuallyInSync == <>[](\A c \in Tabs : InSync(c))

(***************************************************************************)
(* "Every client does this, so all converge": two tabs with no call and no *)
(* message outstanding, nothing queued and the whole log applied show the  *)
(* same sheet.                                                             *)
(***************************************************************************)
Quiet(c) ==
  /\ InRoom(c)
  /\ inbox[c] = <<>>
  /\ tab[c].join = NoCall /\ tab[c].since = NoCall /\ tab[c].submit = NoCall
  /\ tab[c].queue = <<>>
  /\ tab[c].applied = log.seq

Converged ==
  \A c, d \in Tabs : Quiet(c) /\ Quiet(d) => tab[c].doc = tab[d].doc
=============================================================================
