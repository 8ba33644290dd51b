-------------------------- MODULE OutboundJournal --------------------------
(***************************************************************************)
(* The offline outbox of one client (packages/collab/src/offlineJournal.ts,*)
(* DurableOutboundJournal): submissions are stored, sent one at a time     *)
(* under a key that survives restarts, and forgotten once acknowledged.    *)
(*                                                                         *)
(* The journal is one record; the operators map it to what it is after a   *)
(* handler or a promise continuation.  A mutation of the stored snapshot   *)
(* waits its turn in jobs; its write and what follows the write are two    *)
(* steps (written, between them), and the process may stop at any moment.  *)
(*                                                                         *)
(* The host's storage and transport are external: a write happens wholly   *)
(* or not at all, and the server logs a submission once per key, and only  *)
(* if its base is the head.  What a submission edits is left out (ops,     *)
(* rebased), as are attempt counts and delays.  The token in a key may     *)
(* repeat, so a key is its ordinal.                                        *)
(***************************************************************************)
EXTENDS SequencesExt, Integers

CONSTANTS
  Bounds,         \* the bounds on what happens, one of which a behaviour has
  MaxEdits        \* the most submissions of any of them

BoundNames ==
  {"edits", "others", "stops", "drops", "unsaved", "lost", "cancels", "refusals",
   "reconnects"}

ASSUME JournalAssumption ==
  /\ Bounds \subseteq [BoundNames -> Nat]
  /\ MaxEdits \in Nat
  /\ \A b \in Bounds : b.edits <= MaxEdits

Numbers == 1..MaxEdits   \* the submissions, as they are made

VARIABLES
  disk,     \* what the storage holds, or Nothing
  jn,       \* the journal in memory
  wire,     \* submissions that may still reach the server
  slog,     \* the server's log, other clients' entries as key 0
  budget,   \* what is left of the bounds
  fresh,    \* history: a resync has finished since connect()
  fate,     \* history: what became of each submission, in the order made
  mishaps   \* history: which situations the journal does not cope with arose

jvars == <<disk, jn, wire, slog, budget, fresh, fate, mishaps>>

Nothing == [seq |-> -1]
Empty == [seq |-> 0, next |-> 1, entries |-> <<>>]
Idle == [phase |-> "idle"]

Unopened ==
  [status |-> "closed", online |-> FALSE, snap |-> Empty, deferred |-> {},
   retry |-> FALSE, revised |-> FALSE, reconnecting |-> FALSE,
   active |-> "none", pump |-> Idle, resync |-> Idle,
   jobs |-> <<>>, written |-> FALSE, blocked |-> FALSE]

IsOpen == jn.status # "closed"
File == IF disk = Nothing THEN Empty ELSE disk
HeadKey(s) == Head(s.snap.entries).key
KeysOf(snap) == {snap.entries[i].key : i \in 1..Len(snap.entries)}
PlaceOf(snap, key) == CHOOSE i \in 1..Len(snap.entries) : snap.entries[i].key = key
IdOf(snap, key) == snap.entries[PlaceOf(snap, key)].id
Request(call) == [key |-> call.entry.key, id |-> call.entry.id,
                  on |-> call.entry.on, base |-> call.base]
Position(key) == {i \in 1..Len(slog) : slog[i].key = key}
Later(m, n) == IF m > n THEN m ELSE n

-----------------------------------------------------------------------------
(***************************************************************************)
(* The pump, the resync and the retry timer.                               *)
(***************************************************************************)
CanSend(s) ==
  /\ s.online
  /\ s.status = "ready"
  /\ s.snap.entries # <<>>
  /\ HeadKey(s) \notin s.deferred

(* One pump at a time: the loop of runPump, up to its first await. *)
Pump(s) ==
  IF s.pump.phase # "idle" \/ ~CanSend(s) THEN s
  ELSE [s EXCEPT !.pump = [phase |-> "marking"],
                 !.jobs = Append(@, [kind |-> "mark"])]

(* Fault: the pump stops after one submission. *)
EndPumpForGood(s) == [s EXCEPT !.pump = Idle]

(* The pump returns, or goes round its loop. *)
EndPump(s) == Pump([s EXCEPT !.pump = Idle])

ScheduleRetry(s) ==
  IF ~s.online \/ s.retry THEN s
  ELSE [s EXCEPT !.status = "retry-wait", !.retry = TRUE]

(* One resync at a time; it first lets the mutations before it finish. *)
Resynchronize(s) ==
  IF s.resync.phase # "idle" \/ ~s.online THEN s
  ELSE [s EXCEPT !.status = "resyncing", !.resync = [phase |-> "settling"],
                 !.jobs = Append(@, [kind |-> "settle"])]

(* connect() may be waiting for an older resync to end. *)
EndResync(s) ==
  LET u == [s EXCEPT !.resync = Idle, !.reconnecting = FALSE]
  IN  IF s.reconnecting /\ s.online
      THEN Resynchronize([u EXCEPT !.retry = FALSE]) ELSE u

(* The one abort controller is that of the latest call. *)
Abort(s) ==
  [s EXCEPT !.pump = IF s.active = "pump" THEN [@ EXCEPT !.aborted = TRUE] ELSE @,
            !.resync = IF s.active = "resync" THEN [@ EXCEPT !.aborted = TRUE] ELSE @]

Settled(s, call) == IF s.active = call THEN [s EXCEPT !.active = "none"] ELSE s

-----------------------------------------------------------------------------
(***************************************************************************)
(* What a mutation writes, and what follows it.                            *)
(***************************************************************************)
(* Fault: the ordinal is not stored with the entry that used it. *)
AddWithoutOrdinal(snap, job) ==
  [snap EXCEPT !.entries = Append(@, [key |-> snap.next, id |-> job.id, on |-> job.on])]

Add(snap, job) ==
  [snap EXCEPT !.entries = Append(@, [key |-> snap.next, id |-> job.id, on |-> job.on]),
               !.next = @ + 1]

(* Fault: an entry is taken out of the file when it is sent. *)
MarkByRemoving(snap) == [snap EXCEPT !.entries = Tail(@)]

(* attempts is counted. *)
Mark(snap) == snap

Rebase(snap, job) ==
  [snap EXCEPT !.seq = Later(@, job.seq),
     !.entries = [i \in DOMAIN @ |-> IF @[i].key \in job.keys
                                     THEN [@[i] EXCEPT !.on = job.seq] ELSE @[i]]]

Writes(snap, job) ==
  CASE job.kind = "enqueue" -> Add(snap, job)
    [] job.kind = "cancel" ->
         [snap EXCEPT !.entries = RemoveAt(@, PlaceOf(snap, job.key))]
    [] job.kind = "mark" -> Mark(snap)
    [] job.kind = "commit" ->
         [snap EXCEPT !.entries = Tail(@), !.seq = Later(@, job.seq)]
    [] job.kind = "rebase" -> Rebase(snap, job)

CanMark(s) == s.online /\ s.status = "ready" /\ s.snap.entries # <<>>

(* Whether the mutation, at its turn, has anything to write. *)
Applies(s, job) ==
  CASE job.kind = "enqueue" -> s.status # "blocked"
    [] job.kind = "cancel" -> job.key \in KeysOf(s.snap)
    [] job.kind = "mark" -> CanMark(s)
    [] job.kind = "commit" -> s.snap.entries # <<>> /\ HeadKey(s) = job.key
    [] job.kind = "settle" -> FALSE
    [] OTHER -> TRUE

Ask(s) ==
  [s EXCEPT !.status = "sending", !.active = "pump",
            !.pump = [phase |-> "asked", aborted |-> FALSE,
                      entry |-> Head(s.snap.entries), base |-> s.snap.seq]]

(* The mutation had nothing to write. *)
Skipped(s, job) ==
  CASE job.kind = "mark" -> EndPump(s)
    [] job.kind = "commit" -> EndPump([s EXCEPT !.status = "ready"])
    [] job.kind = "settle" ->
         IF ~s.online THEN EndResync(s)
         ELSE [s EXCEPT !.active = "resync", !.revised = FALSE,
                        !.resync = [phase |-> "asked", aborted |-> FALSE,
                                    keys |-> KeysOf(s.snap)]]
    [] OTHER -> s

(* Fault: edits made during the resync are replayed without another. *)
AfterRebaseRegardless(s) == EndResync(Pump([s EXCEPT !.status = "ready"]))

AfterRebase(s) ==
  IF s.revised THEN EndResync(ScheduleRetry(s))
  ELSE EndResync(Pump([s EXCEPT !.status = "ready"]))

(* The mutation is written; its promise resolves. *)
Resumed(s, job) ==
  CASE job.kind = "enqueue" ->
         IF job.defer THEN [s EXCEPT !.deferred = @ \cup {s.snap.next - 1}]
         ELSE Pump(s)
    [] job.kind = "cancel" ->
         LET blocked == s.blocked /\ s.snap.entries # <<>>
             u == [s EXCEPT !.deferred = @ \ {job.key}, !.blocked = FALSE,
                            !.status = IF blocked THEN "blocked"
                                       ELSE IF s.online THEN "ready" ELSE "offline"]
         IN  IF blocked THEN u ELSE Pump(u)
    [] job.kind = "mark" -> IF s.online THEN Ask(s) ELSE EndPump(s)
    [] job.kind = "commit" -> EndPump([s EXCEPT !.status = "ready"])
    [] job.kind = "rebase" -> AfterRebase(s)

(* Its write failed. *)
Failed(s, job) ==
  CASE job.kind \in {"mark", "commit"} -> EndPump(ScheduleRetry(s))
    [] job.kind = "rebase" -> EndResync(ScheduleRetry(s))
    [] OTHER -> s

-----------------------------------------------------------------------------
(***************************************************************************)
(* Actions                                                                 *)
(***************************************************************************)
JournalInit ==
  /\ disk = Nothing
  /\ jn = Unopened
  /\ wire = {}
  /\ slog = <<>>
  /\ budget \in Bounds
  /\ fresh = FALSE
  /\ fate = <<>>
  /\ mishaps = {}

Spend(what) ==
  /\ budget[what] > 0
  /\ budget' = [budget EXCEPT ![what] = @ - 1]

(* A submission and a resync are under way together: an acknowledgement may
   then be older than the head the resync brought. *)
Noted(s) ==
  mishaps \cup IF /\ \/ (s.pump.phase \in {"asked", "answered"} /\ ~s.pump.aborted)
                      \/ s.pump.phase = "committing"
                   /\ s.resync.phase # "idle"
                THEN {"overlap"} ELSE {}

(* A new file is stored at once; one found is taken over. *)
Open ==
  /\ ~IsOpen
  /\ disk' = File
  /\ jn' = [Unopened EXCEPT !.status = "offline", !.snap = disk']
  /\ UNCHANGED <<wire, slog, budget, fresh, fate, mishaps>>

Enqueue(defer) ==
  /\ IsOpen /\ jn.status # "blocked"
  /\ Spend("edits")
  /\ fate' = Append(fate, "asked")
  /\ jn' = [jn EXCEPT !.revised = TRUE,
              !.jobs = Append(@, [kind |-> "enqueue", id |-> Len(fate) + 1,
                                  on |-> jn.snap.seq, defer |-> defer])]
  /\ UNCHANGED <<disk, wire, slog, fresh, mishaps>>

Release(key) ==
  /\ key \in jn.deferred
  /\ jn' = Pump([jn EXCEPT !.deferred = @ \ {key}])
  /\ UNCHANGED <<disk, wire, slog, budget, fresh, fate, mishaps>>

(* Cancelling the head aborts whatever call is under way. *)
Cancel(key) ==
  /\ key \in KeysOf(jn.snap)
  /\ Spend("cancels")
  /\ jn' = LET s == IF HeadKey(jn) = key THEN Abort(jn) ELSE jn
           IN  [s EXCEPT !.jobs = Append(@, [kind |-> "cancel", key |-> key,
                      id |-> IdOf(jn.snap, key)])]
  /\ UNCHANGED <<disk, wire, slog, fresh, fate, mishaps>>

(* The host may call again what did not get through. *)
Connect ==
  /\ IsOpen
  /\ \/ ~jn.online /\ UNCHANGED budget
     \/ jn.online /\ jn.status \notin {"ready", "sending"} /\ Spend("reconnects")
  /\ fresh' = FALSE
  /\ jn' = LET s == [jn EXCEPT !.online = TRUE, !.retry = FALSE]
           IN  IF s.resync.phase # "idle" THEN [s EXCEPT !.reconnecting = TRUE]
               ELSE Resynchronize(s)
  /\ mishaps' = Noted(jn')
  /\ UNCHANGED <<disk, wire, slog, fate>>

Disconnect ==
  /\ IsOpen /\ jn.online
  /\ Spend("drops")
  /\ jn' = [Abort(jn) EXCEPT !.online = FALSE, !.active = "none",
                             !.retry = FALSE, !.status = "offline"]
  /\ UNCHANGED <<disk, wire, slog, fresh, fate, mishaps>>

(* The page is closed, the process dies, or dispose(): what is stored stays. *)
Stop ==
  /\ IsOpen
  /\ Spend("stops")
  /\ jn' = Unopened
  /\ UNCHANGED <<disk, wire, slog, fresh, fate, mishaps>>

(* Fault: the timer goes on replaying, whatever failed before it. *)
RetryDueReplays ==
  /\ jn.retry
  /\ jn' = Pump([jn EXCEPT !.retry = FALSE, !.status = "ready"])
  /\ mishaps' = Noted(jn')
  /\ UNCHANGED <<disk, wire, slog, budget, fresh, fate>>

RetryDue ==
  /\ jn.retry
  /\ jn' = Resynchronize([jn EXCEPT !.retry = FALSE])
  /\ mishaps' = Noted(jn')
  /\ UNCHANGED <<disk, wire, slog, budget, fresh, fate>>

-----------------------------------------------------------------------------
(* The mutation whose turn it is. *)
Job == Head(jn.jobs)
Rest == [jn EXCEPT !.jobs = Tail(@), !.written = FALSE]

SkipMutation ==
  /\ jn.jobs # <<>> /\ ~jn.written
  /\ ~Applies(jn, Job)
  /\ jn' = Skipped(Rest, Job)
  /\ fate' = IF Job.kind = "enqueue" THEN [fate EXCEPT ![Job.id] = "refused"] ELSE fate
  /\ mishaps' = mishaps \cup
       IF Job.kind = "settle" /\ \E i \in 1..Len(Rest.jobs) : Rest.jobs[i].kind = "enqueue"
       THEN {"unseen edit"} ELSE {}
  /\ UNCHANGED <<disk, wire, slog, budget, fresh>>

WriteMutation ==
  /\ jn.jobs # <<>> /\ ~jn.written
  /\ Applies(jn, Job)
  /\ disk' = Writes(jn.snap, Job)
  /\ jn' = [jn EXCEPT !.written = TRUE,
                       !.blocked = (Job.kind = "cancel" /\ jn.status = "blocked")]
  /\ fate' = IF Job.kind = "cancel" THEN [fate EXCEPT ![Job.id] = "cancelled"] ELSE fate
  /\ UNCHANGED <<wire, slog, budget, fresh, mishaps>>

FailToWrite ==
  /\ jn.jobs # <<>> /\ ~jn.written
  /\ Applies(jn, Job)
  /\ Spend("unsaved")
  /\ jn' = Failed(Rest, Job)
  /\ mishaps' = mishaps \cup IF Job.kind = "cancel" THEN {"cancel unsaved"} ELSE {}
  /\ fate' = IF Job.kind = "enqueue" THEN [fate EXCEPT ![Job.id] = "refused"] ELSE fate
  /\ UNCHANGED <<disk, wire, slog, fresh>>

ResumeMutation ==
  /\ jn.jobs # <<>> /\ jn.written
  /\ jn' = Resumed([Rest EXCEPT !.snap = disk], Job)
  /\ wire' = IF jn'.pump.phase = "asked" /\ jn.pump.phase # "asked"
             THEN wire \cup {Request(jn'.pump)} ELSE wire
  /\ fate' = CASE Job.kind = "enqueue" -> [fate EXCEPT ![Job.id] = "kept"]
               [] Job.kind = "commit" -> [fate EXCEPT ![Job.id] = "acked"]
               [] OTHER -> fate
  /\ fresh' = (fresh \/ (Job.kind = "rebase" /\ ~jn.revised))
  /\ mishaps' = Noted(jn') \cup
       IF Job.kind = "cancel" /\ jn.online /\ jn.status \notin {"ready", "sending"}
       THEN {"cancel readied"} ELSE {}
  /\ UNCHANGED <<disk, slog, budget>>

-----------------------------------------------------------------------------
(***************************************************************************)
(* The two calls to the server and their answers.                          *)
(***************************************************************************)
SubmitFailed(s) ==
  LET u == Settled(s, "pump")
  IN  IF s.online /\ ~s.pump.aborted THEN EndPump(ScheduleRetry(u))
      ELSE IF ~s.online THEN EndPump([u EXCEPT !.status = "offline"])
      ELSE EndPump(u)

(* Fault: the answer to a repeated submission is held to be too old as well. *)
TooOldEvenIfKnown(s, ack) == ack.seq <= s.snap.seq

(* An answer older than what the journal knows of the log, unless it tells that the
   submission was known before. *)
TooOld(s, ack) == ack.seq <= s.snap.seq /\ ~ack.dedup

SubmitAcked(s, ack) ==
  LET u == Settled(s, "pump")
      entry == s.pump.entry
  IN  IF ~s.online \/ s.pump.aborted THEN EndPump(u)
      ELSE IF s.snap.entries = <<>> \/ HeadKey(s) # entry.key
      THEN EndPump([u EXCEPT !.status = "ready"])
      ELSE IF TooOld(s, ack)
      THEN EndPump([u EXCEPT !.status = "blocked"])
      ELSE [u EXCEPT !.pump = [phase |-> "committing"],
              !.jobs = Append(@, [kind |-> "commit", key |-> entry.key,
                                  id |-> entry.id, seq |-> ack.seq])]

(* The server: once per key, and on the head. *)
ServeSubmit(r) ==
  LET known == Position(r.key)
      fits == r.base = Len(slog)
      ack == [seq |-> IF known # {} THEN CHOOSE n \in known : TRUE
                      ELSE IF fits THEN Len(slog) + 1 ELSE 0,
              dedup |-> known # {}]
      awaited == /\ jn.pump.phase = "asked"
                 /\ jn.pump.entry.key = r.key /\ jn.pump.base = r.base
  IN  /\ wire' = wire \ {r}
      /\ slog' = IF known = {} /\ fits
                 THEN Append(slog, [key |-> r.key, id |-> r.id, on |-> r.on]) ELSE slog
      /\ jn' = IF awaited
               THEN [jn EXCEPT !.pump = [phase |-> "answered", aborted |-> @.aborted,
                                         entry |-> @.entry, base |-> @.base, ack |-> ack]]
               ELSE jn
      /\ UNCHANGED <<disk, budget, fresh, fate, mishaps>>

ServeOther ==
  /\ Spend("others")
  /\ slog' = Append(slog, [key |-> 0, id |-> 0, on |-> Len(slog)])
  /\ UNCHANGED <<disk, jn, wire, fresh, fate, mishaps>>

SubmitReturns ==
  /\ jn.pump.phase = "answered"
  /\ jn' = IF jn.pump.ack.seq = 0 THEN SubmitFailed(jn)
           ELSE SubmitAcked(jn, jn.pump.ack)
  /\ UNCHANGED <<disk, wire, slog, budget, fresh, fate, mishaps>>

(* The answer, or the request, is lost; an aborted call need not answer. *)
SubmitLost ==
  /\ jn.pump.phase = "asked"
  /\ (jn.pump.aborted /\ UNCHANGED budget) \/ Spend("lost")
  /\ jn' = SubmitFailed(jn)
  /\ \/ UNCHANGED wire
     \/ wire' = {r \in wire : r.key # jn.pump.entry.key}
  /\ UNCHANGED <<disk, slog, fresh, fate, mishaps>>

ServeResync ==
  /\ jn.resync.phase = "asked"
  /\ jn' = [jn EXCEPT !.resync = [phase |-> "answered", aborted |-> @.aborted,
                                   keys |-> @.keys, head |-> Len(slog)]]
  /\ UNCHANGED <<disk, wire, slog, budget, fresh, fate, mishaps>>

ResyncReturns ==
  /\ jn.resync.phase = "answered"
  /\ jn' = LET s == Settled(jn, "resync")
           IN  IF ~jn.online \/ jn.resync.aborted THEN EndResync(s)
               ELSE [s EXCEPT !.resync = [phase |-> "committing"],
                       !.jobs = Append(@, [kind |-> "rebase", seq |-> jn.resync.head,
                                           keys |-> jn.resync.keys])]
  /\ UNCHANGED <<disk, wire, slog, budget, fresh, fate, mishaps>>

(* The host finds that replaying would not be safe. *)
ResyncRefuses ==
  /\ jn.resync.phase = "answered" /\ ~jn.resync.aborted
  /\ jn.online /\ jn.snap.entries # <<>>
  /\ Spend("refusals")
  /\ jn' = EndResync([Settled(jn, "resync") EXCEPT !.status = "blocked"])
  /\ mishaps' = mishaps \cup {"replay refused"}
  /\ UNCHANGED <<disk, wire, slog, fresh, fate>>

ResyncLost ==
  /\ jn.resync.phase = "asked"
  /\ (jn.resync.aborted /\ UNCHANGED budget) \/ Spend("lost")
  /\ jn' = LET s == Settled(jn, "resync")
           IN  EndResync(IF jn.online /\ ~jn.resync.aborted THEN ScheduleRetry(s) ELSE s)
  /\ UNCHANGED <<disk, wire, slog, fresh, fate, mishaps>>

JournalNext ==
  \/ Open \/ Connect \/ Disconnect \/ Stop \/ RetryDue
  \/ \E defer \in BOOLEAN : Enqueue(defer)
  \/ \E key \in jn.deferred : Release(key)
  \/ \E key \in KeysOf(jn.snap) : Cancel(key)
  \/ SkipMutation \/ WriteMutation \/ FailToWrite \/ ResumeMutation
  \/ \E r \in wire : ServeSubmit(r)
  \/ ServeOther \/ SubmitReturns \/ SubmitLost
  \/ ServeResync \/ ResyncReturns \/ ResyncRefuses \/ ResyncLost

(* The host opens and connects again, releases what it deferred, its storage
   and server answer or fail, and its timers fire. *)
JournalFairness ==
  /\ WF_jvars(Open) /\ WF_jvars(~jn.online /\ Connect) /\ WF_jvars(RetryDue)
  /\ WF_jvars(\E key \in jn.deferred : Release(key))
  /\ WF_jvars(SkipMutation) /\ WF_jvars(WriteMutation) /\ WF_jvars(ResumeMutation)
  /\ WF_jvars(\E r \in wire : ServeSubmit(r))
  /\ WF_jvars(SubmitReturns) /\ WF_jvars(ServeResync) /\ WF_jvars(ResyncReturns)

JournalSpec == JournalInit /\ [][JournalNext]_jvars
JournalFairSpec == JournalSpec /\ JournalFairness

-----------------------------------------------------------------------------
(***************************************************************************)
(* Properties                                                              *)
(***************************************************************************)
IdsOf(entries) == [i \in 1..Len(entries) |-> entries[i].id]
Stored == IdsOf(File.entries)
WithLogged(ids, e) == IF e.key = 0 THEN ids ELSE Append(ids, e.id)
Logged == FoldLeft(WithLogged, <<>>, slog)
Awaiting(what) == {n \in 1..Len(fate) : fate[n] = what}

(* What the journal promises whoever submits: Outbox, an abstract outbox. *)
Promise == INSTANCE Outbox WITH
  Ids <- Numbers, outbox <- Stored, delivered <- Logged,
  withdrawn <- Awaiting("cancelled")

(* Through crashes, lost answers, failed writes and cancellations, what is in
   the file is delivered in order and once, and leaves the file only when it
   has been delivered or is cancelled (enqueue, cancel and runPump). *)
ImplementsOutbox == Promise!OutboxSpec

(* A submission the caller was told was kept stays in the file until it is in
   the log, and one acknowledged is in the log (the waiters of enqueue,
   resolved by runPump): a key used twice would break the second. *)
AcknowledgedIsLogged ==
  /\ Awaiting("acked") \subseteq ToSet(Logged)
  /\ Awaiting("kept") \subseteq ToSet(Stored) \cup ToSet(Logged)

(* What is logged was expressed on the log before it: no foreign entry lies
   between what it was made or last rebased on and its own position
   (runResynchronize and runPump). *)
Rebased ==
  \A n \in 1..Len(slog) : \A k \in (slog[n].on + 1)..(n - 1) : slog[k].key # 0

(* So it is unless a resync missed an edit, or was overtaken by an answer or a
   cancellation that made the journal ready (runResynchronize, runPump, cancel). *)
RebasedUnlessUnseen ==
  mishaps \cap {"unseen edit", "cancel readied", "overlap"} = {} => Rebased

(* Every submission that was kept is logged or cancelled in the end.  With a server
   that answers as promised the journal blocks only if the host refuses a replay
   or a resync overlaps a submission; excepted are also a cancellation of what was
   being sent that could not be saved, and one that ended a resync early (pump,
   runPump, scheduleRetry, connect). *)
EventuallyLogged ==
  \A n \in Numbers :
    n \in Awaiting("kept") ~>
      \/ n \in ToSet(Logged) \cup Awaiting("cancelled")
      \/ jn.status = "blocked" /\ "replay refused" \in mishaps
      \/ mishaps \cap {"cancel unsaved", "cancel readied", "overlap"} # {}

(* With a server that answers as promised the journal blocks only if the host refuses
   a replay, or if a resync that overlapped a submission brought a head that makes
   its acknowledgement look too old: never over what a lost answer made it send
   twice (the two checks of runPump behind its submission). *)
BlockedOnlyIfRefused ==
  jn.status = "blocked" => mishaps \cap {"replay refused", "overlap"} # {}

(* "connect() always calls the host's resync boundary before replaying": a
   submission is sent only after a resync has finished since connect(), unless
   the answer to an older submission or a cancellation ends the wait (pump). *)
ResyncBeforeReplay ==
  [][jn'.pump.phase = "asked" /\ jn.pump.phase # "asked"
       /\ mishaps' \cap {"cancel readied", "overlap"} = {} => fresh]_jvars

=============================================================================
