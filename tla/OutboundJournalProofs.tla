----------------------- MODULE OutboundJournalProofs -----------------------
(***************************************************************************)
(* The journal implements the abstract outbox, for any bounds on what      *)
(* happens.                                                                *)
(*                                                                         *)
(* A key is an ordinal of one client and stands for one submission for     *)
(* good; the invariant says so by a function f from keys to submissions    *)
(* that rises with the key, and every entry, request, answer and mutation  *)
(* bears a key and a submission that f relates.  What was sent is not      *)
(* newer than what is in the file, so the server, which takes a request    *)
(* only on the head it was based on, logs submissions in order.            *)
(***************************************************************************)
EXTENDS OutboundJournal, TLAPS, SequenceTheorems

Logging == INSTANCE Folding WITH Op <- WithLogged

EntrySet == [key : Nat, id : Nat, on : Nat]
SnapSet == [seq : Nat, next : Nat \ {0}, entries : Seq(EntrySet)]
RequestSet == [key : Nat, id : Nat, on : Nat, base : Nat]
AckSet == [seq : Nat, dedup : BOOLEAN]

PumpSet ==
  [phase : {"idle", "marking", "committing"}]
    \cup [phase : {"asked"}, aborted : BOOLEAN, entry : EntrySet, base : Nat]
    \cup [phase : {"answered"}, aborted : BOOLEAN, entry : EntrySet, base : Nat,
          ack : AckSet]

ResyncSet ==
  [phase : {"idle", "settling", "committing"}]
    \cup [phase : {"asked"}, aborted : BOOLEAN, keys : SUBSET Nat]
    \cup [phase : {"answered"}, aborted : BOOLEAN, keys : SUBSET Nat, head : Nat]

JobSet ==
  [kind : {"mark", "settle"}]
    \cup [kind : {"enqueue"}, id : Nat, on : Nat, defer : BOOLEAN]
    \cup [kind : {"cancel"}, key : Nat, id : Nat]
    \cup [kind : {"commit"}, key : Nat, id : Nat, seq : Nat]
    \cup [kind : {"rebase"}, seq : Nat, keys : SUBSET Nat]

Statuses ==
  {"closed", "offline", "ready", "sending", "resyncing", "retry-wait", "blocked"}

JournalSet ==
  [status : Statuses, online : BOOLEAN, snap : SnapSet, deferred : SUBSET Nat,
   retry : BOOLEAN, revised : BOOLEAN, reconnecting : BOOLEAN,
   active : {"none", "pump", "resync"}, pump : PumpSet, resync : ResyncSet,
   jobs : Seq(JobSet), written : BOOLEAN, blocked : BOOLEAN]

Fates == {"asked", "kept", "refused", "cancelled", "acked"}

Types ==
  /\ disk \in SnapSet \cup {Nothing}
  /\ jn \in JournalSet
  /\ wire \in SUBSET RequestSet
  /\ slog \in Seq(EntrySet)
  /\ fate \in Seq(Fates)

(* No submission is made beyond the bound. *)
WithinBounds ==
  /\ budget \in [BoundNames -> Nat]
  /\ Len(fate) + budget["edits"] <= MaxEdits

-----------------------------------------------------------------------------
Entries == File.entries
Places == 1..Len(Entries)
Held(key) == \E i \in Places : Entries[i].key = key
InLog(key) == \E p \in 1..Len(slog) : slog[p].key = key
Called == jn.pump.phase \in {"asked", "answered"}

UsedKeys == 1..(File.next - 1)
Keyed(f, x) == x.key \in UsedKeys /\ x.id = f[x.key]

(* Keys are given out in the order of the submissions. *)
NamesRise(f) ==
  /\ \A k \in UsedKeys : f[k] \in 1..Len(fate)
  /\ \A k, l \in UsedKeys : k < l => f[k] < f[l]

(* The file, and what the journal has in memory. *)
FileKeyed(f) ==
  /\ \A i \in Places : Keyed(f, Entries[i])
  /\ \A i, j \in Places : i < j => Entries[i].key < Entries[j].key
  /\ \A i \in Places : fate[Entries[i].id] # "cancelled"

MemoryKeyed(f) ==
  /\ IsOpen => disk # Nothing
  /\ ~IsOpen => jn = Unopened
  /\ IsOpen /\ ~jn.written => disk = jn.snap
  /\ \A i \in 1..Len(jn.snap.entries) : Keyed(f, jn.snap.entries[i])

(* The mutations that wait, and the one that is written. *)
Adding(i) == jn.jobs[i].kind = "enqueue"
AddsInOrder(f) ==
  /\ \A i \in 1..Len(jn.jobs) : Adding(i) =>
       /\ jn.jobs[i].id \in 1..Len(fate)
       /\ fate[jn.jobs[i].id] = "asked"
       /\ (i > 1 \/ ~jn.written) => \A k \in UsedKeys : f[k] < jn.jobs[i].id
  /\ \A i, j \in 1..Len(jn.jobs) :
       i < j /\ Adding(i) /\ Adding(j) => jn.jobs[i].id < jn.jobs[j].id

JobsKeyed(f) ==
  \A i \in 1..Len(jn.jobs) :
    /\ jn.jobs[i].kind \in {"cancel", "commit"} => Keyed(f, jn.jobs[i])
    /\ jn.jobs[i].kind = "commit" => InLog(jn.jobs[i].key)

WrittenDone ==
  jn.written =>
    /\ jn.jobs # <<>>
    /\ Job.kind # "settle"
    /\ Job.kind = "enqueue" => \E i \in Places : Entries[i].id = Job.id
    /\ Job.kind = "mark" => Entries # <<>>
    /\ Job.kind = "commit" => fate[Job.id] # "cancelled"

(* The call under way. *)
CallKeyed(f) ==
  Called => /\ Keyed(f, jn.pump.entry)
            /\ jn.pump.phase = "answered" /\ jn.pump.ack.seq # 0 => InLog(jn.pump.entry.key)

(* What may still reach the server. *)
WireKeyed(f) ==
  \A r \in wire :
    /\ Keyed(f, r)
    /\ r.base <= File.seq
    /\ \A i \in Places : r.key <= Entries[i].key
    /\ InLog(r.key) \/ Held(r.key) \/ fate[r.id] = "cancelled"

(* A newer request has a later base, and what is logged outdates older ones. *)
WireInOrder ==
  /\ \A r, q \in wire : r.key < q.key => r.base <= q.base
  /\ \A r \in wire : \A p \in 1..Len(slog) : slog[p].key > r.key => r.base < p

LogKeyed(f) ==
  \A p \in 1..Len(slog) : slog[p].key # 0 =>
    /\ Keyed(f, slog[p])
    /\ \A i \in Places : slog[p].key <= Entries[i].key

(* The log without the others' entries, and what became of submissions. *)
LoggedFits ==
  /\ Logged \in Seq(Nat)
  /\ \A p \in 1..Len(slog) : slog[p].key # 0 => slog[p].id \in ToSet(Logged)
  /\ \A i \in 1..Len(Logged) :
       \E p \in 1..Len(slog) : slog[p].key # 0 /\ slog[p].id = Logged[i]

FatesFit ==
  \A n \in 1..Len(fate) :
    /\ fate[n] = "acked" => \E p \in 1..Len(slog) : slog[p].key # 0 /\ slog[p].id = n
    /\ fate[n] = "kept" => \/ \E p \in 1..Len(slog) : slog[p].key # 0 /\ slog[p].id = n
                           \/ \E i \in Places : Entries[i].id = n

KeyedInv(f) ==
  /\ NamesRise(f) /\ FileKeyed(f) /\ MemoryKeyed(f) /\ AddsInOrder(f) /\ JobsKeyed(f)
  /\ CallKeyed(f) /\ WireKeyed(f) /\ LogKeyed(f)

PlainInv == Types /\ WithinBounds /\ WrittenDone /\ WireInOrder /\ LoggedFits /\ FatesFit

Names == [Nat -> Nat]
OutboxInv == PlainInv /\ \E f \in Names : KeyedInv(f)

-----------------------------------------------------------------------------
(* What the journal does to itself. *)

(* Mutations that matter to none of this join the queue, at its end. *)
Grown(a, b) ==
  /\ Len(a) <= Len(b)
  /\ \A i \in 1..Len(a) : b[i] = a[i]
  /\ \A i \in (Len(a) + 1)..Len(b) : b[i].kind \in {"mark", "settle"}

SameCall(c, d) ==
  d.phase \in {"asked", "answered"} =>
    /\ d.phase = c.phase /\ d.entry = c.entry /\ d.base = c.base
    /\ d.phase = "answered" => d.ack = c.ack

Calmly(s, t) ==
  /\ t \in JournalSet
  /\ t.status # "closed"
  /\ t.snap = s.snap
  /\ t.written = s.written
  /\ Grown(s.jobs, t.jobs)
  /\ SameCall(s.pump, t.pump)

Awake == {s \in JournalSet : s.status # "closed"}

(* Nothing but the fields that do not matter is different. *)
LEMMA CalmlyIfSame ==
  ASSUME NEW s \in Awake, NEW t \in Awake, t.snap = s.snap, t.written = s.written,
         t.jobs = s.jobs, t.pump = s.pump
  PROVE  Calmly(s, t)
<1>1. s.jobs \in Seq(JobSet) /\ s.jobs = t.jobs
  BY DEF Awake, JournalSet
<1>2. Grown(s.jobs, t.jobs)
  BY <1>1 DEF Grown
<1>3. SameCall(s.pump, t.pump)
  BY DEF SameCall
<1> QED
  BY <1>2, <1>3 DEF Calmly, Awake

(* One such difference after another. *)
LEMMA CalmlyTwice ==
  ASSUME NEW s \in Awake, NEW t, NEW u, Calmly(s, t), Calmly(t, u)
  PROVE  Calmly(s, u)
<1>1. /\ s.jobs \in Seq(JobSet) /\ t.jobs \in Seq(JobSet) /\ u.jobs \in Seq(JobSet)
      /\ Grown(s.jobs, t.jobs) /\ Grown(t.jobs, u.jobs)
  BY DEF Awake, JournalSet, Calmly
<1>2. Grown(s.jobs, u.jobs)
  BY <1>1, SMTT(30) DEF Grown
<1>3. SameCall(s.pump, u.pump)
  BY DEF SameCall, Calmly
<1> QED
  BY <1>2, <1>3 DEF Calmly

(* A calm step ends awake. *)
LEMMA CalmlyAwake ==
  ASSUME NEW s, NEW t, Calmly(s, t)
  PROVE  t \in Awake
BY DEF Calmly, Awake

(* A harmless mutation joins the queue. *)
LEMMA GrownByOne ==
  ASSUME NEW a \in Seq(JobSet), NEW k \in {"mark", "settle"}
  PROVE  /\ Append(a, [kind |-> k]) \in Seq(JobSet)
         /\ Grown(a, Append(a, [kind |-> k]))
<1>1. [kind |-> k] \in JobSet
  BY DEF JobSet
<1> DEFINE j == [kind |-> k]
<1>2. j.kind \in {"mark", "settle"} /\ j \in JobSet
  BY <1>1
<1> HIDE DEF j
<1>3. Append(a, j) \in Seq(JobSet) /\ Grown(a, Append(a, j))
  BY <1>2 DEF Grown
<1> QED
  BY <1>3 DEF j

(* The pump asks for its turn, or not. *)
LEMMA PumpCalm ==
  ASSUME NEW s \in Awake
  PROVE  Calmly(s, Pump(s))
<1>1. CASE s.pump.phase # "idle" \/ ~CanSend(s)
  BY <1>1, CalmlyIfSame DEF Pump
<1>2. CASE ~(s.pump.phase # "idle" \/ ~CanSend(s))
  <2> DEFINE a == Append(s.jobs, [kind |-> "mark"])
             t == [s EXCEPT !.pump = [phase |-> "marking"], !.jobs = a]
  <2>1. Pump(s) = t
    BY <1>2 DEF Pump
  <2>2. s.jobs \in Seq(JobSet)
    BY DEF Awake, JournalSet
  <2>3. a \in Seq(JobSet) /\ Grown(s.jobs, a)
    BY <2>2, GrownByOne
  <2> HIDE DEF a
  <2>4. [phase |-> "marking"] \in PumpSet
    BY DEF PumpSet
  <2>5. t \in JournalSet /\ t.status = s.status /\ t.snap = s.snap /\ t.written = s.written
        /\ t.jobs = a /\ t.pump = [phase |-> "marking"]
    BY <2>3, <2>4 DEF Awake, JournalSet
  <2> HIDE DEF t
  <2>6. SameCall(s.pump, t.pump)
    BY <2>5 DEF SameCall
  <2>7. Calmly(s, t)
    BY <2>3, <2>5, <2>6 DEF Calmly, Awake
  <2> QED
    BY <2>1, <2>7
<1> QED
  BY <1>1, <1>2

(* The pump returns. *)
LEMMA PumpIdle ==
  ASSUME NEW s \in Awake
  PROVE  Calmly(s, [s EXCEPT !.pump = Idle])
<1> DEFINE t == [s EXCEPT !.pump = Idle]
<1>1. Idle \in PumpSet
  BY DEF Idle, PumpSet
<1>2. t \in JournalSet /\ t.status = s.status /\ t.snap = s.snap /\ t.written = s.written
      /\ t.jobs = s.jobs /\ t.pump = Idle
  BY <1>1 DEF Awake, JournalSet
<1> HIDE DEF t
<1>3. SameCall(s.pump, t.pump)
  BY <1>2 DEF SameCall, Idle
<1>4. Grown(s.jobs, t.jobs)
  BY <1>2 DEF Grown, Awake, JournalSet
<1>5. Calmly(s, t)
  BY <1>2, <1>3, <1>4 DEF Calmly, Awake
<1> QED
  BY <1>5 DEF t

(* Having returned, it may go round its loop. *)
LEMMA EndPumpCalm ==
  ASSUME NEW s \in Awake
  PROVE  Calmly(s, EndPump(s))
<1> DEFINE t == [s EXCEPT !.pump = Idle]
<1>1. Calmly(s, t)
  BY PumpIdle
<1>2. t \in Awake
  BY <1>1, CalmlyAwake
<1> HIDE DEF t
<1>3. Calmly(t, Pump(t))
  BY <1>2, PumpCalm
<1> QED
  BY <1>1, <1>3, CalmlyTwice DEF EndPump, t

(* The status changes, or the flags do. *)
LEMMA StatusCalm ==
  ASSUME NEW s \in Awake, NEW v \in Statuses \ {"closed"}
  PROVE  Calmly(s, [s EXCEPT !.status = v])
<1> DEFINE t == [s EXCEPT !.status = v]
<1>1. t \in Awake /\ t.snap = s.snap /\ t.written = s.written
      /\ t.jobs = s.jobs /\ t.pump = s.pump
  BY DEF Awake, JournalSet
<1> HIDE DEF t
<1>2. Calmly(s, t)
  BY <1>1, CalmlyIfSame
<1> QED
  BY <1>2 DEF t

(* A retry is scheduled. *)
LEMMA ScheduleRetryCalm ==
  ASSUME NEW s \in Awake
  PROVE  Calmly(s, ScheduleRetry(s))
<1> DEFINE t == [s EXCEPT !.status = "retry-wait", !.retry = TRUE]
<1>1. t \in Awake /\ t.snap = s.snap /\ t.written = s.written
      /\ t.jobs = s.jobs /\ t.pump = s.pump
  BY DEF Awake, JournalSet, Statuses
<1> HIDE DEF t
<1>2. Calmly(s, t) /\ Calmly(s, s)
  BY <1>1, CalmlyIfSame
<1>3. ScheduleRetry(s) \in {s, t}
  BY DEF ScheduleRetry, t
<1> QED
  BY <1>2, <1>3

(* A resync asks for its turn, or one is under way. *)
LEMMA ResynchronizeCalm ==
  ASSUME NEW s \in Awake
  PROVE  Calmly(s, Resynchronize(s))
<1>1. CASE s.resync.phase # "idle" \/ ~s.online
  BY <1>1, CalmlyIfSame DEF Resynchronize
<1>2. CASE ~(s.resync.phase # "idle" \/ ~s.online)
  <2> DEFINE a == Append(s.jobs, [kind |-> "settle"])
             t == [s EXCEPT !.status = "resyncing", !.resync = [phase |-> "settling"],
                            !.jobs = a]
  <2>1. Resynchronize(s) = t
    BY <1>2 DEF Resynchronize
  <2>2. s.jobs \in Seq(JobSet)
    BY DEF Awake, JournalSet
  <2>3. a \in Seq(JobSet) /\ Grown(s.jobs, a)
    BY <2>2, GrownByOne
  <2> HIDE DEF a
  <2>4. [phase |-> "settling"] \in ResyncSet
    BY DEF ResyncSet
  <2>5. t \in JournalSet /\ t.status = "resyncing" /\ t.snap = s.snap
        /\ t.written = s.written /\ t.jobs = a /\ t.pump = s.pump
    BY <2>3, <2>4 DEF Awake, JournalSet, Statuses
  <2> HIDE DEF t
  <2>6. SameCall(s.pump, t.pump)
    BY <2>5 DEF SameCall
  <2>7. Calmly(s, t)
    BY <2>3, <2>5, <2>6 DEF Calmly, Awake
  <2> QED
    BY <2>1, <2>7
<1> QED
  BY <1>1, <1>2

(* A resync ends, and one that connect() waited for begins. *)
LEMMA EndResyncCalm ==
  ASSUME NEW s \in Awake
  PROVE  Calmly(s, EndResync(s))
<1> DEFINE u == [s EXCEPT !.resync = Idle, !.reconnecting = FALSE]
           v == [u EXCEPT !.retry = FALSE]
<1>0. Idle \in ResyncSet
  BY DEF Idle, ResyncSet
<1>1. u \in Awake /\ u.snap = s.snap /\ u.written = s.written
      /\ u.jobs = s.jobs /\ u.pump = s.pump
  BY <1>0 DEF Awake, JournalSet
<1>2. EndResync(s) \in {u, Resynchronize(v)}
  BY DEF EndResync
<1> HIDE DEF u
<1>3. v \in Awake /\ v.snap = s.snap /\ v.written = s.written
      /\ v.jobs = s.jobs /\ v.pump = s.pump
  BY <1>1 DEF Awake, JournalSet
<1> HIDE DEF v
<1>4. Calmly(s, u) /\ Calmly(s, v)
  BY <1>1, <1>3, CalmlyIfSame
<1>5. Calmly(v, Resynchronize(v))
  BY <1>3, ResynchronizeCalm
<1>6. Calmly(s, Resynchronize(v))
  BY <1>4, <1>5, CalmlyTwice
<1> QED
  BY <1>2, <1>4, <1>6

(* The controller of a call that has settled is let go. *)
LEMMA SettledCalm ==
  ASSUME NEW s \in Awake, NEW call
  PROVE  Calmly(s, Settled(s, call))
<1> DEFINE t == [s EXCEPT !.active = "none"]
<1>1. t \in Awake /\ t.snap = s.snap /\ t.written = s.written
      /\ t.jobs = s.jobs /\ t.pump = s.pump
  BY DEF Awake, JournalSet
<1> HIDE DEF t
<1>2. Calmly(s, t) /\ Calmly(s, s)
  BY <1>1, CalmlyIfSame
<1>3. Settled(s, call) \in {s, t}
  BY DEF Settled, t
<1> QED
  BY <1>2, <1>3

(* A call that is given up stays the same call. *)
LEMMA AbortedCall ==
  ASSUME NEW c \in PumpSet
  PROVE  /\ [c EXCEPT !.aborted = TRUE] \in PumpSet
         /\ SameCall(c, [c EXCEPT !.aborted = TRUE])
<1> DEFINE d == [c EXCEPT !.aborted = TRUE]
<1>1. CASE c \in [phase : {"idle", "marking", "committing"}]
  <2>1. d \in [phase : {"idle", "marking", "committing"}]
    BY <1>1
  <2> QED
    BY <2>1 DEF PumpSet, SameCall
<1>2. CASE c \in [phase : {"asked"}, aborted : BOOLEAN, entry : EntrySet, base : Nat]
  BY <1>2 DEF PumpSet, SameCall
<1>3. CASE c \in [phase : {"answered"}, aborted : BOOLEAN, entry : EntrySet, base : Nat,
                  ack : AckSet]
  BY <1>3 DEF PumpSet, SameCall
<1> QED
  BY <1>1, <1>2, <1>3 DEF PumpSet

(* So does a resync that is given up. *)
LEMMA AbortedResync ==
  ASSUME NEW c \in ResyncSet
  PROVE  [c EXCEPT !.aborted = TRUE] \in ResyncSet
<1> DEFINE d == [c EXCEPT !.aborted = TRUE]
<1>1. CASE c \in [phase : {"idle", "settling", "committing"}]
  <2>1. d \in [phase : {"idle", "settling", "committing"}]
    BY <1>1
  <2> QED
    BY <2>1 DEF ResyncSet
<1>2. CASE c \in [phase : {"asked"}, aborted : BOOLEAN, keys : SUBSET Nat]
  BY <1>2 DEF ResyncSet
<1>3. CASE c \in [phase : {"answered"}, aborted : BOOLEAN, keys : SUBSET Nat, head : Nat]
  BY <1>3 DEF ResyncSet
<1> QED
  BY <1>1, <1>2, <1>3 DEF ResyncSet

(* The call under way is given up. *)
LEMMA AbortCalm ==
  ASSUME NEW s \in Awake
  PROVE  Calmly(s, Abort(s))
<1> DEFINE c == IF s.active = "pump" THEN [s.pump EXCEPT !.aborted = TRUE] ELSE s.pump
           d == IF s.active = "resync" THEN [s.resync EXCEPT !.aborted = TRUE] ELSE s.resync
           t == [s EXCEPT !.pump = c, !.resync = d]
<1>0. s.pump \in PumpSet /\ s.resync \in ResyncSet
  BY DEF Awake, JournalSet
<1>1. c \in PumpSet /\ SameCall(s.pump, c)
  <2>1. SameCall(s.pump, s.pump)
    BY DEF SameCall
  <2> QED
    BY <1>0, <2>1, AbortedCall
<1>2. d \in ResyncSet
  BY <1>0, AbortedResync
<1>3. Abort(s) = t
  BY DEF Abort
<1> HIDE DEF c, d
<1>4. t \in Awake /\ t.snap = s.snap /\ t.written = s.written
      /\ t.jobs = s.jobs /\ t.pump = c
  BY <1>1, <1>2 DEF Awake, JournalSet
<1> HIDE DEF t
<1>5. Grown(s.jobs, t.jobs)
  BY <1>4 DEF Grown, Awake, JournalSet
<1>6. Calmly(s, t)
  BY <1>1, <1>4, <1>5 DEF Calmly, Awake
<1> QED
  BY <1>3, <1>6

(* A resync that is written ends, or goes round again. *)
LEMMA AfterRebaseCalm ==
  ASSUME NEW s \in Awake
  PROVE  Calmly(s, AfterRebase(s))
<1> DEFINE t == [s EXCEPT !.status = "ready"]
<1>1. Calmly(s, ScheduleRetry(s)) /\ ScheduleRetry(s) \in Awake
  BY ScheduleRetryCalm, CalmlyAwake
<1>2. Calmly(s, EndResync(ScheduleRetry(s)))
  BY <1>1, EndResyncCalm, CalmlyTwice
<1>3. Calmly(s, t) /\ t \in Awake
  BY StatusCalm, CalmlyAwake DEF Statuses
<1> HIDE DEF t
<1>4. Calmly(s, Pump(t)) /\ Pump(t) \in Awake
  BY <1>3, PumpCalm, CalmlyTwice, CalmlyAwake
<1>5. Calmly(s, EndResync(Pump(t)))
  BY <1>4, EndResyncCalm, CalmlyTwice
<1> QED
  BY <1>2, <1>5 DEF AfterRebase, t

(* The pump returns with another status. *)
LEMMA EndPumpWith ==
  ASSUME NEW s \in Awake, NEW v \in Statuses \ {"closed"}
  PROVE  Calmly(s, EndPump([s EXCEPT !.status = v]))
<1> DEFINE t == [s EXCEPT !.status = v]
<1>1. Calmly(s, t) /\ t \in Awake
  BY StatusCalm, CalmlyAwake
<1> HIDE DEF t
<1>2. Calmly(s, EndPump(t))
  BY <1>1, EndPumpCalm, CalmlyTwice
<1> QED
  BY <1>2 DEF t

(* The pump returns and leaves the rest to a retry. *)
LEMMA EndPumpRetrying ==
  ASSUME NEW s \in Awake
  PROVE  Calmly(s, EndPump(ScheduleRetry(s)))
BY ScheduleRetryCalm, CalmlyAwake, EndPumpCalm, CalmlyTwice

(* A write that fails. *)
LEMMA FailedCalm ==
  ASSUME NEW s \in Awake, NEW job
  PROVE  Calmly(s, Failed(s, job))
<1>1. Calmly(s, s)
  BY CalmlyIfSame
<1>2. Calmly(s, EndPump(ScheduleRetry(s)))
  BY EndPumpRetrying
<1>3. Calmly(s, EndResync(ScheduleRetry(s)))
  BY ScheduleRetryCalm, CalmlyAwake, EndResyncCalm, CalmlyTwice
<1> QED
  BY <1>1, <1>2, <1>3 DEF Failed

(* A mutation that has nothing to write. *)
LEMMA SkippedCalm ==
  ASSUME NEW s \in Awake, NEW job
  PROVE  Calmly(s, Skipped(s, job))
<1> DEFINE call == [phase |-> "asked", aborted |-> FALSE, keys |-> KeysOf(s.snap)]
           t == [s EXCEPT !.active = "resync", !.revised = FALSE, !.resync = call]
<1>0. KeysOf(s.snap) \in SUBSET Nat
  <2>1. s.snap.entries \in Seq(EntrySet)
    BY DEF Awake, JournalSet, SnapSet
  <2>2. ASSUME NEW i \in 1..Len(s.snap.entries) PROVE s.snap.entries[i].key \in Nat
    <3>1. s.snap.entries[i] \in EntrySet
      BY <2>1
    <3> QED
      BY <3>1 DEF EntrySet
  <2> QED
    BY <2>2 DEF KeysOf
<1>1. call \in ResyncSet
  BY <1>0 DEF ResyncSet
<1> HIDE DEF call
<1>2. t \in Awake /\ t.snap = s.snap /\ t.written = s.written
      /\ t.jobs = s.jobs /\ t.pump = s.pump
  BY <1>1 DEF Awake, JournalSet
<1> HIDE DEF t
<1>3. Calmly(s, t) /\ Calmly(s, s)
  BY <1>2, CalmlyIfSame
<1>4. CASE job.kind = "mark"
  BY <1>4, EndPumpCalm DEF Skipped
<1>5. CASE job.kind = "commit"
  BY <1>5, EndPumpWith DEF Skipped, Statuses
<1>6. CASE job.kind = "settle"
  BY <1>6, <1>3, EndResyncCalm DEF Skipped, t, call
<1>7. CASE job.kind \notin {"mark", "commit", "settle"}
  BY <1>7, <1>3 DEF Skipped
<1> QED
  BY <1>4, <1>5, <1>6, <1>7

(* A call that failed. *)
LEMMA SubmitFailedCalm ==
  ASSUME NEW s \in Awake
  PROVE  Calmly(s, SubmitFailed(s))
<1> DEFINE u == Settled(s, "pump")
<1>1. Calmly(s, u) /\ u \in Awake
  BY SettledCalm, CalmlyAwake
<1> HIDE DEF u
<1>2. Calmly(s, EndPump(ScheduleRetry(u)))
  BY <1>1, EndPumpRetrying, CalmlyTwice
<1>3. Calmly(s, EndPump([u EXCEPT !.status = "offline"]))
  BY <1>1, EndPumpWith, CalmlyTwice DEF Statuses
<1>4. Calmly(s, EndPump(u))
  BY <1>1, EndPumpCalm, CalmlyTwice
<1> QED
  BY <1>2, <1>3, <1>4 DEF SubmitFailed, u

(* An answered submission ends the pump, or is to be committed. *)
LEMMA SubmitAckedSteps ==
  ASSUME NEW s \in Awake, NEW ack
  PROVE  \/ Calmly(s, SubmitAcked(s, ack))
         \/ \E u : /\ Calmly(s, u) /\ u.pump = s.pump /\ u.jobs = s.jobs
                   /\ s.online /\ ~s.pump.aborted
                   /\ s.snap.entries # <<>> /\ HeadKey(s) = s.pump.entry.key
                   /\ ~TooOld(s, ack)
                   /\ SubmitAcked(s, ack) =
                        [u EXCEPT !.pump = [phase |-> "committing"],
                           !.jobs = Append(@, [kind |-> "commit", key |-> s.pump.entry.key,
                                               id |-> s.pump.entry.id, seq |-> ack.seq])]
<1> DEFINE u == Settled(s, "pump")
<1>1. Calmly(s, u) /\ u \in Awake
  BY SettledCalm, CalmlyAwake
<1>2. u.pump = s.pump /\ u.jobs = s.jobs
  BY DEF Settled, Awake, JournalSet
<1>3. SubmitAcked(s, ack) =
        IF ~s.online \/ s.pump.aborted THEN EndPump(u)
        ELSE IF s.snap.entries = <<>> \/ HeadKey(s) # s.pump.entry.key
        THEN EndPump([u EXCEPT !.status = "ready"])
        ELSE IF TooOld(s, ack) THEN EndPump([u EXCEPT !.status = "blocked"])
        ELSE [u EXCEPT !.pump = [phase |-> "committing"],
                !.jobs = Append(@, [kind |-> "commit", key |-> s.pump.entry.key,
                                    id |-> s.pump.entry.id, seq |-> ack.seq])]
  BY DEF SubmitAcked
<1> HIDE DEF u
<1>4. Calmly(s, EndPump(u))
  BY <1>1, EndPumpCalm, CalmlyTwice
<1>5. Calmly(s, EndPump([u EXCEPT !.status = "ready"]))
  BY <1>1, EndPumpWith, CalmlyTwice DEF Statuses
<1>6. Calmly(s, EndPump([u EXCEPT !.status = "blocked"]))
  BY <1>1, EndPumpWith, CalmlyTwice DEF Statuses
<1>7. CASE ~s.online \/ s.pump.aborted
  BY <1>3, <1>4, <1>7
<1>8. CASE ~(~s.online \/ s.pump.aborted)
           /\ (s.snap.entries = <<>> \/ HeadKey(s) # s.pump.entry.key)
  BY <1>3, <1>5, <1>8
<1>9. CASE ~(~s.online \/ s.pump.aborted)
           /\ ~(s.snap.entries = <<>> \/ HeadKey(s) # s.pump.entry.key)
           /\ TooOld(s, ack)
  BY <1>3, <1>6, <1>9
<1>10. CASE ~(~s.online \/ s.pump.aborted)
           /\ ~(s.snap.entries = <<>> \/ HeadKey(s) # s.pump.entry.key)
           /\ ~TooOld(s, ack)
  <2>1. SubmitAcked(s, ack) =
          [u EXCEPT !.pump = [phase |-> "committing"],
             !.jobs = Append(@, [kind |-> "commit", key |-> s.pump.entry.key,
                                 id |-> s.pump.entry.id, seq |-> ack.seq])]
    BY <1>3, <1>10
  <2> QED
    BY <1>1, <1>2, <1>10, <2>1
<1> QED
  BY <1>7, <1>8, <1>9, <1>10

(* A written mutation resumes calmly, or the pump goes on to its call. *)
LEMMA ResumedSteps ==
  ASSUME NEW s \in Awake, NEW job \in JobSet, job.kind # "settle"
  PROVE  \/ Calmly(s, Resumed(s, job))
         \/ job.kind = "mark" /\ s.online /\ Resumed(s, job) = Ask(s)
<1>1. CASE job.kind = "enqueue"
  <2> DEFINE t == [s EXCEPT !.deferred = @ \cup {s.snap.next - 1}]
  <2>1. s.deferred \in SUBSET Nat /\ s.snap.next - 1 \in Nat
    BY DEF Awake, JournalSet, SnapSet
  <2>2. t \in Awake /\ t.snap = s.snap /\ t.written = s.written
        /\ t.jobs = s.jobs /\ t.pump = s.pump
    <3> DEFINE d == s.deferred \cup {s.snap.next - 1}
    <3>1. d \in SUBSET Nat
      BY <2>1
    <3> HIDE DEF d
    <3>2. t = [s EXCEPT !.deferred = d]
      BY DEF d
    <3> QED
      BY <3>1, <3>2 DEF Awake, JournalSet
  <2> HIDE DEF t
  <2>3. Calmly(s, t)
    BY <2>2, CalmlyIfSame
  <2>4. Resumed(s, job) = IF job.defer THEN t ELSE Pump(s)
    BY <1>1 DEF Resumed, t
  <2> QED
    BY <2>3, <2>4, PumpCalm
<1>2. CASE job.kind = "cancel"
  <2> DEFINE b == s.blocked /\ s.snap.entries # <<>>
             v == IF b THEN "blocked" ELSE IF s.online THEN "ready" ELSE "offline"
             d == s.deferred \ {job.key}
             t == [s EXCEPT !.deferred = d, !.blocked = FALSE, !.status = v]
  <2>1. d \in SUBSET Nat /\ v \in Statuses \ {"closed"}
    BY DEF Awake, JournalSet, Statuses
  <2>2. Resumed(s, job) = IF b THEN t ELSE Pump(t)
    BY <1>2 DEF Resumed
  <2> HIDE DEF d, v, b
  <2>3. t \in Awake /\ t.snap = s.snap /\ t.written = s.written
        /\ t.jobs = s.jobs /\ t.pump = s.pump
    BY <2>1 DEF Awake, JournalSet
  <2> HIDE DEF t
  <2>4. Calmly(s, t)
    BY <2>3, CalmlyIfSame
  <2>5. Calmly(s, Pump(t))
    BY <2>3, <2>4, PumpCalm, CalmlyTwice
  <2> QED
    BY <2>2, <2>4, <2>5
<1>3. CASE job.kind = "mark"
  <2>1. Resumed(s, job) = IF s.online THEN Ask(s) ELSE EndPump(s)
    BY <1>3 DEF Resumed
  <2> QED
    BY <1>3, <2>1, EndPumpCalm
<1>4. CASE job.kind = "commit"
  BY <1>4, EndPumpWith DEF Resumed, Statuses
<1>5. CASE job.kind = "rebase"
  BY <1>5, AfterRebaseCalm DEF Resumed
<1>6. job.kind \in {"mark", "enqueue", "cancel", "commit", "rebase"}
  BY DEF JobSet
<1> QED
  BY <1>1, <1>2, <1>3, <1>4, <1>5, <1>6

(* What the pump asks for. *)
LEMMA AskSteps ==
  ASSUME NEW s \in Awake, s.snap.entries # <<>>
  PROVE  /\ Ask(s) \in Awake
         /\ Ask(s).snap = s.snap /\ Ask(s).written = s.written /\ Ask(s).jobs = s.jobs
         /\ Ask(s).pump.phase = "asked"
         /\ Ask(s).pump.entry = s.snap.entries[1]
         /\ Ask(s).pump.base = s.snap.seq
<1> DEFINE c == [phase |-> "asked", aborted |-> FALSE,
                 entry |-> Head(s.snap.entries), base |-> s.snap.seq]
           t == [s EXCEPT !.status = "sending", !.active = "pump", !.pump = c]
<1>1. s.snap.entries \in Seq(EntrySet) /\ s.snap.seq \in Nat
  BY DEF Awake, JournalSet, SnapSet
<1>2. Head(s.snap.entries) = s.snap.entries[1] /\ Head(s.snap.entries) \in EntrySet
  BY <1>1
<1>3. c \in PumpSet /\ c.phase = "asked" /\ c.entry = s.snap.entries[1]
      /\ c.base = s.snap.seq
  BY <1>1, <1>2 DEF PumpSet
<1>4. Ask(s) = t
  BY DEF Ask
<1> HIDE DEF c
<1>5. t \in Awake /\ t.snap = s.snap /\ t.written = s.written /\ t.jobs = s.jobs
      /\ t.pump = c
  BY <1>3 DEF Awake, JournalSet, Statuses
<1> QED
  BY <1>3, <1>4, <1>5

-----------------------------------------------------------------------------
(* What a step leaves of the invariant. *)

LogGrows ==
  /\ Len(slog) <= Len(slog')
  /\ \A p \in 1..Len(slog) : slog'[p] = slog[p]

(* The names given so far stand. *)
Extends(f, g) ==
  /\ UsedKeys \subseteq UsedKeys'
  /\ \A k \in UsedKeys : g[k] = f[k]

SameDrops ==
  /\ Len(fate) <= Len(fate')
  /\ \A n \in 1..Len(fate) : (fate'[n] = "cancelled") <=> (fate[n] = "cancelled")

(* Keyed and InLog of a value, after the step. *)
KeyedNext(g, x) == x.key \in UsedKeys' /\ x.id = g[x.key]
InLogNext(key) == \E p \in 1..Len(slog') : slog'[p].key = key

(* A mutation that waits was waiting, the first k being done, or is harmless. *)
Harmless(f, job) ==
  \/ job.kind \in {"mark", "settle", "rebase"}
  \/ job.kind = "cancel" /\ Keyed(f, job)
  \/ job.kind = "commit" /\ Keyed(f, job) /\ InLog(job.key)

Moves(f, k) ==
  \A i \in 1..Len(jn'.jobs) :
    \/ Harmless(f, jn'.jobs[i])
    \/ /\ i + k \in 1..Len(jn.jobs)
       /\ jn'.jobs[i] = jn.jobs[i + k]

(* Those that add are still to be asked for, as newer ones than the file's. *)
StillAdding(g, k) ==
  \A i \in 1..Len(jn.jobs) : i > k /\ Adding(i) =>
    /\ jn.jobs[i].id \in 1..Len(fate')
    /\ fate'[jn.jobs[i].id] = "asked"
    /\ (i > 1 \/ ~jn'.written) => \A l \in UsedKeys' : g[l] < jn.jobs[i].id

(* What is in the log stays in it. *)
LEMMA InLogGrows ==
  ASSUME Types, Types', LogGrows, NEW key, InLog(key)
  PROVE  InLogNext(key)
<1>1. PICK p \in 1..Len(slog) : slog[p].key = key
  BY DEF InLog
<1>3. p \in 1..Len(slog')
  BY <1>1 DEF LogGrows, Types
<1>4. slog'[p].key = key
  BY <1>1 DEF LogGrows
<1> QED
  BY <1>3, <1>4 DEF InLogNext

(* A name that was given stands. *)
LEMMA KeyedStays ==
  ASSUME NEW f, NEW g, Extends(f, g), NEW x, Keyed(f, x)
  PROVE  KeyedNext(g, x)
BY DEF Extends, Keyed, KeyedNext

(* Mutations leave the head of the queue and join its end. *)
LEMMA JobsMove ==
  ASSUME Types, Types', NEW f, NEW g, NEW k \in {0, 1},
         AddsInOrder(f), JobsKeyed(f), Extends(f, g), LogGrows,
         Moves(f, k), StillAdding(g, k), k = 0 \/ ~jn'.written
  PROVE  AddsInOrder(g)' /\ JobsKeyed(g)'
<1>1. jn.jobs \in Seq(JobSet) /\ jn'.jobs \in Seq(JobSet)
  BY DEF Types, JournalSet
<1>2. ASSUME NEW i \in 1..Len(jn'.jobs), Adding(i)'
      PROVE  /\ i + k \in 1..Len(jn.jobs) /\ jn'.jobs[i] = jn.jobs[i + k]
             /\ i + k > k /\ Adding(i + k)
  <2>1. ~Harmless(f, jn'.jobs[i])
    BY <1>2 DEF Adding, Harmless
  <2>2. i + k \in 1..Len(jn.jobs) /\ jn'.jobs[i] = jn.jobs[i + k]
    BY <2>1 DEF Moves
  <2> QED
    BY <1>2, <2>2 DEF Adding
<1>3. ASSUME NEW i \in 1..Len(jn'.jobs), Adding(i)'
      PROVE  /\ jn'.jobs[i].id \in 1..Len(fate')
             /\ fate'[jn'.jobs[i].id] = "asked"
             /\ (i > 1 \/ ~jn'.written) => \A l \in UsedKeys' : g[l] < jn'.jobs[i].id
  <2>1. i + k \in 1..Len(jn.jobs) /\ jn'.jobs[i] = jn.jobs[i + k] /\ i + k > k
        /\ Adding(i + k)
    BY <1>2, <1>3
  <2>2. (i > 1 \/ ~jn'.written) => (i + k > 1 \/ ~jn'.written)
    BY <1>1
  <2> QED
    BY <2>1, <2>2 DEF StillAdding
<1>4. ASSUME NEW i \in 1..Len(jn'.jobs), NEW j \in 1..Len(jn'.jobs),
             i < j, Adding(i)', Adding(j)'
      PROVE  jn'.jobs[i].id < jn'.jobs[j].id
  <2>1. /\ i + k \in 1..Len(jn.jobs) /\ jn'.jobs[i] = jn.jobs[i + k] /\ Adding(i + k)
        /\ j + k \in 1..Len(jn.jobs) /\ jn'.jobs[j] = jn.jobs[j + k] /\ Adding(j + k)
    BY <1>2, <1>4
  <2>2. i + k < j + k
    BY <1>1, <1>4
  <2> QED
    BY <2>1, <2>2 DEF AddsInOrder
<1>5. AddsInOrder(g)'
  BY <1>3, <1>4 DEF AddsInOrder
<1>6. ASSUME NEW i \in 1..Len(jn'.jobs)
      PROVE  /\ jn'.jobs[i].kind \in {"cancel", "commit"} => Keyed(f, jn'.jobs[i])
             /\ jn'.jobs[i].kind = "commit" => InLog(jn'.jobs[i].key)
  <2>1. CASE Harmless(f, jn'.jobs[i])
    BY <2>1 DEF Harmless
  <2>2. CASE i + k \in 1..Len(jn.jobs) /\ jn'.jobs[i] = jn.jobs[i + k]
    BY <2>2 DEF JobsKeyed
  <2> QED
    BY <2>1, <2>2 DEF Moves
<1>7. ASSUME NEW i \in 1..Len(jn'.jobs)
      PROVE  /\ jn'.jobs[i].kind \in {"cancel", "commit"} => KeyedNext(g, jn'.jobs[i])
             /\ jn'.jobs[i].kind = "commit" => InLogNext(jn'.jobs[i].key)
  BY <1>6, <1>7, KeyedStays, InLogGrows
<1>8. JobsKeyed(g)'
  BY <1>7 DEF JobsKeyed, KeyedNext, InLogNext, Keyed, InLog
<1> QED
  BY <1>5, <1>8

(* The call under way stays the call under way. *)
LEMMA CallStays ==
  ASSUME Types, Types', NEW f, NEW g, CallKeyed(f), Extends(f, g), LogGrows,
         SameCall(jn.pump, jn'.pump)
  PROVE  CallKeyed(g)'
<1> SUFFICES ASSUME Called'
             PROVE  /\ KeyedNext(g, jn'.pump.entry)
                    /\ jn'.pump.phase = "answered" /\ jn'.pump.ack.seq # 0
                         => InLogNext(jn'.pump.entry.key)
  BY DEF CallKeyed, Keyed, InLog, KeyedNext, InLogNext
<1>1. /\ jn'.pump.phase = jn.pump.phase /\ jn'.pump.entry = jn.pump.entry
      /\ jn'.pump.phase = "answered" => jn'.pump.ack = jn.pump.ack
  BY DEF SameCall, Called
<1>2. Called
  BY <1>1 DEF Called
<1>3. Keyed(f, jn'.pump.entry)
  BY <1>1, <1>2 DEF CallKeyed
<1>4. jn'.pump.phase = "answered" /\ jn'.pump.ack.seq # 0 => InLog(jn'.pump.entry.key)
  BY <1>1, <1>2 DEF CallKeyed
<1> QED
  BY <1>3, <1>4, KeyedStays, InLogGrows

(* A step that leaves the file and the log alone. *)
LEMMA FileStays ==
  ASSUME Types, Types', NEW f \in Names, NamesRise(f), FileKeyed(f), WireKeyed(f), LogKeyed(f),
         WireInOrder, LoggedFits, File' = File, slog' = slog, wire' \subseteq wire, SameDrops
  PROVE  /\ NamesRise(f)' /\ FileKeyed(f)' /\ WireKeyed(f)' /\ LogKeyed(f)'
         /\ WireInOrder' /\ LoggedFits'
<1>1. UsedKeys' = UsedKeys /\ Entries' = Entries /\ Places' = Places
  BY DEF UsedKeys, Entries, Places
<1>2. Len(fate) \in Nat /\ Len(fate') \in Nat /\ Len(fate) <= Len(fate')
  BY DEF Types, SameDrops
<1>3. \A k \in UsedKeys : f[k] \in 1..Len(fate) /\ f[k] \in 1..Len(fate')
  BY <1>2 DEF NamesRise
<1>4. NamesRise(f)'
  BY <1>1, <1>3 DEF NamesRise
<1>5. ASSUME NEW x, Keyed(f, x)
      PROVE  KeyedNext(f, x) /\ ((fate'[x.id] = "cancelled") <=> (fate[x.id] = "cancelled"))
  BY <1>1, <1>3, <1>5 DEF Keyed, KeyedNext, SameDrops
<1>6. FileKeyed(f)'
  <2>1. \A i \in Places : KeyedNext(f, Entries[i]) /\ fate'[Entries[i].id] # "cancelled"
    BY <1>5 DEF FileKeyed
  <2> QED
    BY <1>1, <2>1 DEF FileKeyed, Keyed, KeyedNext
<1>7. WireKeyed(f)'
  <2>1. ASSUME NEW r \in wire'
        PROVE  /\ KeyedNext(f, r)
               /\ r.base <= File.seq
               /\ \A i \in Places : r.key <= Entries[i].key
               /\ InLog(r.key) \/ Held(r.key) \/ fate'[r.id] = "cancelled"
    <3>1. r \in wire
      OBVIOUS
    <3>2. /\ Keyed(f, r)
          /\ r.base <= File.seq
          /\ \A i \in Places : r.key <= Entries[i].key
          /\ InLog(r.key) \/ Held(r.key) \/ fate[r.id] = "cancelled"
      BY <3>1 DEF WireKeyed
    <3> QED
      BY <3>2, <1>5
  <2> QED
    BY <1>1, <2>1 DEF WireKeyed, Keyed, KeyedNext, InLog, Held
<1>8. LogKeyed(f)'
  BY <1>1 DEF LogKeyed, Keyed
<1>9. WireInOrder'
  BY DEF WireInOrder
<1>10. LoggedFits'
  BY DEF LoggedFits, Logged
<1> QED
  BY <1>4, <1>6, <1>7, <1>8, <1>9, <1>10

-----------------------------------------------------------------------------
(* Steps that leave the file, the log and what became of submissions alone. *)

Joined(f) ==
  /\ Len(jn.jobs) <= Len(jn'.jobs)
  /\ \A i \in 1..Len(jn.jobs) : jn'.jobs[i] = jn.jobs[i]
  /\ \A i \in (Len(jn.jobs) + 1)..Len(jn'.jobs) : Harmless(f, jn'.jobs[i])

(* A step of the journal that writes nothing. *)
LEMMA QuietKeeps ==
  ASSUME PlainInv, NEW f \in Names, KeyedInv(f), IsOpen, jn' \in Awake,
         jn'.snap = jn.snap, jn'.written = jn.written, Joined(f), CallKeyed(f)',
         disk' = disk, slog' = slog, fate' = fate, wire' \subseteq wire, WithinBounds'
  PROVE  PlainInv' /\ KeyedInv(f)'
<1>1. /\ Types /\ WrittenDone /\ WireInOrder /\ LoggedFits /\ FatesFit
      /\ NamesRise(f) /\ FileKeyed(f) /\ MemoryKeyed(f) /\ AddsInOrder(f) /\ JobsKeyed(f)
      /\ CallKeyed(f) /\ WireKeyed(f) /\ LogKeyed(f)
  BY DEF PlainInv, KeyedInv
<1>2. Types'
  BY <1>1 DEF Types, Awake
<1>3. /\ File' = File /\ UsedKeys' = UsedKeys /\ Entries' = Entries /\ Places' = Places
      /\ IsOpen'
  BY DEF File, UsedKeys, Entries, Places, Awake, IsOpen
<1>4. SameDrops
  BY <1>1 DEF SameDrops, Types
<1>5. /\ NamesRise(f)' /\ FileKeyed(f)' /\ WireKeyed(f)' /\ LogKeyed(f)'
      /\ WireInOrder' /\ LoggedFits'
  BY <1>1, <1>2, <1>3, <1>4, FileStays
<1>6. MemoryKeyed(f)'
  BY <1>1, <1>3 DEF MemoryKeyed, Keyed
<1>7. jn.jobs \in Seq(JobSet) /\ jn'.jobs \in Seq(JobSet)
  BY <1>1, <1>2 DEF Types, JournalSet
<1>8. AddsInOrder(f)' /\ JobsKeyed(f)'
  <2>1. Moves(f, 0)
    BY <1>7 DEF Moves, Joined
  <2>2. StillAdding(f, 0)
    BY <1>1, <1>3 DEF StillAdding, AddsInOrder
  <2>3. Extends(f, f) /\ LogGrows
    BY <1>1, <1>3 DEF Extends, LogGrows, Types
  <2> QED
    BY <1>1, <1>2, <2>1, <2>2, <2>3, JobsMove
<1>9. WrittenDone'
  <2> SUFFICES ASSUME jn.written PROVE WrittenDone'
    BY DEF WrittenDone
  <2>1. jn.jobs # <<>> /\ jn'.jobs # <<>> /\ Job' = Job
    BY <1>1, <1>7 DEF WrittenDone, Joined, Job
  <2> QED
    BY <1>1, <1>3, <2>1 DEF WrittenDone
<1>10. FatesFit'
  BY <1>1, <1>3 DEF FatesFit
<1> QED
  BY <1>1, <1>2, <1>5, <1>6, <1>8, <1>9, <1>10 DEF PlainInv, KeyedInv

(* Such a step that is calm. *)
LEMMA CalmKeeps ==
  ASSUME PlainInv, NEW f \in Names, KeyedInv(f), IsOpen, Calmly(jn, jn'),
         disk' = disk, slog' = slog, fate' = fate, wire' \subseteq wire, WithinBounds'
  PROVE  PlainInv' /\ KeyedInv(f)'
<1>1. /\ jn' \in Awake /\ jn'.snap = jn.snap /\ jn'.written = jn.written
      /\ Grown(jn.jobs, jn'.jobs) /\ SameCall(jn.pump, jn'.pump)
  BY DEF Calmly, Awake
<1>2. Types /\ CallKeyed(f)
  BY DEF PlainInv, KeyedInv
<1>3. Types'
  BY <1>1, <1>2 DEF Types, Awake
<1>4. Joined(f)
  BY <1>1 DEF Joined, Grown, Harmless
<1>5. Extends(f, f) /\ LogGrows
  BY <1>2 DEF Extends, LogGrows, UsedKeys, File, Types
<1>6. CallKeyed(f)'
  BY <1>1, <1>2, <1>3, <1>5, CallStays
<1> QED
  BY <1>1, <1>4, <1>6, QuietKeeps

(* What is left of the bounds. *)
LEMMA SpendKeeps ==
  ASSUME WithinBounds, NEW what \in BoundNames \ {"edits"},
         Spend(what) \/ budget' = budget, fate' = fate
  PROVE  WithinBounds'
<1>1. budget["edits"] = budget'["edits"] /\ budget' \in [BoundNames -> Nat]
  <2>1. CASE Spend(what)
    BY <2>1 DEF Spend, WithinBounds, BoundNames
  <2> QED
    BY <2>1 DEF WithinBounds
<1> QED
  BY <1>1 DEF WithinBounds

(* The journal before any such step. *)
LEMMA OpenJournal ==
  ASSUME PlainInv, IsOpen
  PROVE  jn \in Awake /\ Types /\ WithinBounds
BY DEF PlainInv, Types, Awake, IsOpen

(* A mutation of its own joins the queue. *)
LEMMA JoinedByOne ==
  ASSUME NEW f, NEW s, jn \in Awake, Calmly(jn, s), NEW job \in JobSet, Harmless(f, job),
         jn'.jobs = Append(s.jobs, job)
  PROVE  Joined(f) /\ jn'.jobs \in Seq(JobSet)
<1>1. jn.jobs \in Seq(JobSet) /\ s.jobs \in Seq(JobSet) /\ Grown(jn.jobs, s.jobs)
  BY DEF Calmly, Awake, JournalSet
<1>2. /\ jn'.jobs \in Seq(JobSet)
      /\ Len(jn'.jobs) = Len(s.jobs) + 1
      /\ \A i \in 1..Len(s.jobs) : jn'.jobs[i] = s.jobs[i]
      /\ jn'.jobs[Len(s.jobs) + 1] = job
  BY <1>1
<1>3. Len(jn.jobs) \in Nat /\ Len(s.jobs) \in Nat
  BY <1>1
<1>4. ASSUME NEW i \in (Len(jn.jobs) + 1)..Len(jn'.jobs)
      PROVE  Harmless(f, jn'.jobs[i])
  <2>1. CASE i = Len(s.jobs) + 1
    BY <1>2, <2>1
  <2>2. CASE i # Len(s.jobs) + 1
    <3>1. i \in (Len(jn.jobs) + 1)..Len(s.jobs) /\ i \in 1..Len(s.jobs)
      BY <1>2, <1>3, <2>2
    <3> QED
      BY <1>1, <1>2, <3>1 DEF Grown, Harmless
  <2> QED
    BY <2>1, <2>2
<1>5. Len(jn.jobs) <= Len(jn'.jobs)
      /\ \A i \in 1..Len(jn.jobs) : jn'.jobs[i] = jn.jobs[i]
  BY <1>1, <1>2, <1>3 DEF Grown
<1> QED
  BY <1>2, <1>4, <1>5 DEF Joined

Closed == ~IsOpen => jn = Unopened

Quiet ==
  /\ IsOpen /\ Calmly(jn, jn')
  /\ disk' = disk /\ slog' = slog /\ fate' = fate /\ wire' \subseteq wire
  /\ WithinBounds'

(* A journal that does anything is open. *)
LEMMA OpenIfBusy ==
  ASSUME Closed,
         \/ jn.deferred # {} \/ jn.retry \/ jn.jobs # <<>>
         \/ jn.pump.phase # "idle" \/ jn.resync.phase # "idle"
  PROVE  IsOpen
BY DEF Closed, Unopened, Idle

(* The host releases what it deferred. *)
LEMMA ReleaseQuiet ==
  ASSUME PlainInv, Closed, NEW key \in jn.deferred, Release(key)
  PROVE  Quiet
<1> DEFINE d == jn.deferred \ {key}
           t == [jn EXCEPT !.deferred = d]
<1>1. IsOpen
  BY OpenIfBusy
<1>2. jn \in Awake /\ WithinBounds
  BY <1>1, OpenJournal
<1>3. d \in SUBSET Nat
  BY <1>2 DEF Awake, JournalSet
<1>4. jn' = Pump(t)
  BY DEF Release
<1> HIDE DEF d
<1>5. t \in Awake /\ t.snap = jn.snap /\ t.written = jn.written
      /\ t.jobs = jn.jobs /\ t.pump = jn.pump
  BY <1>2, <1>3 DEF Awake, JournalSet
<1> HIDE DEF t
<1>6. Calmly(jn, jn')
  BY <1>2, <1>4, <1>5, CalmlyIfSame, PumpCalm, CalmlyTwice
<1> QED
  BY <1>1, <1>2, <1>6 DEF Quiet, Release, WithinBounds

(* connect(). *)
LEMMA ConnectQuiet ==
  ASSUME PlainInv, Connect
  PROVE  Quiet
<1> DEFINE s == [jn EXCEPT !.online = TRUE, !.retry = FALSE]
           t == [s EXCEPT !.reconnecting = TRUE]
<1>1. IsOpen /\ jn \in Awake /\ WithinBounds
  BY OpenJournal DEF Connect
<1>2. s \in Awake /\ s.snap = jn.snap /\ s.written = jn.written
      /\ s.jobs = jn.jobs /\ s.pump = jn.pump
  BY <1>1 DEF Awake, JournalSet
<1>3. jn' \in {t, Resynchronize(s)}
  BY DEF Connect
<1> HIDE DEF s
<1>4. t \in Awake /\ t.snap = s.snap /\ t.written = s.written
      /\ t.jobs = s.jobs /\ t.pump = s.pump
  BY <1>2 DEF Awake, JournalSet
<1> HIDE DEF t
<1>5. Calmly(jn, s) /\ Calmly(s, t) /\ Calmly(s, Resynchronize(s))
  BY <1>1, <1>2, <1>4, CalmlyIfSame, ResynchronizeCalm
<1>6. Calmly(jn, jn')
  BY <1>1, <1>3, <1>5, CalmlyTwice
<1>7. Spend("reconnects") \/ budget' = budget
  BY DEF Connect
<1>8. WithinBounds'
  BY <1>1, <1>7, SpendKeeps DEF BoundNames, Connect
<1> QED
  BY <1>1, <1>6, <1>8 DEF Quiet, Connect

(* disconnect(). *)
LEMMA DisconnectQuiet ==
  ASSUME PlainInv, Disconnect
  PROVE  Quiet
<1> DEFINE s == Abort(jn)
           t == [s EXCEPT !.online = FALSE, !.active = "none",
                          !.retry = FALSE, !.status = "offline"]
<1>1. IsOpen /\ jn \in Awake /\ WithinBounds
  BY OpenJournal DEF Disconnect
<1>2. Calmly(jn, s) /\ s \in Awake
  BY <1>1, AbortCalm, CalmlyAwake
<1>3. jn' = t
  BY DEF Disconnect
<1> HIDE DEF s
<1>4. t \in Awake /\ t.snap = s.snap /\ t.written = s.written
      /\ t.jobs = s.jobs /\ t.pump = s.pump
  BY <1>2 DEF Awake, JournalSet, Statuses
<1> HIDE DEF t
<1>5. Calmly(jn, jn')
  BY <1>1, <1>2, <1>3, <1>4, CalmlyIfSame, CalmlyTwice
<1>6. WithinBounds'
  BY <1>1, SpendKeeps DEF BoundNames, Disconnect
<1> QED
  BY <1>1, <1>5, <1>6 DEF Quiet, Disconnect

(* The retry timer fires. *)
LEMMA RetryDueQuiet ==
  ASSUME PlainInv, Closed, RetryDue
  PROVE  Quiet
<1> DEFINE t == [jn EXCEPT !.retry = FALSE]
<1>1. IsOpen
  BY OpenIfBusy DEF RetryDue
<1>2. jn \in Awake /\ WithinBounds
  BY <1>1, OpenJournal
<1>3. jn' = Resynchronize(t)
  BY DEF RetryDue
<1>4. t \in Awake /\ t.snap = jn.snap /\ t.written = jn.written
      /\ t.jobs = jn.jobs /\ t.pump = jn.pump
  BY <1>2 DEF Awake, JournalSet
<1> HIDE DEF t
<1>5. Calmly(jn, jn')
  BY <1>2, <1>3, <1>4, CalmlyIfSame, ResynchronizeCalm, CalmlyTwice
<1> QED
  BY <1>1, <1>2, <1>5 DEF Quiet, RetryDue, WithinBounds

(* A request or its answer is lost. *)
LEMMA SubmitLostQuiet ==
  ASSUME PlainInv, Closed, SubmitLost
  PROVE  Quiet
<1>1. IsOpen
  BY OpenIfBusy DEF SubmitLost
<1>2. jn \in Awake /\ WithinBounds
  BY <1>1, OpenJournal
<1>3. Calmly(jn, jn')
  BY <1>2, SubmitFailedCalm DEF SubmitLost
<1>4. Spend("lost") \/ budget' = budget
  BY DEF SubmitLost
<1>5. WithinBounds'
  BY <1>2, <1>4, SpendKeeps DEF BoundNames, SubmitLost
<1> QED
  BY <1>1, <1>3, <1>5 DEF Quiet, SubmitLost

(* The server answers a resync. *)
LEMMA ServeResyncQuiet ==
  ASSUME PlainInv, Closed, ServeResync
  PROVE  Quiet
<1> DEFINE c == [phase |-> "answered", aborted |-> jn.resync.aborted,
                 keys |-> jn.resync.keys, head |-> Len(slog)]
<1>1. IsOpen
  BY OpenIfBusy DEF ServeResync
<1>2. jn \in Awake /\ WithinBounds /\ Types
  BY <1>1, OpenJournal
<1>3. c \in ResyncSet
  <2>1. jn.resync \in [phase : {"asked"}, aborted : BOOLEAN, keys : SUBSET Nat]
    BY <1>2 DEF Awake, JournalSet, ResyncSet, ServeResync
  <2>2. Len(slog) \in Nat
    BY <1>2 DEF Types
  <2> QED
    BY <2>1, <2>2 DEF ResyncSet
<1>4. jn' = [jn EXCEPT !.resync = c]
  BY DEF ServeResync
<1> HIDE DEF c
<1>5. jn' \in Awake /\ jn'.snap = jn.snap /\ jn'.written = jn.written
      /\ jn'.jobs = jn.jobs /\ jn'.pump = jn.pump
  BY <1>2, <1>3, <1>4 DEF Awake, JournalSet
<1>6. Calmly(jn, jn')
  BY <1>2, <1>5, CalmlyIfSame
<1> QED
  BY <1>1, <1>2, <1>6 DEF Quiet, ServeResync, WithinBounds

(* The host refuses to replay. *)
LEMMA ResyncRefusesQuiet ==
  ASSUME PlainInv, Closed, ResyncRefuses
  PROVE  Quiet
<1> DEFINE s == Settled(jn, "resync")
           t == [s EXCEPT !.status = "blocked"]
<1>1. IsOpen
  BY OpenIfBusy DEF ResyncRefuses
<1>2. jn \in Awake /\ WithinBounds
  BY <1>1, OpenJournal
<1>3. Calmly(jn, s) /\ s \in Awake
  BY <1>2, SettledCalm, CalmlyAwake
<1>4. jn' = EndResync(t)
  BY DEF ResyncRefuses
<1> HIDE DEF s
<1>5. Calmly(jn, t) /\ t \in Awake
  BY <1>2, <1>3, StatusCalm, CalmlyTwice, CalmlyAwake DEF Statuses
<1> HIDE DEF t
<1>6. Calmly(jn, jn')
  BY <1>2, <1>4, <1>5, EndResyncCalm, CalmlyTwice
<1>7. WithinBounds'
  BY <1>2, SpendKeeps DEF BoundNames, ResyncRefuses
<1> QED
  BY <1>1, <1>6, <1>7 DEF Quiet, ResyncRefuses

(* A resync or its answer is lost. *)
LEMMA ResyncLostQuiet ==
  ASSUME PlainInv, Closed, ResyncLost
  PROVE  Quiet
<1> DEFINE s == Settled(jn, "resync")
<1>1. IsOpen
  BY OpenIfBusy DEF ResyncLost
<1>2. jn \in Awake /\ WithinBounds
  BY <1>1, OpenJournal
<1>3. Calmly(jn, s) /\ s \in Awake
  BY <1>2, SettledCalm, CalmlyAwake
<1>4. jn' \in {EndResync(ScheduleRetry(s)), EndResync(s)}
  BY DEF ResyncLost
<1> HIDE DEF s
<1>5. Calmly(jn, EndResync(s))
  BY <1>2, <1>3, EndResyncCalm, CalmlyTwice
<1>6. Calmly(jn, ScheduleRetry(s)) /\ ScheduleRetry(s) \in Awake
  BY <1>2, <1>3, ScheduleRetryCalm, CalmlyTwice, CalmlyAwake
<1>7. Calmly(jn, EndResync(ScheduleRetry(s)))
  BY <1>2, <1>6, EndResyncCalm, CalmlyTwice
<1>8. Calmly(jn, jn')
  BY <1>4, <1>5, <1>7
<1>9. Spend("lost") \/ budget' = budget
  BY DEF ResyncLost
<1>10. WithinBounds'
  BY <1>2, <1>9, SpendKeeps DEF BoundNames, ResyncLost
<1> QED
  BY <1>1, <1>8, <1>10 DEF Quiet, ResyncLost

(* The head the resync brought is to be written. *)
LEMMA ResyncReturnsKeeps ==
  ASSUME PlainInv, NEW f \in Names, KeyedInv(f), ResyncReturns
  PROVE  PlainInv' /\ KeyedInv(f)'
<1> DEFINE s == Settled(jn, "resync")
           job == [kind |-> "rebase", seq |-> jn.resync.head, keys |-> jn.resync.keys]
           a == Append(s.jobs, job)
<1>1. IsOpen
  BY OpenIfBusy DEF ResyncReturns, Closed, KeyedInv, MemoryKeyed
<1>2. jn \in Awake /\ WithinBounds /\ Types
  BY <1>1, OpenJournal
<1>3. Calmly(jn, s) /\ s \in Awake /\ s.pump = jn.pump
  BY <1>2, SettledCalm, CalmlyAwake DEF Settled, Awake, JournalSet
<1>4. WithinBounds'
  BY <1>2 DEF ResyncReturns, WithinBounds
<1>5. CASE ~jn.online \/ jn.resync.aborted
  <2>1. jn' = EndResync(s)
    BY <1>5 DEF ResyncReturns
  <2> HIDE DEF s
  <2>2. Calmly(jn, jn')
    BY <1>2, <1>3, <2>1, EndResyncCalm, CalmlyTwice
  <2> QED
    BY <1>1, <1>4, <2>2, CalmKeeps DEF ResyncReturns
<1>6. CASE ~(~jn.online \/ jn.resync.aborted)
  <2>1. jn' = [s EXCEPT !.resync = [phase |-> "committing"], !.jobs = a]
    BY <1>6 DEF ResyncReturns
  <2> HIDE DEF s
  <2>2. job \in JobSet /\ job.kind = "rebase"
    <3>1. jn.resync \in [phase : {"answered"}, aborted : BOOLEAN, keys : SUBSET Nat,
                         head : Nat]
      BY <1>2 DEF Awake, JournalSet, ResyncSet, ResyncReturns
    <3> QED
      BY <3>1 DEF JobSet
  <2> HIDE DEF job
  <2>3. s.jobs \in Seq(JobSet) /\ a \in Seq(JobSet)
    BY <1>3, <2>2 DEF Awake, JournalSet
  <2> HIDE DEF a
  <2>4. [phase |-> "committing"] \in ResyncSet
    BY DEF ResyncSet
  <2>5. jn' \in Awake /\ jn'.snap = s.snap /\ jn'.written = s.written
        /\ jn'.jobs = a /\ jn'.pump = s.pump
    BY <1>3, <2>1, <2>3, <2>4 DEF Awake, JournalSet
  <2>6. Joined(f)
    BY <1>2, <1>3, <2>2, <2>5, JoinedByOne DEF Harmless, a
  <2>7. Types' /\ CallKeyed(f) /\ Extends(f, f) /\ LogGrows
    BY <1>2, <2>5 DEF Types, Awake, ResyncReturns, KeyedInv, Extends, LogGrows,
                      UsedKeys, File
  <2>8. CallKeyed(f)'
    BY <1>2, <1>3, <2>5, <2>7, CallStays DEF SameCall
  <2>9. jn'.snap = jn.snap /\ jn'.written = jn.written
    BY <1>3, <2>5 DEF Calmly
  <2> QED
    BY <1>1, <1>4, <2>5, <2>6, <2>8, <2>9, QuietKeeps DEF ResyncReturns
<1> QED
  BY <1>5, <1>6

(* The submission is to be committed, once it is answered. *)
LEMMA SubmitReturnsKeeps ==
  ASSUME PlainInv, NEW f \in Names, KeyedInv(f), SubmitReturns
  PROVE  PlainInv' /\ KeyedInv(f)'
<1>1. IsOpen
  BY OpenIfBusy DEF SubmitReturns, Closed, KeyedInv, MemoryKeyed
<1>2. jn \in Awake /\ WithinBounds /\ Types
  BY <1>1, OpenJournal
<1>3. WithinBounds'
  BY <1>2 DEF SubmitReturns, WithinBounds
<1>4. CASE Calmly(jn, jn')
  BY <1>1, <1>3, <1>4, CalmKeeps DEF SubmitReturns
<1>5. CASE ~Calmly(jn, jn')
  <2> DEFINE ack == jn.pump.ack
  <2>1. jn' = SubmitAcked(jn, ack) /\ ack.seq # 0
    BY <1>2, <1>5, SubmitFailedCalm DEF SubmitReturns
  <2>2. PICK u : /\ Calmly(jn, u) /\ u.pump = jn.pump /\ u.jobs = jn.jobs
                 /\ SubmitAcked(jn, ack) =
                      [u EXCEPT !.pump = [phase |-> "committing"],
                         !.jobs = Append(@, [kind |-> "commit", key |-> jn.pump.entry.key,
                                             id |-> jn.pump.entry.id, seq |-> ack.seq])]
    BY <1>2, <1>5, <2>1, SubmitAckedSteps
  <2> DEFINE job == [kind |-> "commit", key |-> jn.pump.entry.key,
                     id |-> jn.pump.entry.id, seq |-> ack.seq]
             a == Append(u.jobs, job)
  <2>3. jn' = [u EXCEPT !.pump = [phase |-> "committing"], !.jobs = a]
    BY <2>1, <2>2
  <2>4. jn.pump \in [phase : {"answered"}, aborted : BOOLEAN, entry : EntrySet, base : Nat,
                     ack : AckSet]
    BY <1>2 DEF Awake, JournalSet, PumpSet, SubmitReturns
  <2>5. job \in JobSet /\ job.kind = "commit" /\ job.key = jn.pump.entry.key
        /\ job.id = jn.pump.entry.id
    BY <2>4 DEF JobSet, EntrySet, AckSet
  <2>6. Harmless(f, job)
    <3>1. Keyed(f, jn.pump.entry) /\ InLog(jn.pump.entry.key)
      BY <2>1, <2>4 DEF KeyedInv, CallKeyed, Called
    <3> QED
      BY <2>5, <3>1 DEF Harmless, Keyed
  <2> HIDE DEF job
  <2>7. u \in Awake /\ u.jobs \in Seq(JobSet) /\ a \in Seq(JobSet)
    BY <2>2, <2>5 DEF Calmly, Awake, JournalSet
  <2> HIDE DEF a
  <2>8. [phase |-> "committing"] \in PumpSet
    BY DEF PumpSet
  <2>9. jn' \in Awake /\ jn'.snap = u.snap /\ jn'.written = u.written
        /\ jn'.jobs = a /\ jn'.pump = [phase |-> "committing"]
    BY <2>3, <2>7, <2>8 DEF Awake, JournalSet
  <2>10. Joined(f)
    BY <1>2, <2>2, <2>5, <2>6, <2>9, JoinedByOne DEF a
  <2>11. CallKeyed(f)'
    BY <2>9 DEF CallKeyed, Called
  <2>12. jn'.snap = jn.snap /\ jn'.written = jn.written
    BY <2>2, <2>9 DEF Calmly
  <2> QED
    BY <1>1, <1>3, <2>9, <2>10, <2>11, <2>12, QuietKeeps DEF SubmitReturns
<1> QED
  BY <1>4, <1>5

-----------------------------------------------------------------------------
(* Steps that begin or end the journal, and the calls of its host. *)

(* cancel() takes its turn like any other mutation. *)
LEMMA CancelKeeps ==
  ASSUME PlainInv, NEW f \in Names, KeyedInv(f), NEW key \in KeysOf(jn.snap), Cancel(key)
  PROVE  PlainInv' /\ KeyedInv(f)'
<1> DEFINE s == IF HeadKey(jn) = key THEN Abort(jn) ELSE jn
           job == [kind |-> "cancel", key |-> key, id |-> IdOf(jn.snap, key)]
           a == Append(s.jobs, job)
<1>1. IsOpen
  <2>1. CASE ~IsOpen
    <3>1. jn.snap.entries = <<>>
      BY <2>1 DEF KeyedInv, MemoryKeyed, Unopened, Empty
    <3>2. 1..Len(jn.snap.entries) = {}
      BY <3>1
    <3> QED
      BY <3>2, Zenon DEF KeysOf
  <2> QED
    BY <2>1
<1>2. jn \in Awake /\ WithinBounds /\ Types
  BY <1>1, OpenJournal
<1>3. Calmly(jn, s) /\ s \in Awake
  BY <1>2, AbortCalm, CalmlyIfSame, CalmlyAwake
<1>4. PICK i \in 1..Len(jn.snap.entries) : jn.snap.entries[i].key = key
  BY DEF KeysOf
<1>5. /\ PlaceOf(jn.snap, key) \in 1..Len(jn.snap.entries)
      /\ jn.snap.entries[PlaceOf(jn.snap, key)].key = key
  BY <1>4 DEF PlaceOf
<1>6. Keyed(f, jn.snap.entries[PlaceOf(jn.snap, key)])
  BY <1>5 DEF KeyedInv, MemoryKeyed
<1>7. jn.snap.entries[PlaceOf(jn.snap, key)] \in EntrySet
  BY <1>2, <1>5 DEF Awake, JournalSet, SnapSet
<1>8. job \in JobSet /\ job.kind = "cancel" /\ Harmless(f, job)
  BY <1>5, <1>6, <1>7 DEF JobSet, EntrySet, IdOf, Harmless, Keyed
<1>9. jn' = [s EXCEPT !.jobs = a]
  BY DEF Cancel
<1> HIDE DEF s, job
<1>10. a \in Seq(JobSet)
  BY <1>3, <1>8 DEF Awake, JournalSet
<1> HIDE DEF a
<1>11. jn' \in Awake /\ jn'.snap = s.snap /\ jn'.written = s.written
       /\ jn'.jobs = a /\ jn'.pump = s.pump
  BY <1>3, <1>9, <1>10 DEF Awake, JournalSet
<1>12. Joined(f)
  BY <1>2, <1>3, <1>8, <1>11, JoinedByOne DEF a
<1>13. Types' /\ CallKeyed(f) /\ Extends(f, f) /\ LogGrows
  BY <1>2, <1>11 DEF Types, Awake, Cancel, KeyedInv, Extends, LogGrows, UsedKeys, File
<1>14. CallKeyed(f)'
  BY <1>2, <1>3, <1>11, <1>13, CallStays DEF Calmly
<1>15. jn'.snap = jn.snap /\ jn'.written = jn.written
  BY <1>3, <1>11 DEF Calmly
<1>16. WithinBounds'
  BY <1>2, SpendKeeps DEF BoundNames, Cancel
<1> QED
  BY <1>1, <1>11, <1>12, <1>14, <1>15, <1>16, QuietKeeps DEF Cancel

(* An entry is never a file that is not there. *)
LEMMA NothingIsNoFile ==
  ASSUME NEW s \in SnapSet
  PROVE  s # Nothing
BY DEF SnapSet, Nothing

(* A file as it is first stored. *)
LEMMA EmptyIsFile == Empty \in SnapSet
<1>1. <<>> \in Seq(EntrySet)
  OBVIOUS
<1> QED
  BY <1>1 DEF Empty, SnapSet

(* A journal before it is opened. *)
LEMMA UnopenedIsJournal == Unopened \in JournalSet
<1>1. <<>> \in Seq(JobSet)
  OBVIOUS
<1>2. Idle \in PumpSet /\ Idle \in ResyncSet
  BY DEF Idle, PumpSet, ResyncSet
<1>3. {} \in SUBSET Nat
  OBVIOUS
<1> QED
  BY <1>1, <1>2, <1>3, EmptyIsFile DEF Unopened, JournalSet, Statuses

(* What the file holds. *)
LEMMA FileIsSnap == ASSUME Types PROVE File \in SnapSet /\ Entries \in Seq(EntrySet)
<1>1. File \in SnapSet
  BY EmptyIsFile DEF File, Types
<1> QED
  BY <1>1 DEF Entries, SnapSet

(* The journal has nothing under way. *)
LEMMA NothingWaits ==
  ASSUME jn'.jobs = <<>>, jn'.written = FALSE, jn'.pump = Idle, NEW f
  PROVE  AddsInOrder(f)' /\ JobsKeyed(f)' /\ CallKeyed(f)' /\ WrittenDone'
<1>1. 1..Len(jn'.jobs) = {}
  OBVIOUS
<1>2. AddsInOrder(f)' /\ JobsKeyed(f)'
  BY <1>1, Zenon DEF AddsInOrder, JobsKeyed
<1>3. CallKeyed(f)' /\ WrittenDone'
  BY DEF CallKeyed, Called, Idle, WrittenDone
<1> QED
  BY <1>2, <1>3

(* The process stops, or starts again. *)
LEMMA RestartKeeps ==
  ASSUME PlainInv, NEW f \in Names, KeyedInv(f), Open \/ Stop
  PROVE  PlainInv' /\ KeyedInv(f)'
<1>1. /\ Types /\ WrittenDone /\ WireInOrder /\ LoggedFits /\ FatesFit /\ WithinBounds
      /\ NamesRise(f) /\ FileKeyed(f) /\ MemoryKeyed(f) /\ WireKeyed(f) /\ LogKeyed(f)
  BY DEF PlainInv, KeyedInv
<1>2. File \in SnapSet /\ File # Nothing
  BY <1>1, FileIsSnap, NothingIsNoFile
<1>3. disk' \in SnapSet \cup {Nothing} /\ File' = File
  BY <1>1, <1>2 DEF Open, Stop, File, Types
<1>4. /\ jn' \in JournalSet /\ jn'.jobs = <<>> /\ jn'.written = FALSE /\ jn'.pump = Idle
      /\ \/ jn' = Unopened
         \/ jn'.status = "offline" /\ jn'.snap = disk'
  <2>1. CASE Stop
    <3>1. jn' = Unopened /\ jn' \in JournalSet
      BY <2>1, UnopenedIsJournal DEF Stop
    <3>2. jn'.jobs = <<>> /\ jn'.written = FALSE /\ jn'.pump = Idle
      BY <3>1 DEF Unopened
    <3> QED
      BY <3>1, <3>2
  <2>2. CASE Open
    <3>1. jn' = [Unopened EXCEPT !.status = "offline", !.snap = disk'] /\ disk' \in SnapSet
      BY <1>2, <2>2 DEF Open
    <3>2. /\ jn' \in JournalSet /\ jn'.jobs = Unopened.jobs
          /\ jn'.written = Unopened.written /\ jn'.pump = Unopened.pump
          /\ jn'.status = "offline" /\ jn'.snap = disk'
      BY <3>1, UnopenedIsJournal DEF JournalSet, Statuses
    <3> QED
      BY <3>2 DEF Unopened
  <2> QED
    BY <2>1, <2>2
<1>5. /\ wire' = wire /\ slog' = slog /\ fate' = fate
      /\ budget' = budget \/ Spend("stops")
  BY DEF Open, Stop
<1>6. Types'
  BY <1>1, <1>3, <1>4, <1>5 DEF Types
<1>7. SameDrops
  BY <1>1, <1>5 DEF SameDrops, Types
<1>8. /\ NamesRise(f)' /\ FileKeyed(f)' /\ WireKeyed(f)' /\ LogKeyed(f)'
      /\ WireInOrder' /\ LoggedFits'
  BY <1>1, <1>3, <1>5, <1>6, <1>7, FileStays
<1>9. WithinBounds'
  BY <1>1, <1>5, SpendKeeps DEF BoundNames
<1>10. UsedKeys' = UsedKeys /\ Entries' = Entries /\ Places' = Places
  BY <1>3 DEF UsedKeys, Entries, Places
<1>11. FatesFit'
  BY <1>1, <1>5, <1>10 DEF FatesFit
<1>12. AddsInOrder(f)' /\ JobsKeyed(f)' /\ CallKeyed(f)' /\ WrittenDone'
  BY <1>4, NothingWaits
<1>13. MemoryKeyed(f)'
  <2>1. CASE jn' = Unopened
    <3>1. jn'.snap.entries = <<>> /\ ~IsOpen'
      BY <2>1 DEF Unopened, Empty, IsOpen
    <3>2. 1..Len(jn'.snap.entries) = {}
      BY <3>1
    <3> QED
      BY <2>1, <3>1, <3>2, Zenon DEF MemoryKeyed
  <2>2. CASE jn'.status = "offline" /\ jn'.snap = disk' /\ jn' # Unopened
    <3>1. disk' # Nothing /\ File' = disk' /\ IsOpen'
      <4>1. Open
        BY <2>2 DEF Open, Stop
      <4> QED
        BY <1>2, <1>3, <2>2, <4>1 DEF Open, File, IsOpen
    <3>2. Entries' = jn'.snap.entries
      BY <2>2, <3>1 DEF Entries
    <3>3. \A i \in 1..Len(jn'.snap.entries) : Keyed(f, jn.snap.entries[i])'
      BY <1>8, <3>2 DEF FileKeyed, Places
    <3> QED
      BY <2>2, <3>1, <3>3 DEF MemoryKeyed
  <2> QED
    BY <1>4, <2>1, <2>2
<1> QED
  BY <1>6, <1>8, <1>9, <1>11, <1>12, <1>13 DEF PlainInv, KeyedInv

(* A submission is asked for. *)
LEMMA EnqueueKeeps ==
  ASSUME PlainInv, NEW f \in Names, KeyedInv(f), NEW defer \in BOOLEAN, Enqueue(defer)
  PROVE  PlainInv' /\ KeyedInv(f)'
<1> DEFINE job == [kind |-> "enqueue", id |-> Len(fate) + 1, on |-> jn.snap.seq,
                   defer |-> defer]
           a == Append(jn.jobs, job)
<1>1. /\ Types /\ WrittenDone /\ WireInOrder /\ LoggedFits /\ FatesFit /\ WithinBounds
      /\ NamesRise(f) /\ FileKeyed(f) /\ MemoryKeyed(f) /\ WireKeyed(f) /\ LogKeyed(f)
      /\ AddsInOrder(f) /\ JobsKeyed(f) /\ CallKeyed(f)
  BY DEF PlainInv, KeyedInv
<1>2. IsOpen /\ jn \in Awake
  BY OpenJournal DEF Enqueue
<1>3. /\ disk' = disk /\ wire' = wire /\ slog' = slog /\ fate' = Append(fate, "asked")
      /\ jn' = [jn EXCEPT !.revised = TRUE, !.jobs = a]
  BY DEF Enqueue
<1>4. fate \in Seq(Fates) /\ Len(fate) \in Nat /\ "asked" \in Fates
  BY <1>1 DEF Types, Fates
<1>5. /\ fate' \in Seq(Fates) /\ Len(fate') = Len(fate) + 1
      /\ \A n \in 1..Len(fate) : fate'[n] = fate[n]
      /\ fate'[Len(fate) + 1] = "asked"
  BY <1>3, <1>4
<1>6. job \in JobSet /\ job.kind = "enqueue" /\ job.id = Len(fate) + 1
  BY <1>2, <1>4 DEF JobSet, Awake, JournalSet, SnapSet
<1> HIDE DEF job
<1>7. /\ jn.jobs \in Seq(JobSet) /\ a \in Seq(JobSet)
      /\ Len(a) = Len(jn.jobs) + 1
      /\ \A i \in 1..Len(jn.jobs) : a[i] = jn.jobs[i]
      /\ a[Len(jn.jobs) + 1] = job
  BY <1>2, <1>6 DEF Awake, JournalSet
<1> HIDE DEF a
<1>8. jn' \in Awake /\ jn'.snap = jn.snap /\ jn'.written = jn.written
      /\ jn'.jobs = a /\ jn'.pump = jn.pump
  BY <1>2, <1>3, <1>7 DEF Awake, JournalSet
<1>9. Types'
  BY <1>1, <1>3, <1>5, <1>8 DEF Types, Awake
<1>10. /\ File' = File /\ UsedKeys' = UsedKeys /\ Entries' = Entries /\ Places' = Places
       /\ IsOpen'
  BY <1>3, <1>8 DEF File, UsedKeys, Entries, Places, Awake, IsOpen
<1>11. SameDrops
  BY <1>4, <1>5 DEF SameDrops
<1>12. /\ NamesRise(f)' /\ FileKeyed(f)' /\ WireKeyed(f)' /\ LogKeyed(f)'
       /\ WireInOrder' /\ LoggedFits'
  BY <1>1, <1>3, <1>9, <1>10, <1>11, FileStays
<1>13. MemoryKeyed(f)'
  BY <1>1, <1>2, <1>3, <1>8, <1>10 DEF MemoryKeyed, Keyed
<1>14. CallKeyed(f)'
  BY <1>1, <1>3, <1>8, <1>10 DEF CallKeyed, Called, Keyed, InLog
<1>15. JobsKeyed(f)'
  <2>1. ASSUME NEW i \in 1..Len(a)
        PROVE  /\ a[i].kind \in {"cancel", "commit"} => Keyed(f, a[i])
               /\ a[i].kind = "commit" => InLog(a[i].key)
    <3>1. CASE i = Len(jn.jobs) + 1
      BY <1>6, <1>7, <3>1
    <3>2. CASE i # Len(jn.jobs) + 1
      <4>1. i \in 1..Len(jn.jobs) /\ a[i] = jn.jobs[i]
        BY <1>7, <3>2
      <4> QED
        BY <1>1, <4>1 DEF JobsKeyed
    <3> QED
      BY <3>1, <3>2
  <2> QED
    BY <1>3, <1>8, <1>10, <2>1 DEF JobsKeyed, Keyed, InLog
<1>16. ASSUME NEW i \in 1..Len(a), a[i].kind = "enqueue"
       PROVE  \/ i = Len(jn.jobs) + 1 /\ a[i] = job
              \/ i \in 1..Len(jn.jobs) /\ a[i] = jn.jobs[i] /\ Adding(i)
                 /\ a[i].id \in 1..Len(fate)
  <2>1. CASE i = Len(jn.jobs) + 1
    BY <1>7, <2>1
  <2>2. CASE i # Len(jn.jobs) + 1
    <3>1. i \in 1..Len(jn.jobs) /\ a[i] = jn.jobs[i]
      BY <1>7, <2>2
    <3> QED
      BY <1>1, <1>16, <3>1 DEF Adding, AddsInOrder
  <2> QED
    BY <2>1, <2>2
<1>17. AddsInOrder(f)'
  <2>1. ASSUME NEW i \in 1..Len(a), a[i].kind = "enqueue"
        PROVE  /\ a[i].id \in 1..Len(fate')
               /\ fate'[a[i].id] = "asked"
               /\ (i > 1 \/ ~jn.written) => \A k \in UsedKeys : f[k] < a[i].id
    <3>1. CASE i = Len(jn.jobs) + 1 /\ a[i] = job
      <4>1. \A k \in UsedKeys : f[k] < job.id
        BY <1>1, <1>4, <1>6 DEF NamesRise
      <4> QED
        BY <1>4, <1>5, <1>6, <3>1, <4>1
    <3>2. CASE i \in 1..Len(jn.jobs) /\ a[i] = jn.jobs[i] /\ Adding(i)
               /\ a[i].id \in 1..Len(fate)
      <4>1. /\ fate[a[i].id] = "asked"
            /\ (i > 1 \/ ~jn.written) => \A k \in UsedKeys : f[k] < a[i].id
        BY <1>1, <3>2 DEF AddsInOrder
      <4> QED
        BY <1>4, <1>5, <3>2, <4>1
    <3> QED
      BY <1>16, <2>1, <3>1, <3>2
  <2>2. ASSUME NEW i \in 1..Len(a), NEW j \in 1..Len(a), i < j,
               a[i].kind = "enqueue", a[j].kind = "enqueue"
        PROVE  a[i].id < a[j].id
    <3>1. i \in 1..Len(jn.jobs) /\ a[i] = jn.jobs[i] /\ Adding(i)
          /\ a[i].id \in 1..Len(fate)
      BY <1>7, <1>16, <2>2
    <3>2. CASE j = Len(jn.jobs) + 1 /\ a[j] = job
      BY <1>4, <1>6, <3>1, <3>2
    <3>3. CASE j \in 1..Len(jn.jobs) /\ a[j] = jn.jobs[j] /\ Adding(j)
      BY <1>1, <2>2, <3>1, <3>3 DEF AddsInOrder
    <3> QED
      BY <1>16, <2>2, <3>2, <3>3
  <2> QED
    BY <1>8, <1>10, <2>1, <2>2 DEF AddsInOrder, Adding
<1>18. WrittenDone'
  <2> SUFFICES ASSUME jn.written PROVE WrittenDone'
    BY <1>8 DEF WrittenDone
  <2>1. jn.jobs # <<>> /\ a # <<>> /\ Job' = Job
    BY <1>1, <1>7, <1>8 DEF WrittenDone, Job
  <2>2. Job.kind = "commit" => fate'[Job.id] # "cancelled"
    <3>1. Job.kind = "commit" => Keyed(f, Job)
      BY <1>1, <1>7, <2>1 DEF JobsKeyed, Job
    <3>2. Job.kind = "commit" => Job.id \in 1..Len(fate)
      BY <1>1, <3>1 DEF Keyed, NamesRise
    <3> QED
      BY <1>1, <1>5, <3>2 DEF WrittenDone
  <2> QED
    BY <1>1, <1>8, <1>10, <2>1, <2>2 DEF WrittenDone
<1>19. FatesFit'
  <2>1. ASSUME NEW n \in 1..Len(fate')
        PROVE  \/ n \in 1..Len(fate) /\ fate'[n] = fate[n]
               \/ fate'[n] = "asked"
    BY <1>4, <1>5
  <2> QED
    BY <1>1, <1>3, <1>10, <2>1 DEF FatesFit
<1>20. WithinBounds'
  BY <1>1, <1>4, <1>5 DEF WithinBounds, Enqueue, Spend, BoundNames
<1> QED
  BY <1>9, <1>12, <1>13, <1>14, <1>15, <1>17, <1>18, <1>19, <1>20 DEF PlainInv, KeyedInv

-----------------------------------------------------------------------------
(* The server's log grows. *)

(* What is logged is a fold of the log. *)
LEMMA LoggingIsFold ==
  ASSUME NEW d, NEW s
  PROVE  FoldLeft(WithLogged, d, s) = Logging!Folded(d, s)
BY DEF Logging!Folded, FoldLeft, MapThenFoldSet, Logging!FoldLeft,
       Logging!MapThenFoldSet, Logging!Max, Max

(* The log as the outbox sees it grows with each entry that is not another's. *)
LEMMA LoggedGrows ==
  ASSUME NEW s \in Seq(EntrySet), NEW e \in EntrySet
  PROVE  FoldLeft(WithLogged, <<>>, Append(s, e)) =
           WithLogged(FoldLeft(WithLogged, <<>>, s), e)
<1>1. Logging!Folded(<<>>, Append(s, e)) = WithLogged(Logging!Folded(<<>>, s), e)
  BY Logging!FoldAppend
<1> QED
  BY <1>1, LoggingIsFold

(* What may join the log: another's entry, or a request based on its head. *)
Fitting(e) ==
  \/ e.key = 0
  \/ \E r \in wire : e.key = r.key /\ e.id = r.id /\ r.base = Len(slog) /\ ~InLog(r.key)

(* An entry joins the log. *)
LEMMA LogAppended ==
  ASSUME PlainInv, NEW f \in Names, KeyedInv(f), NEW e \in EntrySet, Fitting(e),
         slog' = Append(slog, e), disk' = disk, fate' = fate, wire' \subseteq wire,
         jn' \in JournalSet, jn'.jobs = jn.jobs, jn'.written = jn.written,
         MemoryKeyed(f)', CallKeyed(f)', WithinBounds'
  PROVE  PlainInv' /\ KeyedInv(f)'
<1>1. /\ Types /\ WrittenDone /\ WireInOrder /\ LoggedFits /\ FatesFit
      /\ NamesRise(f) /\ FileKeyed(f) /\ WireKeyed(f) /\ LogKeyed(f)
      /\ AddsInOrder(f) /\ JobsKeyed(f)
  BY DEF PlainInv, KeyedInv
<1>2. /\ slog \in Seq(EntrySet) /\ slog' \in Seq(EntrySet)
      /\ Len(slog) \in Nat /\ Len(slog') = Len(slog) + 1
      /\ \A p \in 1..Len(slog) : slog'[p] = slog[p]
      /\ slog'[Len(slog) + 1] = e
  BY <1>1 DEF Types
<1>3. Types'
  BY <1>1, <1>2 DEF Types
<1>4. /\ File' = File /\ UsedKeys' = UsedKeys /\ Entries' = Entries /\ Places' = Places
  BY DEF File, UsedKeys, Entries, Places
<1>5. LogGrows
  BY <1>2 DEF LogGrows
<1>6. NamesRise(f)' /\ FileKeyed(f)'
  BY <1>1, <1>4 DEF NamesRise, FileKeyed, Keyed
<1>7. AddsInOrder(f)'
  BY <1>1, <1>4 DEF AddsInOrder, Adding
<1>8. \A key : InLog(key) => InLogNext(key)
  BY <1>1, <1>3, <1>5, InLogGrows
<1>9. JobsKeyed(f)'
  BY <1>1, <1>4, <1>8 DEF JobsKeyed, Keyed, InLog, InLogNext
<1>10. WrittenDone'
  BY <1>1, <1>4 DEF WrittenDone, Job
<1>11. WireKeyed(f)'
  BY <1>1, <1>4, <1>8 DEF WireKeyed, Keyed, InLog, InLogNext, Held
<1>12. ASSUME e.key # 0
       PROVE  /\ Keyed(f, e)
              /\ \A i \in Places : e.key <= Entries[i].key
              /\ \A q \in wire : e.key > q.key => q.base <= Len(slog)
  <2>1. PICK r \in wire : e.key = r.key /\ e.id = r.id /\ r.base = Len(slog)
    BY <1>12 DEF Fitting
  <2>2. /\ Keyed(f, r)
        /\ \A i \in Places : r.key <= Entries[i].key
    BY <1>1 DEF WireKeyed
  <2>3. \A q \in wire : q.key < r.key => q.base <= r.base
    BY <1>1 DEF WireInOrder
  <2>4. \A q \in wire : q.key \in Nat /\ r.key \in Nat
    BY <1>1 DEF Types, RequestSet
  <2>5. \A q \in wire : e.key > q.key => q.key < r.key
    BY <2>1, <2>4
  <2>6. \A q \in wire : e.key > q.key => q.base <= Len(slog)
    BY <2>1, <2>3, <2>5
  <2> QED
    BY <2>1, <2>2, <2>6 DEF Keyed
<1>13. LogKeyed(f)'
  <2>1. ASSUME NEW p \in 1..Len(slog'), slog'[p].key # 0
        PROVE  /\ Keyed(f, slog'[p])
               /\ \A i \in Places : slog'[p].key <= Entries[i].key
    <3>1. CASE p = Len(slog) + 1
      BY <1>2, <1>12, <2>1, <3>1
    <3>2. CASE p # Len(slog) + 1
      <4>1. p \in 1..Len(slog) /\ slog'[p] = slog[p]
        BY <1>2, <3>2
      <4> QED
        BY <1>1, <2>1, <4>1 DEF LogKeyed
    <3> QED
      BY <3>1, <3>2
  <2> QED
    BY <1>4, <2>1 DEF LogKeyed, Keyed
<1>14. WireInOrder'
  <2>1. ASSUME NEW r \in wire', NEW p \in 1..Len(slog'), slog'[p].key > r.key
        PROVE  r.base < p
    <3>0. r \in wire /\ r.key \in Nat /\ r.base \in Nat
      BY <1>1 DEF Types, RequestSet
    <3>1. CASE p = Len(slog) + 1
      <4>1. slog'[p] = e
        BY <1>2, <3>1
      <4>2. e.key # 0
        BY <2>1, <3>0, <4>1
      <4>3. r.base <= Len(slog)
        BY <1>12, <2>1, <3>0, <4>1, <4>2
      <4> QED
        BY <1>2, <3>0, <3>1, <4>3
    <3>2. CASE p # Len(slog) + 1
      <4>1. p \in 1..Len(slog) /\ slog'[p] = slog[p]
        BY <1>2, <3>2
      <4> QED
        BY <1>1, <2>1, <3>0, <4>1 DEF WireInOrder
    <3> QED
      BY <3>1, <3>2
  <2>2. \A r, q \in wire' : r.key < q.key => r.base <= q.base
    BY <1>1 DEF WireInOrder
  <2> QED
    BY <2>1, <2>2 DEF WireInOrder
<1>15. Logged' = WithLogged(Logged, e)
  BY <1>2, LoggedGrows DEF Logged
<1>16. LoggedFits'
  <2>1. Logged \in Seq(Nat) /\ e.id \in Nat
    BY <1>1 DEF LoggedFits, EntrySet
  <2>2. CASE e.key = 0
    <3>1. Logged' = Logged
      BY <1>15, <2>2 DEF WithLogged
    <3>2. ASSUME NEW p \in 1..Len(slog'), slog'[p].key # 0
          PROVE  slog'[p].id \in ToSet(Logged)
      <4>1. p \in 1..Len(slog) /\ slog'[p] = slog[p]
        BY <1>2, <2>2, <3>2
      <4> QED
        BY <1>1, <3>2, <4>1 DEF LoggedFits
    <3>3. ASSUME NEW i \in 1..Len(Logged)
          PROVE  \E p \in 1..Len(slog') : slog'[p].key # 0 /\ slog'[p].id = Logged[i]
      <4>1. PICK p \in 1..Len(slog) : slog[p].key # 0 /\ slog[p].id = Logged[i]
        BY <1>1 DEF LoggedFits
      <4> QED
        BY <1>2, <4>1
    <3> QED
      BY <2>1, <3>1, <3>2, <3>3 DEF LoggedFits
  <2>3. CASE e.key # 0
    <3>1. Logged' = Append(Logged, e.id)
      BY <1>15, <2>3 DEF WithLogged
    <3> DEFINE l == Logged
    <3>2. /\ Logged' \in Seq(Nat) /\ Len(Logged') = Len(l) + 1 /\ Len(l) \in Nat
          /\ \A i \in 1..Len(l) : Logged'[i] = l[i]
          /\ Logged'[Len(l) + 1] = e.id
      BY <2>1, <3>1
    <3>3. ToSet(l) \subseteq ToSet(Logged') /\ e.id \in ToSet(Logged')
      <4>1. l \in Seq(Nat)
        BY <2>1
      <4> DEFINE m == Logged'
      <4>2. m \in Seq(Nat) /\ m = Append(l, e.id)
        BY <3>1, <3>2
      <4> HIDE DEF l, m
      <4>3. ToSet(l) \subseteq ToSet(m) /\ e.id \in ToSet(m)
        <5>1. /\ DOMAIN l = 1..Len(l) /\ DOMAIN m = 1..Len(m)
              /\ Len(m) = Len(l) + 1 /\ Len(l) \in Nat
              /\ m[Len(l) + 1] = e.id
              /\ \A i \in 1..Len(l) : m[i] = l[i]
          BY <2>1, <4>1, <4>2
        <5>2. ASSUME NEW i \in DOMAIN l PROVE l[i] \in ToSet(m)
          BY <5>1 DEF ToSet
        <5>3. e.id \in ToSet(m)
          BY <5>1 DEF ToSet
        <5> QED
          BY <5>2, <5>3 DEF ToSet
      <4> QED
        BY <4>3 DEF m
    <3>4. ASSUME NEW p \in 1..Len(slog'), slog'[p].key # 0
          PROVE  slog'[p].id \in ToSet(Logged')
      <4>1. CASE p = Len(slog) + 1
        BY <1>2, <3>3, <4>1
      <4>2. CASE p # Len(slog) + 1
        <5>1. p \in 1..Len(slog) /\ slog'[p] = slog[p]
          BY <1>2, <4>2
        <5> QED
          BY <1>1, <3>3, <3>4, <5>1 DEF LoggedFits
      <4> QED
        BY <4>1, <4>2
    <3>5. ASSUME NEW i \in 1..Len(Logged')
          PROVE  \E p \in 1..Len(slog') : slog'[p].key # 0 /\ slog'[p].id = Logged'[i]
      <4>1. CASE i = Len(l) + 1
        <5>1. Len(slog) + 1 \in 1..Len(slog')
          BY <1>2
        <5> QED
          BY <1>2, <2>3, <3>2, <4>1, <5>1
      <4>2. CASE i # Len(l) + 1
        <5>1. i \in 1..Len(l) /\ Logged'[i] = l[i]
          BY <3>2, <4>2
        <5>2. PICK p \in 1..Len(slog) : slog[p].key # 0 /\ slog[p].id = l[i]
          BY <1>1, <5>1 DEF LoggedFits
        <5> QED
          BY <1>2, <5>1, <5>2
      <4> QED
        BY <4>1, <4>2
    <3> QED
      BY <3>2, <3>4, <3>5 DEF LoggedFits
  <2> QED
    BY <2>2, <2>3
<1>17. FatesFit'
  <2>1. ASSUME NEW n, NEW p \in 1..Len(slog), slog[p].key # 0, slog[p].id = n
        PROVE  \E q \in 1..Len(slog') : slog'[q].key # 0 /\ slog'[q].id = n
    BY <1>2, <2>1
  <2> QED
    BY <1>1, <1>4, <2>1 DEF FatesFit
<1> QED
  BY <1>3, <1>6, <1>7, <1>9, <1>10, <1>11, <1>13, <1>14, <1>16, <1>17
     DEF PlainInv, KeyedInv

(* Another client's entry does. *)
LEMMA ServeOtherKeeps ==
  ASSUME PlainInv, NEW f \in Names, KeyedInv(f), ServeOther
  PROVE  PlainInv' /\ KeyedInv(f)'
<1> DEFINE e == [key |-> 0, id |-> 0, on |-> Len(slog)]
<1>1. Types /\ WithinBounds /\ MemoryKeyed(f) /\ CallKeyed(f)
  BY DEF PlainInv, KeyedInv
<1>2. e \in EntrySet /\ e.key = 0 /\ slog' = Append(slog, e)
  BY <1>1 DEF EntrySet, Types, ServeOther
<1> HIDE DEF e
<1>3. Fitting(e)
  BY <1>2 DEF Fitting
<1>4. disk' = disk /\ fate' = fate /\ wire' = wire /\ jn' = jn
  BY DEF ServeOther
<1>5. WithinBounds'
  BY <1>1, <1>4, SpendKeeps DEF BoundNames, ServeOther
<1>6. MemoryKeyed(f)'
  BY <1>1, <1>4 DEF MemoryKeyed, Keyed, UsedKeys, File, IsOpen
<1>7. jn' \in JournalSet /\ LogGrows
  <2>1. slog \in Seq(EntrySet)
    BY <1>1 DEF Types
  <2> QED
    BY <1>1, <1>2, <1>4, <2>1 DEF Types, LogGrows
<1>8. Types'
  <2>1. slog \in Seq(EntrySet)
    BY <1>1 DEF Types
  <2> QED
    BY <1>1, <1>2, <1>4, <2>1 DEF Types
<1>9. CallKeyed(f)'
  BY <1>1, <1>4, <1>7, <1>8, CallStays DEF SameCall, Extends, UsedKeys, File
<1> QED
  BY <1>2, <1>3, <1>4, <1>5, <1>6, <1>7, <1>9, LogAppended

(* The server takes in a request. *)
LEMMA ServeSubmitKeeps ==
  ASSUME PlainInv, NEW f \in Names, KeyedInv(f), NEW r \in wire, ServeSubmit(r)
  PROVE  PlainInv' /\ KeyedInv(f)'
<1> DEFINE e == [key |-> r.key, id |-> r.id, on |-> r.on]
           fits == r.base = Len(slog)
           ack == [seq |-> IF Position(r.key) # {} THEN CHOOSE n \in Position(r.key) : TRUE
                           ELSE IF fits THEN Len(slog) + 1 ELSE 0,
                   dedup |-> Position(r.key) # {}]
           c == [phase |-> "answered", aborted |-> jn.pump.aborted,
                 entry |-> jn.pump.entry, base |-> jn.pump.base, ack |-> ack]
           awaited == /\ jn.pump.phase = "asked"
                      /\ jn.pump.entry.key = r.key /\ jn.pump.base = r.base
<1>1. Types /\ WithinBounds /\ MemoryKeyed(f) /\ CallKeyed(f)
  BY DEF PlainInv, KeyedInv
<1>2. disk' = disk /\ fate' = fate /\ wire' \subseteq wire /\ budget' = budget
  BY DEF ServeSubmit
<1>3. /\ slog' = IF Position(r.key) = {} /\ fits THEN Append(slog, e) ELSE slog
      /\ jn' = IF awaited THEN [jn EXCEPT !.pump = c] ELSE jn
  BY DEF ServeSubmit
<1>4. e \in EntrySet /\ e.key = r.key /\ e.id = r.id
  BY <1>1 DEF Types, RequestSet, EntrySet
<1>5. (Position(r.key) = {}) <=> ~InLog(r.key)
  BY DEF Position, InLog
<1>6. slog \in Seq(EntrySet) /\ Len(slog) \in Nat
  BY <1>1 DEF Types
<1>7. slog' \in Seq(EntrySet) /\ LogGrows
  BY <1>3, <1>4, <1>6 DEF LogGrows
<1>8. ack \in AckSet
  <2>1. Position(r.key) \subseteq Nat
    BY DEF Position
  <2> QED
    BY <1>6, <2>1 DEF AckSet
<1>9. ack.seq # 0 => InLogNext(r.key)
  <2>1. CASE Position(r.key) # {}
    <3>1. InLog(r.key)
      BY <1>5, <2>1
    <3> QED
      BY <1>7, <3>1 DEF InLog, InLogNext, LogGrows
  <2>2. CASE Position(r.key) = {} /\ fits
    <3>1. slog' = Append(slog, e)
      BY <1>3, <2>2
    <3>2. Len(slog) + 1 \in 1..Len(slog') /\ slog'[Len(slog) + 1] = e
      BY <1>4, <1>6, <3>1
    <3> QED
      BY <1>4, <3>2 DEF InLogNext
  <2> QED
    BY <2>1, <2>2
<1> HIDE DEF ack, e
<1>10. WithinBounds'
  BY <1>1, <1>2 DEF WithinBounds
<1>11. /\ jn' \in JournalSet /\ jn'.snap = jn.snap /\ jn'.jobs = jn.jobs
       /\ jn'.written = jn.written /\ jn'.status = jn.status
       /\ awaited => jn'.pump = c /\ jn' \in Awake
       /\ ~awaited => jn' = jn
  <2>1. CASE awaited
    <3>1. IsOpen
      BY <1>1, <2>1, OpenIfBusy DEF Closed, MemoryKeyed
    <3>2. jn.pump \in [phase : {"asked"}, aborted : BOOLEAN, entry : EntrySet, base : Nat]
      BY <1>1, <2>1 DEF Types, JournalSet, PumpSet
    <3>3. c \in PumpSet
      BY <1>8, <3>2 DEF PumpSet
    <3> HIDE DEF c
    <3>4. jn' = [jn EXCEPT !.pump = c]
      BY <1>3, <2>1 DEF c
    <3> QED
      BY <1>1, <2>1, <3>1, <3>3, <3>4 DEF Types, JournalSet, Awake, IsOpen
  <2>2. CASE ~awaited
    <3>1. jn' = jn
      BY <1>3, <2>2
    <3> QED
      BY <1>1, <2>2, <3>1 DEF Types
  <2> QED
    BY <2>1, <2>2
<1>12. MemoryKeyed(f)'
  <2>1. IsOpen' <=> IsOpen
    BY <1>11 DEF IsOpen
  <2>2. awaited => IsOpen
    BY <1>1, OpenIfBusy DEF Closed, MemoryKeyed
  <2> QED
    BY <1>1, <1>2, <1>11, <2>1, <2>2 DEF MemoryKeyed, Keyed, UsedKeys, File
<1>13. Types'
  BY <1>1, <1>2, <1>7, <1>11 DEF Types
<1>14. CallKeyed(f)'
  <2>1. CASE awaited
    <3>1. Keyed(f, jn.pump.entry) /\ jn.pump.entry.key = r.key
      BY <1>1, <2>1 DEF CallKeyed, Called
    <3>2. jn'.pump.entry = jn.pump.entry /\ jn'.pump.ack = ack
      BY <1>11, <2>1
    <3> QED
      BY <1>2, <1>9, <3>1, <3>2 DEF CallKeyed, Keyed, UsedKeys, File, InLog, InLogNext
  <2>2. CASE ~awaited
    <3>1. jn' = jn
      BY <1>11, <2>2
    <3> QED
      BY <1>1, <1>2, <1>7, <1>13, <3>1, CallStays DEF SameCall, Extends, UsedKeys, File
  <2> QED
    BY <2>1, <2>2
<1>15. CASE Position(r.key) = {} /\ fits
  <2>1. slog' = Append(slog, e)
    BY <1>3, <1>15
  <2>2. Fitting(e)
    BY <1>4, <1>5, <1>15 DEF Fitting
  <2> QED
    BY <1>2, <1>4, <1>10, <1>11, <1>12, <1>14, <2>1, <2>2, LogAppended
<1>16. CASE ~(Position(r.key) = {} /\ fits)
  <2>1. slog' = slog
    BY <1>3, <1>16
  <2>2. CASE IsOpen
    <3>1. jn' \in Awake
      BY <1>11, <2>2 DEF Awake, IsOpen
    <3>2. Joined(f)
      <4>1. jn.jobs \in Seq(JobSet)
        BY <1>1 DEF Types, JournalSet
      <4> QED
        BY <1>11, <4>1 DEF Joined
    <3> QED
      BY <1>2, <1>10, <1>11, <1>14, <2>1, <2>2, <3>1, <3>2, QuietKeeps
  <2>3. CASE ~IsOpen
    <3>1. ~awaited
      BY <1>1, <2>3, OpenIfBusy DEF Closed, MemoryKeyed
    <3>2. jn' = jn
      BY <1>11, <3>1
    <3>3. /\ WrittenDone /\ WireInOrder /\ LoggedFits /\ FatesFit
          /\ NamesRise(f) /\ FileKeyed(f) /\ WireKeyed(f) /\ LogKeyed(f)
          /\ AddsInOrder(f) /\ JobsKeyed(f)
      BY DEF PlainInv, KeyedInv
    <3>4. /\ File' = File /\ UsedKeys' = UsedKeys /\ Entries' = Entries
          /\ Places' = Places /\ SameDrops
      BY <1>1, <1>2 DEF File, UsedKeys, Entries, Places, SameDrops, Types
    <3>5. /\ NamesRise(f)' /\ FileKeyed(f)' /\ WireKeyed(f)' /\ LogKeyed(f)'
          /\ WireInOrder' /\ LoggedFits'
      BY <1>1, <1>2, <1>13, <2>1, <3>3, <3>4, FileStays
    <3>6. AddsInOrder(f)' /\ JobsKeyed(f)'
      BY <1>2, <2>1, <3>2, <3>3, <3>4 DEF AddsInOrder, Adding, JobsKeyed, Keyed, InLog
    <3>7. WrittenDone' /\ FatesFit'
      BY <1>2, <2>1, <3>2, <3>3, <3>4 DEF WrittenDone, FatesFit, Job
    <3> QED
      BY <1>10, <1>12, <1>13, <1>14, <3>5, <3>6, <3>7 DEF PlainInv, KeyedInv
  <2> QED
    BY <2>2, <2>3
<1> QED
  BY <1>15, <1>16

-----------------------------------------------------------------------------
(* The mutation whose turn it is. *)

(* The queue without the mutation whose turn it is. *)
LEMMA RestJournal ==
  ASSUME jn \in Awake, jn.jobs # <<>>
  PROVE  /\ Rest \in Awake /\ Rest.snap = jn.snap /\ Rest.written = FALSE
         /\ Rest.pump = jn.pump /\ Rest.jobs = Tail(jn.jobs)
         /\ Job = jn.jobs[1] /\ Job \in JobSet
         /\ Len(jn.jobs) \in Nat /\ 1 \in 1..Len(jn.jobs)
         /\ Len(Tail(jn.jobs)) = Len(jn.jobs) - 1
         /\ \A i \in 1..(Len(jn.jobs) - 1) : Tail(jn.jobs)[i] = jn.jobs[i + 1]
<1> DEFINE a == Tail(jn.jobs)
<1>1. jn.jobs \in Seq(JobSet)
  BY DEF Awake, JournalSet
<1>2. /\ a \in Seq(JobSet) /\ Len(a) = Len(jn.jobs) - 1
      /\ \A i \in 1..(Len(jn.jobs) - 1) : a[i] = jn.jobs[i + 1]
  BY <1>1
<1>3. Job = jn.jobs[1] /\ Job \in JobSet /\ Len(jn.jobs) \in Nat /\ 1 \in 1..Len(jn.jobs)
  BY <1>1 DEF Job
<1>4. Rest = [jn EXCEPT !.jobs = a, !.written = FALSE]
  BY DEF Rest
<1> HIDE DEF a
<1>5. Rest \in Awake /\ Rest.snap = jn.snap /\ Rest.written = FALSE
      /\ Rest.pump = jn.pump /\ Rest.jobs = a
  BY <1>2, <1>4 DEF Awake, JournalSet
<1> QED
  BY <1>2, <1>3, <1>5 DEF a

(* The queue after the mutation at its head is done. *)
LEMMA RestMoves ==
  ASSUME jn \in Awake, jn.jobs # <<>>, NEW s, s.jobs = Rest.jobs, Calmly(s, jn'), NEW f
  PROVE  Moves(f, 1)
<1>1. /\ s.jobs = Tail(jn.jobs) /\ Grown(s.jobs, jn'.jobs)
      /\ Len(jn.jobs) \in Nat /\ Len(s.jobs) = Len(jn.jobs) - 1
      /\ \A i \in 1..(Len(jn.jobs) - 1) : s.jobs[i] = jn.jobs[i + 1]
  BY RestJournal DEF Calmly
<1>2. ASSUME NEW i \in 1..Len(jn'.jobs)
      PROVE  \/ Harmless(f, jn'.jobs[i])
             \/ i + 1 \in 1..Len(jn.jobs) /\ jn'.jobs[i] = jn.jobs[i + 1]
  <2>1. CASE i \in 1..Len(s.jobs)
    <3>1. jn'.jobs[i] = s.jobs[i]
      BY <1>1, <2>1 DEF Grown
    <3>2. i + 1 \in 1..Len(jn.jobs) /\ s.jobs[i] = jn.jobs[i + 1]
      BY <1>1, <2>1
    <3> QED
      BY <3>1, <3>2
  <2>2. CASE i \notin 1..Len(s.jobs)
    <3>1. i \in (Len(s.jobs) + 1)..Len(jn'.jobs)
      BY <1>1, <2>2
    <3> QED
      BY <1>1, <3>1 DEF Grown, Harmless
  <2> QED
    BY <2>1, <2>2
<1> QED
  BY <1>2 DEF Moves

(* It has nothing to write, or cannot be written. *)
LEMMA DroppedKeeps ==
  ASSUME PlainInv, NEW f \in Names, KeyedInv(f), IsOpen, jn.jobs # <<>>, ~jn.written,
         Calmly(Rest, jn'), disk' = disk, slog' = slog, wire' = wire,
         fate' = IF Job.kind = "enqueue" THEN [fate EXCEPT ![Job.id] = "refused"] ELSE fate,
         budget' \in [BoundNames -> Nat], budget'["edits"] = budget["edits"]
  PROVE  PlainInv' /\ KeyedInv(f)'
<1>1. /\ Types /\ WrittenDone /\ WireInOrder /\ LoggedFits /\ FatesFit /\ WithinBounds
      /\ NamesRise(f) /\ FileKeyed(f) /\ MemoryKeyed(f) /\ WireKeyed(f) /\ LogKeyed(f)
      /\ AddsInOrder(f) /\ JobsKeyed(f) /\ CallKeyed(f) /\ jn \in Awake
  BY OpenJournal DEF PlainInv, KeyedInv
<1>2. /\ Rest \in Awake /\ Rest.snap = jn.snap /\ Rest.written = FALSE
      /\ Rest.pump = jn.pump /\ Job = jn.jobs[1]
      /\ Len(jn.jobs) \in Nat /\ 1 \in 1..Len(jn.jobs)
  BY <1>1, RestJournal
<1>3. /\ jn' \in Awake /\ jn'.snap = jn.snap /\ jn'.written = FALSE
      /\ SameCall(jn.pump, jn'.pump)
  BY <1>2 DEF Calmly, Awake
<1>4. Job.kind = "enqueue" => Job.id \in 1..Len(fate) /\ fate[Job.id] = "asked"
  BY <1>1, <1>2 DEF AddsInOrder, Adding
<1>5. /\ fate' \in Seq(Fates) /\ Len(fate') = Len(fate) /\ Len(fate) \in Nat
      /\ \A n \in 1..Len(fate) :
           \/ fate'[n] = fate[n]
           \/ Job.kind = "enqueue" /\ n = Job.id /\ fate'[n] = "refused"
  <2>1. fate \in Seq(Fates)
    BY <1>1 DEF Types
  <2>2. CASE Job.kind = "enqueue"
    <3>1. fate' = [fate EXCEPT ![Job.id] = "refused"] /\ "refused" \in Fates
      BY <2>2 DEF Fates
    <3> QED
      BY <1>4, <2>1, <2>2, <3>1
  <2>3. CASE Job.kind # "enqueue"
    BY <2>1, <2>3
  <2> QED
    BY <2>2, <2>3
<1>6. Types'
  BY <1>1, <1>3, <1>5 DEF Types, Awake
<1>7. /\ File' = File /\ UsedKeys' = UsedKeys /\ Entries' = Entries /\ Places' = Places
      /\ IsOpen'
  BY <1>3 DEF File, UsedKeys, Entries, Places, Awake, IsOpen
<1>8. SameDrops
  BY <1>4, <1>5 DEF SameDrops
<1>9. /\ NamesRise(f)' /\ FileKeyed(f)' /\ WireKeyed(f)' /\ LogKeyed(f)'
      /\ WireInOrder' /\ LoggedFits'
  BY <1>1, <1>6, <1>7, <1>8, FileStays
<1>10. MemoryKeyed(f)'
  BY <1>1, <1>3, <1>7 DEF MemoryKeyed, Keyed
<1>11. Extends(f, f) /\ LogGrows
  BY <1>1, <1>7 DEF Extends, LogGrows, Types
<1>12. CallKeyed(f)'
  BY <1>1, <1>3, <1>6, <1>11, CallStays
<1>13. Moves(f, 1)
  BY <1>1, RestMoves
<1>14. StillAdding(f, 1)
  <2>1. ASSUME NEW i \in 1..Len(jn.jobs), i > 1, Adding(i)
        PROVE  /\ jn.jobs[i].id \in 1..Len(fate')
               /\ fate'[jn.jobs[i].id] = "asked"
               /\ \A l \in UsedKeys' : f[l] < jn.jobs[i].id
    <3>1. /\ jn.jobs[i].id \in 1..Len(fate) /\ fate[jn.jobs[i].id] = "asked"
          /\ \A l \in UsedKeys : f[l] < jn.jobs[i].id
      BY <1>1, <2>1 DEF AddsInOrder
    <3>2. Job.kind = "enqueue" => Job.id < jn.jobs[i].id
      BY <1>1, <1>2, <2>1 DEF AddsInOrder, Adding
    <3>3. ~(Job.kind = "enqueue" /\ jn.jobs[i].id = Job.id)
      BY <1>4, <1>5, <3>1, <3>2
    <3> QED
      BY <1>5, <1>7, <3>1, <3>3
  <2> QED
    BY <2>1 DEF StillAdding
<1>15. AddsInOrder(f)' /\ JobsKeyed(f)'
  BY <1>1, <1>3, <1>6, <1>11, <1>13, <1>14, JobsMove
<1>16. WrittenDone'
  BY <1>3 DEF WrittenDone
<1>17. FatesFit'
  <2>1. ASSUME NEW n \in 1..Len(fate') PROVE fate'[n] = fate[n] \/ fate'[n] = "refused"
    BY <1>5
  <2> QED
    BY <1>1, <1>5, <1>7, <2>1 DEF FatesFit
<1>18. WithinBounds'
  BY <1>1, <1>5 DEF WithinBounds
<1> QED
  BY <1>6, <1>9, <1>10, <1>12, <1>15, <1>16, <1>17, <1>18 DEF PlainInv, KeyedInv

(* A mutation has nothing to write. *)
LEMMA SkipMutationKeeps ==
  ASSUME PlainInv, NEW f \in Names, KeyedInv(f), SkipMutation
  PROVE  PlainInv' /\ KeyedInv(f)'
<1>1. IsOpen
  BY OpenIfBusy DEF SkipMutation, Closed, KeyedInv, MemoryKeyed
<1>2. jn \in Awake /\ WithinBounds
  BY <1>1, OpenJournal
<1>3. Rest \in Awake
  BY <1>2, RestJournal DEF SkipMutation
<1>4. Calmly(Rest, jn')
  BY <1>3, SkippedCalm DEF SkipMutation
<1> QED
  BY <1>1, <1>2, <1>4, DroppedKeeps DEF SkipMutation, WithinBounds

(* A write fails. *)
LEMMA FailToWriteKeeps ==
  ASSUME PlainInv, NEW f \in Names, KeyedInv(f), FailToWrite
  PROVE  PlainInv' /\ KeyedInv(f)'
<1>1. IsOpen
  BY OpenIfBusy DEF FailToWrite, Closed, KeyedInv, MemoryKeyed
<1>2. jn \in Awake /\ WithinBounds
  BY <1>1, OpenJournal
<1>3. Rest \in Awake
  BY <1>2, RestJournal DEF FailToWrite
<1>4. Calmly(Rest, jn')
  BY <1>3, FailedCalm DEF FailToWrite
<1>5. budget' \in [BoundNames -> Nat] /\ budget'["edits"] = budget["edits"]
  <2>1. budget["unsaved"] > 0 /\ budget' = [budget EXCEPT !["unsaved"] = @ - 1]
    BY DEF FailToWrite, Spend
  <2>2. "unsaved" \in BoundNames /\ budget \in [BoundNames -> Nat]
    BY <1>2 DEF BoundNames, WithinBounds
  <2> QED
    BY <2>1, <2>2
<1> QED
  BY <1>1, <1>4, <1>5, DroppedKeeps DEF FailToWrite


-----------------------------------------------------------------------------
(* The file is written. *)

(* The entries that stay are where h says they were. *)
Thinned(h) ==
  /\ \A i \in Places' : /\ h[i] \in Places
                        /\ Entries'[i].key = Entries[h[i]].key
                        /\ Entries'[i].id = Entries[h[i]].id
  /\ \A i, j \in Places' : i < j => h[i] < h[j]
  /\ \A i \in Places : \/ \E j \in Places' : h[j] = i
                       \/ InLog(Entries[i].key)
                       \/ fate'[Entries[i].id] = "cancelled"

(* Only what has left the file is cancelled. *)
Cancels(f) ==
  /\ fate' \in Seq(Fates) /\ Len(fate') = Len(fate)
  /\ \A n \in 1..Len(fate) :
       \/ fate'[n] = fate[n]
       \/ /\ fate'[n] = "cancelled"
          /\ \E k \in UsedKeys : n = f[k]
          /\ \A j \in Places' : Entries'[j].id # n

(* A mutation is written and waits for its promise; the rest is as it was. *)
Written ==
  /\ jn' \in Awake /\ jn'.snap = jn.snap /\ jn'.jobs = jn.jobs /\ jn'.pump = jn.pump
  /\ jn'.written = TRUE
  /\ disk' \in SnapSet
  /\ slog' = slog /\ wire' = wire /\ budget' = budget

(* An entry leaves the file when it is in the log or is cancelled. *)
LEMMA ThinnedKeeps ==
  ASSUME PlainInv, NEW f \in Names, KeyedInv(f), IsOpen, ~jn.written, Written, WrittenDone',
         File'.next = File.next, File'.seq >= File.seq,
         NEW h, Thinned(h), Cancels(f)
  PROVE  PlainInv' /\ KeyedInv(f)'
<1>1. /\ Types /\ WithinBounds /\ WireInOrder /\ LoggedFits /\ FatesFit
      /\ NamesRise(f) /\ FileKeyed(f) /\ MemoryKeyed(f) /\ WireKeyed(f) /\ LogKeyed(f)
      /\ AddsInOrder(f) /\ JobsKeyed(f) /\ CallKeyed(f)
  BY DEF PlainInv, KeyedInv
<1>2. fate \in Seq(Fates) /\ Len(fate) \in Nat /\ jn \in JournalSet /\ slog \in Seq(EntrySet)
  BY <1>1 DEF Types
<1>3. Types'
  BY <1>1 DEF Types, Written, Cancels, Awake
<1>4. File \in SnapSet /\ Entries \in Seq(EntrySet)
  BY <1>1, FileIsSnap
<1>5. File' = disk' /\ disk' # Nothing
  BY NothingIsNoFile DEF Written, File
<1>6. File' \in SnapSet /\ Entries' \in Seq(EntrySet)
  BY <1>5 DEF Written, SnapSet, Entries
<1>7. UsedKeys' = UsedKeys /\ IsOpen'
  BY DEF UsedKeys, Written, Awake, IsOpen
<1>8. /\ \A i \in Places : Entries[i].key \in UsedKeys /\ Entries[i].id = f[Entries[i].key]
      /\ \A k \in UsedKeys : f[k] \in 1..Len(fate)
  BY <1>1 DEF FileKeyed, Keyed, NamesRise
<1>9. \A n \in 1..Len(fate) : fate[n] = "cancelled" => fate'[n] = "cancelled"
  BY DEF Cancels
<1>10. NamesRise(f)'
  BY <1>1, <1>7 DEF NamesRise, Cancels
<1>11. FileKeyed(f)'
  <2>1. ASSUME NEW i \in Places'
        PROVE  KeyedNext(f, Entries'[i]) /\ fate'[Entries'[i].id] # "cancelled"
    <3>1. h[i] \in Places /\ Entries'[i].key = Entries[h[i]].key
          /\ Entries'[i].id = Entries[h[i]].id
      BY <2>1 DEF Thinned
    <3>2. Entries'[i].key \in UsedKeys /\ Entries'[i].id = f[Entries'[i].key]
          /\ Entries'[i].id \in 1..Len(fate)
      BY <1>8, <3>1
    <3>3. fate[Entries'[i].id] # "cancelled"
      BY <1>1, <3>1 DEF FileKeyed
    <3> QED
      BY <1>7, <2>1, <3>2, <3>3 DEF KeyedNext, Cancels
  <2>2. ASSUME NEW i \in Places', NEW j \in Places', i < j
        PROVE  Entries'[i].key < Entries'[j].key
    BY <1>1, <2>2 DEF Thinned, FileKeyed
  <2> QED
    BY <2>1, <2>2 DEF FileKeyed, Keyed, KeyedNext
<1>12. MemoryKeyed(f)'
  BY <1>1, <1>5, <1>7 DEF MemoryKeyed, Keyed, Written
<1>13. Extends(f, f) /\ LogGrows
  BY <1>2, <1>7 DEF Extends, LogGrows, Written
<1>14. CallKeyed(f)'
  <2>1. SameCall(jn.pump, jn'.pump)
    BY DEF SameCall, Written
  <2> QED
    BY <1>1, <1>3, <1>13, <2>1, CallStays
<1>15. Moves(f, 0)
  <2>1. \A i \in 1..Len(jn.jobs) : i + 0 = i
    OBVIOUS
  <2> QED
    BY <2>1 DEF Moves, Written
<1>16. StillAdding(f, 0)
  <2>1. ASSUME NEW i \in 1..Len(jn.jobs), Adding(i)
        PROVE  /\ jn.jobs[i].id \in 1..Len(fate')
               /\ fate'[jn.jobs[i].id] = "asked"
               /\ \A l \in UsedKeys' : f[l] < jn.jobs[i].id
    <3>1. /\ jn.jobs[i].id \in 1..Len(fate) /\ fate[jn.jobs[i].id] = "asked"
          /\ \A l \in UsedKeys : f[l] < jn.jobs[i].id
      BY <1>1, <2>1 DEF AddsInOrder
    <3>2. ~ \E k \in UsedKeys : jn.jobs[i].id = f[k]
      BY <1>8, <3>1
    <3> QED
      BY <1>7, <3>1, <3>2 DEF Cancels
  <2> QED
    BY <2>1 DEF StillAdding
<1>17. AddsInOrder(f)' /\ JobsKeyed(f)'
  BY <1>1, <1>3, <1>13, <1>15, <1>16, JobsMove
<1>18. WireKeyed(f)'
  <2>1. ASSUME NEW r \in wire
        PROVE  /\ KeyedNext(f, r) /\ r.base <= File'.seq
               /\ \A i \in Places' : r.key <= Entries'[i].key
               /\ \/ InLog(r.key) \/ fate'[r.id] = "cancelled"
                  \/ \E i \in Places' : Entries'[i].key = r.key
    <3>1. /\ r.key \in UsedKeys /\ r.id = f[r.key] /\ r.base <= File.seq /\ r.id \in 1..Len(fate)
          /\ \A i \in Places : r.key <= Entries[i].key
          /\ InLog(r.key) \/ Held(r.key) \/ fate[r.id] = "cancelled"
      BY <1>1, <1>8, <2>1 DEF WireKeyed, Keyed
    <3>2. r.base \in Nat /\ File.seq \in Nat /\ File'.seq \in Nat
      BY <1>1, <1>4, <1>6, <2>1 DEF Types, RequestSet, SnapSet
    <3>3. \A i \in Places' : r.key <= Entries'[i].key
      BY <3>1 DEF Thinned
    <3>4. ASSUME Held(r.key)
          PROVE  \/ InLog(r.key) \/ fate'[r.id] = "cancelled"
                 \/ \E i \in Places' : Entries'[i].key = r.key
      <4>1. PICK i \in Places : Entries[i].key = r.key
        BY <3>4 DEF Held
      <4>2. Entries[i].id = r.id
        BY <1>8, <3>1, <4>1
      <4> QED
        BY <4>1, <4>2 DEF Thinned
    <3> QED
      BY <1>7, <1>9, <3>1, <3>2, <3>3, <3>4 DEF KeyedNext
  <2> QED
    BY <2>1 DEF WireKeyed, Keyed, KeyedNext, InLog, Held, Written
<1>19. WireInOrder' /\ LoggedFits'
  BY <1>1 DEF WireInOrder, LoggedFits, Logged, Written
<1>20. LogKeyed(f)'
  <2>1. ASSUME NEW p \in 1..Len(slog), slog[p].key # 0
        PROVE  /\ KeyedNext(f, slog[p])
               /\ \A i \in Places' : slog[p].key <= Entries'[i].key
    <3>1. Keyed(f, slog[p]) /\ \A i \in Places : slog[p].key <= Entries[i].key
      BY <1>1, <2>1 DEF LogKeyed
    <3> QED
      BY <1>7, <3>1 DEF Keyed, KeyedNext, Thinned
  <2> QED
    BY <2>1 DEF LogKeyed, Keyed, KeyedNext, Written
<1>21. FatesFit'
  <2>1. ASSUME NEW n \in 1..Len(fate), fate'[n] = "acked"
        PROVE  \E p \in 1..Len(slog) : slog[p].key # 0 /\ slog[p].id = n
    <3>1. fate[n] = "acked"
      BY <2>1 DEF Cancels
    <3> QED
      BY <1>1, <3>1 DEF FatesFit
  <2>2. ASSUME NEW n \in 1..Len(fate), fate'[n] = "kept"
        PROVE  \/ \E p \in 1..Len(slog) : slog[p].key # 0 /\ slog[p].id = n
               \/ \E i \in Places' : Entries'[i].id = n
    <3>1. fate[n] = "kept"
      BY <2>2 DEF Cancels
    <3>2. CASE \E p \in 1..Len(slog) : slog[p].key # 0 /\ slog[p].id = n
      BY <3>2
    <3>3. CASE \E i \in Places : Entries[i].id = n
      <4>1. PICK i \in Places : Entries[i].id = n
        BY <3>3
      <4>2. CASE \E j \in Places' : h[j] = i
        BY <4>1, <4>2 DEF Thinned
      <4>3. CASE InLog(Entries[i].key)
        <5>1. PICK p \in 1..Len(slog) : slog[p].key = Entries[i].key
          BY <4>3 DEF InLog
        <5>2. slog[p].key # 0
          BY <1>8, <5>1 DEF UsedKeys
        <5>3. slog[p].id = f[slog[p].key]
          BY <1>1, <5>2 DEF LogKeyed, Keyed
        <5>4. slog[p].id = n
          BY <1>8, <4>1, <5>1, <5>3
        <5> QED
          BY <5>2, <5>4
      <4> QED
        BY <2>2, <4>1, <4>2, <4>3 DEF Thinned
    <3> QED
      BY <1>1, <3>1, <3>2, <3>3 DEF FatesFit
  <2> QED
    BY <2>1, <2>2 DEF FatesFit, Written, Cancels
<1>22. WithinBounds'
  BY <1>1 DEF WithinBounds, Written, Cancels
<1> QED
  BY <1>3, <1>10, <1>11, <1>12, <1>14, <1>17, <1>18, <1>19, <1>20, <1>21, <1>22
  DEF PlainInv, KeyedInv

(* An entry joins the file under the key that is next. *)
LEMMA AddedKeeps ==
  ASSUME PlainInv, NEW f \in Names, KeyedInv(f), IsOpen, ~jn.written, Written,
         jn.jobs # <<>>, Job.kind = "enqueue", fate' = fate, disk' = Add(File, Job)
  PROVE  PlainInv' /\ \E g \in Names : KeyedInv(g)'
<1>1. /\ Types /\ WithinBounds /\ WireInOrder /\ LoggedFits /\ FatesFit
      /\ NamesRise(f) /\ FileKeyed(f) /\ MemoryKeyed(f) /\ WireKeyed(f) /\ LogKeyed(f)
      /\ AddsInOrder(f) /\ JobsKeyed(f) /\ CallKeyed(f)
  BY DEF PlainInv, KeyedInv
<1>2. fate \in Seq(Fates) /\ Len(fate) \in Nat /\ jn \in Awake /\ slog \in Seq(EntrySet)
  BY <1>1, OpenJournal DEF Types
<1>3. Types'
  BY <1>1 DEF Types, Written, Awake
<1>4. File \in SnapSet /\ Entries \in Seq(EntrySet) /\ Len(Entries) \in Nat /\ File.next \in Nat \ {0}
      /\ File.seq \in Nat
  BY <1>1, FileIsSnap DEF SnapSet
<1>5. File' = disk' /\ disk' # Nothing
  BY NothingIsNoFile DEF Written, File
<1>6. Job = jn.jobs[1] /\ Job \in JobSet /\ Len(jn.jobs) \in Nat /\ 1 \in 1..Len(jn.jobs)
  BY <1>2, RestJournal
<1>7. Job.id \in Nat /\ Job.on \in Nat
  BY <1>6 DEF JobSet
<1> DEFINE e == [key |-> File.next, id |-> Job.id, on |-> Job.on]
           n == File.next
<1>8. e \in EntrySet /\ e.key = n /\ e.id = Job.id
  BY <1>4, <1>7 DEF EntrySet
<1>9. Entries' = Append(Entries, e) /\ File'.next = n + 1 /\ File'.seq = File.seq
  <2>1. Add(File, Job) = [File EXCEPT !.entries = Append(File.entries, e), !.next = n + 1]
    BY DEF Add
  <2>2. /\ Add(File, Job).entries = Append(File.entries, e)
        /\ Add(File, Job).next = n + 1 /\ Add(File, Job).seq = File.seq
    BY <1>4, <2>1 DEF SnapSet
  <2> QED
    BY <1>5, <2>2 DEF Entries
<1> HIDE DEF e
<1>10. /\ Len(Entries') = Len(Entries) + 1
       /\ \A i \in Places : Entries'[i] = Entries[i]
       /\ Entries'[Len(Entries) + 1] = e
       /\ Places' = Places \cup {Len(Entries) + 1}
  BY <1>4, <1>8, <1>9 DEF Places
<1>11. UsedKeys' = UsedKeys \cup {n} /\ n \notin UsedKeys /\ UsedKeys \subseteq Nat
       /\ (\A k \in UsedKeys : k < n) /\ n \in Nat
  BY <1>4, <1>9 DEF UsedKeys
<1> HIDE DEF n
<1>12. PICK g \in Names : g[n] = Job.id /\ \A k \in UsedKeys : g[k] = f[k]
  <2> DEFINE h == [f EXCEPT ![n] = Job.id]
  <2>1. h \in Names /\ h[n] = Job.id /\ \A k \in UsedKeys : h[k] = f[k]
    BY <1>7, <1>11 DEF Names
  <2> QED
    BY <2>1
<1>13. /\ \A k \in UsedKeys : f[k] \in 1..Len(fate) /\ f[k] < Job.id
       /\ Job.id \in 1..Len(fate) /\ fate[Job.id] = "asked"
  BY <1>1, <1>6 DEF NamesRise, AddsInOrder, Adding
<1>14. Extends(f, g) /\ LogGrows
  <2>1. LogGrows
    BY <1>2 DEF LogGrows, Written
  <2>2. UsedKeys \subseteq UsedKeys'
    BY <1>11
  <2> QED
    BY <1>12, <2>1, <2>2 DEF Extends
<1>15. NamesRise(g)'
  <2>1. ASSUME NEW k \in UsedKeys \cup {n} PROVE g[k] \in 1..Len(fate)
    BY <1>12, <1>13
  <2>2. ASSUME NEW k \in UsedKeys \cup {n}, NEW l \in UsedKeys \cup {n}, k < l
        PROVE  g[k] < g[l]
    <3>1. k \in UsedKeys
      BY <1>11, <2>2
    <3>2. CASE l = n
      BY <1>12, <1>13, <3>1, <3>2
    <3>3. CASE l \in UsedKeys
      BY <1>1, <1>12, <2>2, <3>1, <3>3 DEF NamesRise
    <3> QED
      BY <3>2, <3>3
  <2> QED
    BY <1>11, <2>1, <2>2 DEF NamesRise
<1>16. FileKeyed(g)'
  <2>1. ASSUME NEW i \in Places \cup {Len(Entries) + 1}
        PROVE  KeyedNext(g, Entries'[i]) /\ fate[Entries'[i].id] # "cancelled"
    <3>1. CASE i = Len(Entries) + 1
      BY <1>8, <1>10, <1>11, <1>12, <1>13, <3>1 DEF KeyedNext
    <3>2. CASE i \in Places
      <4>1. Keyed(f, Entries[i]) /\ fate[Entries[i].id] # "cancelled"
        BY <1>1, <3>2 DEF FileKeyed
      <4> QED
        BY <1>10, <1>14, <3>2, <4>1, KeyedStays
    <3> QED
      BY <3>1, <3>2
  <2>2. ASSUME NEW i \in Places \cup {Len(Entries) + 1}, NEW j \in Places \cup {Len(Entries) + 1},
               i < j
        PROVE  Entries'[i].key < Entries'[j].key
    <3>1. i \in Places
      BY <1>4, <2>2 DEF Places
    <3>2. CASE j \in Places
      BY <1>1, <1>10, <2>2, <3>1, <3>2 DEF FileKeyed
    <3>3. CASE j = Len(Entries) + 1
      <4>1. Entries[i].key \in UsedKeys
        BY <1>1, <3>1 DEF FileKeyed, Keyed
      <4> QED
        BY <1>8, <1>10, <1>11, <3>1, <3>3, <4>1
    <3> QED
      BY <3>2, <3>3
  <2> QED
    BY <1>10, <2>1, <2>2 DEF FileKeyed, Keyed, KeyedNext
<1>17. MemoryKeyed(g)'
  <2>1. ASSUME NEW i \in 1..Len(jn.snap.entries) PROVE KeyedNext(g, jn.snap.entries[i])
    BY <1>1, <1>14, KeyedStays DEF MemoryKeyed
  <2>2. IsOpen'
    BY DEF Written, Awake, IsOpen
  <2> QED
    BY <1>5, <2>1, <2>2 DEF MemoryKeyed, Keyed, KeyedNext, Written
<1>18. CallKeyed(g)'
  <2>1. SameCall(jn.pump, jn'.pump)
    BY DEF SameCall, Written
  <2> QED
    BY <1>1, <1>3, <1>14, <2>1, CallStays
<1>19. Moves(f, 0)
  <2>1. \A i \in 1..Len(jn.jobs) : i + 0 = i
    OBVIOUS
  <2> QED
    BY <2>1 DEF Moves, Written
<1>20. StillAdding(g, 0)
  <2>1. ASSUME NEW i \in 1..Len(jn.jobs), Adding(i)
        PROVE  /\ jn.jobs[i].id \in 1..Len(fate)
               /\ fate[jn.jobs[i].id] = "asked"
               /\ i > 1 => \A l \in UsedKeys' : g[l] < jn.jobs[i].id
    <3>1. /\ jn.jobs[i].id \in 1..Len(fate) /\ fate[jn.jobs[i].id] = "asked"
          /\ \A l \in UsedKeys : f[l] < jn.jobs[i].id
      BY <1>1, <2>1 DEF AddsInOrder
    <3>2. i > 1 => Job.id < jn.jobs[i].id
      BY <1>1, <1>6, <2>1 DEF AddsInOrder, Adding
    <3>3. ASSUME i > 1, NEW l \in UsedKeys' PROVE g[l] < jn.jobs[i].id
      BY <1>11, <1>12, <3>1, <3>2, <3>3
    <3> QED
      BY <3>1, <3>3
  <2> QED
    BY <2>1 DEF StillAdding, Written
<1>21. AddsInOrder(g)' /\ JobsKeyed(g)'
  BY <1>1, <1>3, <1>14, <1>19, <1>20, JobsMove
<1>22. WrittenDone'
  <2>1. Job' = Job /\ jn'.jobs # <<>>
    BY DEF Written, Job
  <2>2. \E i \in Places' : Entries'[i].id = Job.id
    BY <1>8, <1>10
  <2> QED
    BY <2>1, <2>2 DEF WrittenDone
<1>23. WireKeyed(g)'
  <2>1. ASSUME NEW r \in wire
        PROVE  /\ KeyedNext(g, r) /\ r.base <= File'.seq
               /\ \A i \in Places' : r.key <= Entries'[i].key
               /\ \/ InLog(r.key) \/ fate[r.id] = "cancelled"
                  \/ \E i \in Places' : Entries'[i].key = r.key
    <3>1. /\ Keyed(f, r) /\ r.base <= File.seq
          /\ \A i \in Places : r.key <= Entries[i].key
          /\ InLog(r.key) \/ Held(r.key) \/ fate[r.id] = "cancelled"
      BY <1>1, <2>1 DEF WireKeyed
    <3>2. KeyedNext(g, r)
      BY <1>14, <3>1, KeyedStays
    <3>3. r.key <= n
      <4>1. r.key \in UsedKeys
        BY <3>1 DEF Keyed
      <4>2. r.key < n /\ r.key \in Nat /\ n \in Nat
        BY <1>11, <4>1
      <4> QED
        BY <4>2
    <3>4. \A i \in Places' : r.key <= Entries'[i].key
      BY <1>8, <1>10, <3>1, <3>3
    <3>5. Held(r.key) => \E i \in Places' : Entries'[i].key = r.key
      BY <1>10 DEF Held
    <3> QED
      BY <1>9, <3>1, <3>2, <3>4, <3>5
  <2> QED
    BY <2>1 DEF WireKeyed, Keyed, KeyedNext, InLog, Held, Written
<1>24. WireInOrder' /\ LoggedFits'
  BY <1>1 DEF WireInOrder, LoggedFits, Logged, Written
<1>25. LogKeyed(g)'
  <2>1. ASSUME NEW p \in 1..Len(slog), slog[p].key # 0
        PROVE  /\ KeyedNext(g, slog[p])
               /\ \A i \in Places' : slog[p].key <= Entries'[i].key
    <3>1. Keyed(f, slog[p]) /\ \A i \in Places : slog[p].key <= Entries[i].key
      BY <1>1, <2>1 DEF LogKeyed
    <3>2. KeyedNext(g, slog[p])
      BY <1>14, <3>1, KeyedStays
    <3>3. slog[p].key <= n
      <4>1. slog[p].key \in UsedKeys
        BY <3>1 DEF Keyed
      <4>2. slog[p].key < n /\ slog[p].key \in Nat /\ n \in Nat
        BY <1>11, <4>1
      <4> QED
        BY <4>2
    <3> QED
      BY <1>8, <1>10, <3>1, <3>2, <3>3
  <2> QED
    BY <2>1 DEF LogKeyed, Keyed, KeyedNext, Written
<1>26. FatesFit'
  <2>1. ASSUME NEW m, \E i \in Places : Entries[i].id = m
        PROVE  \E i \in Places' : Entries'[i].id = m
    BY <1>10, <2>1
  <2> QED
    BY <1>1, <2>1 DEF FatesFit, Written
<1>27. WithinBounds'
  BY <1>1 DEF WithinBounds, Written
<1> QED
  BY <1>3, <1>12, <1>15, <1>16, <1>17, <1>18, <1>21, <1>22, <1>23, <1>24, <1>25, <1>26, <1>27
  DEF PlainInv, KeyedInv

(* What is left when the entry at a place is taken out. *)
LEMMA RemovedAt ==
  ASSUME NEW S, NEW s \in Seq(S), NEW i \in 1..Len(s)
  PROVE  /\ RemoveAt(s, i) \in Seq(S) /\ Len(RemoveAt(s, i)) = Len(s) - 1
         /\ \A j \in 1..(Len(s) - 1) : RemoveAt(s, i)[j] = IF j < i THEN s[j] ELSE s[j + 1]
<1> DEFINE a == SubSeq(s, 1, i - 1)
           b == SubSeq(s, i + 1, Len(s))
<1>1. /\ Len(s) \in Nat /\ i \in Nat /\ 1 <= i /\ i <= Len(s)
      /\ a \in Seq(S) /\ b \in Seq(S)
  OBVIOUS
<1>2. /\ Len(a) = i - 1 /\ Len(b) = Len(s) - i
      /\ \A j \in 1..(i - 1) : a[j] = s[j]
      /\ \A j \in 1..(Len(s) - i) : b[j] = s[i + j]
  BY <1>1
<1>3. RemoveAt(s, i) = a \o b
  BY DEF RemoveAt
<1> HIDE DEF a, b
<1>4. a \o b \in Seq(S) /\ Len(a \o b) = Len(s) - 1
  <2>1. a \o b \in Seq(S) /\ Len(a \o b) = Len(a) + Len(b)
    BY <1>1
  <2> QED
    BY <1>1, <1>2, <2>1
<1>5. ASSUME NEW j \in 1..(Len(s) - 1)
      PROVE  (a \o b)[j] = IF j < i THEN s[j] ELSE s[j + 1]
  <2>1. CASE j < i
    <3>1. j \in 1..Len(a)
      BY <1>1, <1>2, <2>1
    <3> QED
      BY <1>1, <1>2, <2>1, <3>1
  <2>2. CASE ~(j < i)
    <3>1. j \in (Len(a) + 1)..(Len(a) + Len(b)) /\ j - Len(a) \in 1..(Len(s) - i)
          /\ i + (j - Len(a)) = j + 1
      BY <1>1, <1>2, <2>2
    <3>2. (a \o b)[j] = b[j - Len(a)]
      BY <1>1, <3>1
    <3>3. b[j - Len(a)] = s[j + 1]
      BY <1>2, <3>1
    <3> QED
      BY <2>2, <3>2, <3>3
  <2> QED
    BY <2>1, <2>2
<1> QED
  BY <1>3, <1>4, <1>5

(* What the mutation whose turn it is finds. *)
LEMMA WriteSteps ==
  ASSUME PlainInv, NEW f \in Names, KeyedInv(f), WriteMutation
  PROVE  /\ IsOpen /\ jn \in Awake /\ ~jn.written /\ File = jn.snap /\ File \in SnapSet
         /\ Entries \in Seq(EntrySet) /\ Len(Entries) \in Nat /\ Places = 1..Len(Entries)
         /\ jn.jobs # <<>> /\ Job = jn.jobs[1] /\ Job \in JobSet /\ Applies(jn, Job)
         /\ jn' \in Awake /\ jn'.snap = jn.snap /\ jn'.jobs = jn.jobs /\ jn'.pump = jn.pump
         /\ jn'.written = TRUE /\ Job' = Job
         /\ disk' = Writes(File, Job)
         /\ slog' = slog /\ wire' = wire /\ budget' = budget
         /\ fate \in Seq(Fates)
         /\ Job.kind \in {"cancel", "commit"} => Keyed(f, Job)
         /\ Job.kind = "commit" => InLog(Job.key)
<1>1. Types /\ MemoryKeyed(f) /\ JobsKeyed(f)
  BY DEF PlainInv, KeyedInv
<1>2. jn.jobs # <<>> /\ ~jn.written /\ Applies(jn, Job) /\ disk' = Writes(jn.snap, Job)
      /\ slog' = slog /\ wire' = wire /\ budget' = budget
      /\ jn' = [jn EXCEPT !.written = TRUE,
                           !.blocked = (Job.kind = "cancel" /\ jn.status = "blocked")]
  BY DEF WriteMutation
<1>3. IsOpen
  BY <1>1, <1>2, OpenIfBusy DEF Closed, MemoryKeyed
<1>4. jn \in Awake
  BY <1>3, OpenJournal
<1>5. disk = jn.snap /\ jn.snap \in SnapSet
  BY <1>1, <1>2, <1>3, <1>4 DEF MemoryKeyed, Awake, JournalSet
<1>6. File = jn.snap /\ Entries \in Seq(EntrySet) /\ Len(Entries) \in Nat
      /\ Places = 1..Len(Entries)
  BY <1>5, NothingIsNoFile DEF File, Entries, SnapSet, Places
<1>7. Job = jn.jobs[1] /\ Job \in JobSet /\ 1 \in 1..Len(jn.jobs)
  BY <1>2, <1>4, RestJournal
<1>8. jn' \in Awake /\ jn'.snap = jn.snap /\ jn'.jobs = jn.jobs /\ jn'.pump = jn.pump
      /\ jn'.written = TRUE
  <2> DEFINE b == (Job.kind = "cancel" /\ jn.status = "blocked")
  <2>1. b \in BOOLEAN
    OBVIOUS
  <2>2. jn' = [jn EXCEPT !.written = TRUE, !.blocked = b]
    BY <1>2
  <2> HIDE DEF b
  <2> QED
    BY <1>4, <2>1, <2>2 DEF Awake, JournalSet
<1>9. Job' = Job
  BY <1>8 DEF Job
<1> QED
  BY <1>1, <1>2, <1>3, <1>4, <1>5, <1>6, <1>7, <1>8, <1>9 DEF Types, JobsKeyed

(* Nothing leaves the file. *)
LEMMA AllStay ==
  ASSUME Types, Entries' \in Seq(EntrySet), Entries \in Seq(EntrySet), fate' = fate,
         Len(Entries') = Len(Entries),
         \A i \in Places : Entries'[i].key = Entries[i].key /\ Entries'[i].id = Entries[i].id
  PROVE  Thinned([i \in Places |-> i]) /\ \A f : Cancels(f)
<1>1. Places' = Places /\ Len(Entries) \in Nat
  BY DEF Places
<1> DEFINE h == [i \in Places |-> i]
<1>2. \A i \in Places : h[i] = i
  OBVIOUS
<1> HIDE DEF h
<1>3. Thinned(h)
  BY <1>1, <1>2 DEF Thinned
<1>4. ASSUME NEW f PROVE Cancels(f)
  BY DEF Cancels, Types
<1> QED
  BY <1>3, <1>4 DEF h

(* The attempt is counted: nothing else of the file changes. *)
LEMMA MarkWritten ==
  ASSUME PlainInv, NEW f \in Names, KeyedInv(f), WriteMutation, Job.kind = "mark"
  PROVE  PlainInv' /\ KeyedInv(f)' /\ fate' = fate /\ IdsOf(Entries)' = IdsOf(Entries)
<1>1. /\ IsOpen /\ ~jn.written /\ File = jn.snap /\ File \in SnapSet
      /\ Entries \in Seq(EntrySet) /\ jn.jobs # <<>>
      /\ jn' \in Awake /\ jn'.snap = jn.snap /\ jn'.jobs = jn.jobs /\ jn'.pump = jn.pump
      /\ jn'.written = TRUE /\ Job' = Job /\ disk' = Writes(File, Job)
      /\ slog' = slog /\ wire' = wire /\ budget' = budget /\ Applies(jn, Job)
  BY WriteSteps
<1>2. disk' = File /\ fate' = fate /\ jn.snap.entries # <<>>
  BY <1>1 DEF Writes, Mark, Applies, CanMark, WriteMutation
<1>3. File' = File /\ Written
  BY <1>1, <1>2, NothingIsNoFile DEF File, Written
<1>4. Entries' = Entries /\ Places' = Places /\ Entries # <<>>
  BY <1>1, <1>2, <1>3 DEF Entries, Places
<1>5. WrittenDone'
  BY <1>1, <1>4 DEF WrittenDone
<1>6. File'.next = File.next /\ File'.seq >= File.seq
  BY <1>1, <1>3 DEF SnapSet
<1>7. Thinned([i \in Places |-> i]) /\ Cancels(f)
  BY <1>1, <1>2, <1>4, AllStay DEF PlainInv
<1>8. PlainInv' /\ KeyedInv(f)'
  BY <1>1, <1>3, <1>5, <1>6, <1>7, ThinnedKeeps
<1> QED
  BY <1>2, <1>4, <1>8 DEF IdsOf

(* The entries are rebased on the head that the resync found. *)
LEMMA RebaseWritten ==
  ASSUME PlainInv, NEW f \in Names, KeyedInv(f), WriteMutation, Job.kind = "rebase"
  PROVE  PlainInv' /\ KeyedInv(f)' /\ fate' = fate /\ IdsOf(Entries)' = IdsOf(Entries)
<1>1. /\ IsOpen /\ ~jn.written /\ File = jn.snap /\ File \in SnapSet
      /\ Entries \in Seq(EntrySet) /\ Len(Entries) \in Nat /\ Places = 1..Len(Entries)
      /\ jn.jobs # <<>> /\ Job \in JobSet
      /\ jn' \in Awake /\ jn'.snap = jn.snap /\ jn'.jobs = jn.jobs /\ jn'.pump = jn.pump
      /\ jn'.written = TRUE /\ Job' = Job /\ disk' = Writes(File, Job)
      /\ slog' = slog /\ wire' = wire /\ budget' = budget
  BY WriteSteps
<1>2. disk' = Rebase(File, Job) /\ fate' = fate
  BY <1>1 DEF Writes, WriteMutation
<1>3. Job.seq \in Nat /\ File.seq \in Nat /\ Job.keys \in SUBSET Nat
      /\ File.next \in Nat \ {0}
  BY <1>1 DEF JobSet, SnapSet
<1> DEFINE a == [i \in Places |-> IF Entries[i].key \in Job.keys
                                  THEN [Entries[i] EXCEPT !.on = Job.seq] ELSE Entries[i]]
           q == Later(File.seq, Job.seq)
<1>4. q \in Nat /\ q >= File.seq
  BY <1>3 DEF Later
<1>5. \A i \in Places : /\ Entries[i] \in EntrySet
                        /\ [Entries[i] EXCEPT !.on = Job.seq] \in EntrySet
                        /\ [Entries[i] EXCEPT !.on = Job.seq].key = Entries[i].key
                        /\ [Entries[i] EXCEPT !.on = Job.seq].id = Entries[i].id
  <2>1. \A i \in Places : Entries[i] \in EntrySet
    BY <1>1
  <2>2. \A e \in EntrySet : /\ [e EXCEPT !.on = Job.seq] \in EntrySet
                            /\ [e EXCEPT !.on = Job.seq].key = e.key
                            /\ [e EXCEPT !.on = Job.seq].id = e.id
    BY <1>3 DEF EntrySet
  <2> QED
    BY <2>1, <2>2
<1>6. a \in Seq(EntrySet) /\ Len(a) = Len(Entries)
      /\ \A i \in Places : a[i].key = Entries[i].key /\ a[i].id = Entries[i].id
  <2>1. \A i \in 1..Len(Entries) : a[i] \in EntrySet
    BY <1>1, <1>5
  <2>2. a \in [1..Len(Entries) -> EntrySet]
    BY <1>1, <2>1
  <2>3. a \in Seq(EntrySet)
    BY <1>1, <2>2
  <2>4. Len(a) = Len(Entries)
    BY <1>1, <2>2, <2>3
  <2>5. \A i \in Places : a[i].key = Entries[i].key /\ a[i].id = Entries[i].id
    BY <1>5
  <2> QED
    BY <2>3, <2>4, <2>5
<1>7. Rebase(File, Job) = [File EXCEPT !.seq = q, !.entries = a]
  <2>1. DOMAIN File.entries = Places
    BY <1>1 DEF Entries
  <2> QED
    BY <2>1 DEF Rebase, Entries
<1> HIDE DEF a, q
<1>8. disk' \in SnapSet /\ disk'.entries = a /\ disk'.seq = q /\ disk'.next = File.next
  <2>1. File \in SnapSet /\ a \in Seq(EntrySet) /\ q \in Nat
    BY <1>1, <1>4, <1>6
  <2>2. disk' = [File EXCEPT !.seq = q, !.entries = a]
    BY <1>2, <1>7
  <2> QED
    BY <2>1, <2>2 DEF SnapSet
<1>9. File' = disk' /\ Written
  BY <1>1, <1>8, NothingIsNoFile DEF File, Written
<1>10. Entries' = a
  BY <1>8, <1>9 DEF Entries
<1>11. WrittenDone'
  BY <1>1 DEF WrittenDone
<1>12. Thinned([i \in Places |-> i]) /\ Cancels(f)
  BY <1>1, <1>2, <1>6, <1>10, AllStay DEF PlainInv
<1>13. PlainInv' /\ KeyedInv(f)'
  BY <1>1, <1>4, <1>8, <1>9, <1>11, <1>12, ThinnedKeeps
<1>14. IdsOf(Entries)' = IdsOf(Entries)
  BY <1>1, <1>6, <1>10 DEF IdsOf
<1> QED
  BY <1>2, <1>13, <1>14

(* The entry that was acknowledged leaves the file. *)
LEMMA CommitWritten ==
  ASSUME PlainInv, NEW f \in Names, KeyedInv(f), WriteMutation, Job.kind = "commit"
  PROVE  /\ PlainInv' /\ KeyedInv(f)' /\ fate' = fate
         /\ Entries # <<>> /\ Entries' = Tail(Entries) /\ InLog(Entries[1].key)
<1>1. /\ IsOpen /\ ~jn.written /\ File = jn.snap /\ File \in SnapSet
      /\ Entries \in Seq(EntrySet) /\ Len(Entries) \in Nat /\ Places = 1..Len(Entries)
      /\ jn.jobs # <<>> /\ Job \in JobSet /\ Applies(jn, Job)
      /\ jn' \in Awake /\ jn'.snap = jn.snap /\ jn'.jobs = jn.jobs /\ jn'.pump = jn.pump
      /\ jn'.written = TRUE /\ Job' = Job /\ disk' = Writes(File, Job)
      /\ slog' = slog /\ wire' = wire /\ budget' = budget
      /\ fate \in Seq(Fates) /\ Keyed(f, Job) /\ InLog(Job.key)
  BY WriteSteps
<1>2. fate' = fate /\ File.entries # <<>> /\ Head(File.entries).key = Job.key
      /\ disk' = [File EXCEPT !.entries = Tail(@), !.seq = Later(@, Job.seq)]
  BY <1>1 DEF Writes, WriteMutation, Applies, HeadKey
<1> DEFINE a == Tail(Entries)
           q == Later(File.seq, Job.seq)
           h == [i \in 1..(Len(Entries) - 1) |-> i + 1]
<1>3. q \in Nat /\ q >= File.seq
  BY <1>1 DEF Later, JobSet, SnapSet
<1>4. /\ a \in Seq(EntrySet) /\ Len(a) = Len(Entries) - 1 /\ 1 \in Places
      /\ Entries[1].key = Job.key
      /\ \A i \in 1..(Len(Entries) - 1) : a[i] = Entries[i + 1]
  BY <1>1, <1>2 DEF Entries
<1>5. disk' = [File EXCEPT !.entries = a, !.seq = q]
  BY <1>2 DEF Entries
<1> HIDE DEF a, q
<1>6. disk' \in SnapSet /\ disk'.entries = a /\ disk'.seq = q /\ disk'.next = File.next
  BY <1>1, <1>3, <1>4, <1>5 DEF SnapSet
<1>7. File' = disk' /\ Written
  BY <1>1, <1>6, NothingIsNoFile DEF File, Written
<1>8. Entries' = a /\ Places' = 1..(Len(Entries) - 1)
  BY <1>4, <1>6, <1>7 DEF Entries, Places
<1>9. WrittenDone'
  <2>1. FileKeyed(f)
    BY DEF KeyedInv
  <2>2. Job.id = Entries[1].id
    BY <1>1, <1>4, <2>1 DEF FileKeyed, Keyed
  <2>3. fate[Job.id] # "cancelled"
    BY <1>4, <2>1, <2>2 DEF FileKeyed
  <2> QED
    BY <1>1, <1>2, <2>3 DEF WrittenDone
<1>10. Thinned(h)
  <2>1. \A i \in 1..(Len(Entries) - 1) : h[i] = i + 1
    OBVIOUS
  <2> HIDE DEF h
  <2>2. ASSUME NEW i \in Places
        PROVE  (\E j \in 1..(Len(Entries) - 1) : h[j] = i) \/ InLog(Entries[i].key)
    <3>1. CASE i = 1
      BY <1>1, <1>4, <3>1
    <3>2. CASE i # 1
      <4>1. i - 1 \in 1..(Len(Entries) - 1) /\ (i - 1) + 1 = i
        BY <1>1, <3>2
      <4>2. h[i - 1] = i
        BY <2>1, <4>1
      <4> QED
        BY <4>1, <4>2
    <3> QED
      BY <3>1, <3>2
  <2>3. \A i \in 1..(Len(Entries) - 1) : h[i] \in Places /\ a[i] = Entries[h[i]]
    BY <1>1, <1>4, <2>1
  <2>4. \A i, j \in 1..(Len(Entries) - 1) : i < j => h[i] < h[j]
    BY <2>1
  <2> QED
    BY <1>8, <2>2, <2>3, <2>4 DEF Thinned
<1>11. Cancels(f)
  BY <1>1, <1>2 DEF Cancels
<1> HIDE DEF h
<1>12. PlainInv' /\ KeyedInv(f)'
  BY <1>1, <1>3, <1>6, <1>7, <1>9, <1>10, <1>11, ThinnedKeeps
<1> QED
  BY <1>1, <1>2, <1>4, <1>8, <1>12 DEF a, Entries

(* An entry that is cancelled leaves the file. *)
LEMMA CancelWritten ==
  ASSUME PlainInv, NEW f \in Names, KeyedInv(f), WriteMutation, Job.kind = "cancel"
  PROVE  /\ PlainInv' /\ KeyedInv(f)'
         /\ PlaceOf(File, Job.key) \in Places
         /\ Entries' = RemoveAt(Entries, PlaceOf(File, Job.key))
         /\ Entries[PlaceOf(File, Job.key)].id = Job.id
         /\ Job.id \in 1..Len(fate) /\ fate' = [fate EXCEPT ![Job.id] = "cancelled"]
<1>1. /\ IsOpen /\ ~jn.written /\ File = jn.snap /\ File \in SnapSet
      /\ Entries \in Seq(EntrySet) /\ Len(Entries) \in Nat /\ Places = 1..Len(Entries)
      /\ jn.jobs # <<>> /\ Job \in JobSet /\ Applies(jn, Job)
      /\ jn' \in Awake /\ jn'.snap = jn.snap /\ jn'.jobs = jn.jobs /\ jn'.pump = jn.pump
      /\ jn'.written = TRUE /\ Job' = Job /\ disk' = Writes(File, Job)
      /\ slog' = slog /\ wire' = wire /\ budget' = budget
      /\ fate \in Seq(Fates) /\ Keyed(f, Job)
  BY WriteSteps
<1> DEFINE p == PlaceOf(File, Job.key)
           a == RemoveAt(Entries, p)
           h == [i \in 1..(Len(Entries) - 1) |-> IF i < p THEN i ELSE i + 1]
<1>2. /\ fate' = [fate EXCEPT ![Job.id] = "cancelled"] /\ Job.key \in KeysOf(File)
      /\ disk' = [File EXCEPT !.entries = a]
  BY <1>1 DEF Writes, WriteMutation, Applies, Entries
<1>3. p \in Places /\ Entries[p].key = Job.key
  <2>1. \E i \in 1..Len(File.entries) : File.entries[i].key = Job.key
    BY <1>2 DEF KeysOf
  <2> QED
    BY <1>1, <2>1 DEF PlaceOf, Entries
<1>4. NamesRise(f) /\ FileKeyed(f)
  BY DEF KeyedInv
<1>5. Entries[p].id = Job.id /\ Job.id \in 1..Len(fate) /\ Job.key \in UsedKeys
      /\ Job.id = f[Job.key]
  BY <1>1, <1>3, <1>4 DEF NamesRise, FileKeyed, Keyed
<1> HIDE DEF p
<1>6. /\ a \in Seq(EntrySet) /\ Len(a) = Len(Entries) - 1
      /\ \A i \in 1..(Len(Entries) - 1) : a[i] = IF i < p THEN Entries[i] ELSE Entries[i + 1]
  BY <1>1, <1>3, RemovedAt
<1> HIDE DEF a
<1>7. disk' \in SnapSet /\ disk'.entries = a /\ disk'.seq = File.seq /\ disk'.next = File.next
  BY <1>1, <1>2, <1>6 DEF SnapSet
<1>8. File' = disk' /\ Written
  BY <1>1, <1>7, NothingIsNoFile DEF File, Written
<1>9. Entries' = a /\ Places' = 1..(Len(Entries) - 1)
  BY <1>6, <1>7, <1>8 DEF Entries, Places
<1>10. WrittenDone'
  BY <1>1 DEF WrittenDone
<1>11. \A i \in 1..(Len(Entries) - 1) : h[i] = IF i < p THEN i ELSE i + 1
  OBVIOUS
<1> HIDE DEF h
<1>12. \A i \in 1..(Len(Entries) - 1) : h[i] \in Places /\ h[i] # p /\ a[i] = Entries[h[i]]
  <2>1. ASSUME NEW i \in 1..(Len(Entries) - 1)
        PROVE  h[i] \in Places /\ h[i] # p /\ a[i] = Entries[h[i]]
    <3>1. p \in Nat
      BY <1>1, <1>3
    <3>2. CASE i < p
      BY <1>1, <1>6, <1>11, <3>1, <3>2
    <3>3. CASE ~(i < p)
      BY <1>1, <1>6, <1>11, <3>1, <3>3
    <3> QED
      BY <3>2, <3>3
  <2> QED
    BY <2>1
<1>13. fate'[Job.id] = "cancelled" /\ \A n \in 1..Len(fate) : n # Job.id => fate'[n] = fate[n]
  BY <1>1, <1>2, <1>5
<1>14. Thinned(h)
  <2>1. ASSUME NEW i \in Places
        PROVE  (\E j \in 1..(Len(Entries) - 1) : h[j] = i) \/ fate'[Entries[i].id] = "cancelled"
    <3>1. CASE i = p
      BY <1>5, <1>13, <3>1
    <3>2. CASE i < p
      <4>1. i \in 1..(Len(Entries) - 1)
        BY <1>1, <1>3, <3>2
      <4> QED
        BY <1>11, <3>2, <4>1
    <3>3. CASE i > p
      <4>1. i - 1 \in 1..(Len(Entries) - 1) /\ ~(i - 1 < p) /\ (i - 1) + 1 = i
        BY <1>1, <1>3, <3>3
      <4>2. h[i - 1] = i
        BY <1>11, <4>1
      <4> QED
        BY <4>1, <4>2
    <3> QED
      BY <1>1, <1>3, <3>1, <3>2, <3>3
  <2>2. \A i, j \in 1..(Len(Entries) - 1) : i < j => h[i] < h[j]
    BY <1>1, <1>3, <1>11
  <2> QED
    BY <1>9, <1>12, <2>1, <2>2 DEF Thinned
<1>15. Cancels(f)
  <2>1. ASSUME NEW j \in Places' PROVE Entries'[j].id # Job.id
    <3>1. h[j] \in Places /\ h[j] # p /\ Entries'[j] = Entries[h[j]]
      BY <1>9, <1>12, <2>1
    <3>2. Entries[h[j]].key # Entries[p].key
      <4>1. h[j] < p \/ p < h[j]
        BY <1>1, <1>3, <3>1
      <4>2. /\ h[j] < p => Entries[h[j]].key < Entries[p].key
            /\ p < h[j] => Entries[p].key < Entries[h[j]].key
        BY <1>3, <1>4, <3>1 DEF FileKeyed
      <4>3. Entries[h[j]] \in EntrySet /\ Entries[p] \in EntrySet
        BY <1>1, <1>3, <3>1
      <4>4. Entries[h[j]].key \in Nat /\ Entries[p].key \in Nat
        BY <4>3 DEF EntrySet
      <4> QED
        BY <4>1, <4>2, <4>4
    <3>3. /\ Entries[h[j]].key \in UsedKeys /\ Entries[h[j]].id = f[Entries[h[j]].key]
      BY <1>4, <3>1 DEF FileKeyed, Keyed
    <3>4. \A k, l \in UsedKeys : k \in Int /\ (k < l => f[k] < f[l]) /\ f[k] \in Int
      BY <1>4 DEF NamesRise, UsedKeys
    <3>5. f[Entries[h[j]].key] # f[Job.key]
      BY <1>3, <1>5, <3>2, <3>3, <3>4
    <3> QED
      BY <1>5, <3>1, <3>3, <3>5
  <2>2. fate' \in Seq(Fates) /\ Len(fate') = Len(fate)
    BY <1>1, <1>2, <1>5 DEF Fates
  <2> QED
    BY <1>5, <1>13, <2>1, <2>2 DEF Cancels
<1>16. File'.next = File.next /\ File'.seq >= File.seq
  BY <1>1, <1>7, <1>8 DEF SnapSet
<1>17. PlainInv' /\ KeyedInv(f)'
  BY <1>1, <1>8, <1>10, <1>14, <1>15, <1>16, ThinnedKeeps
<1> QED
  BY <1>2, <1>3, <1>5, <1>9, <1>17 DEF p, a

(* A submission joins the file. *)
LEMMA EnqueueWritten ==
  ASSUME PlainInv, NEW f \in Names, KeyedInv(f), WriteMutation, Job.kind = "enqueue"
  PROVE  /\ PlainInv' /\ \E g \in Names : KeyedInv(g)'
         /\ Entries' = Append(Entries, [key |-> File.next, id |-> Job.id, on |-> Job.on])
         /\ fate' = fate
<1>1. /\ IsOpen /\ ~jn.written /\ File = jn.snap /\ File \in SnapSet
      /\ Entries \in Seq(EntrySet) /\ jn.jobs # <<>> /\ Job \in JobSet
      /\ jn' \in Awake /\ jn'.snap = jn.snap /\ jn'.jobs = jn.jobs /\ jn'.pump = jn.pump
      /\ jn'.written = TRUE /\ Job' = Job /\ disk' = Writes(File, Job)
      /\ slog' = slog /\ wire' = wire /\ budget' = budget
  BY WriteSteps
<1>2. disk' = Add(File, Job) /\ fate' = fate
  BY <1>1 DEF Writes, WriteMutation
<1> DEFINE e == [key |-> File.next, id |-> Job.id, on |-> Job.on]
           a == Append(Entries, e)
           n == File.next + 1
<1>3. e \in EntrySet /\ n \in Nat \ {0}
  BY <1>1 DEF EntrySet, SnapSet, JobSet
<1>4. Add(File, Job) = [File EXCEPT !.entries = a, !.next = n]
  BY DEF Add, Entries
<1> HIDE DEF e
<1>5. a \in Seq(EntrySet)
  BY <1>1, <1>3
<1> HIDE DEF a, n
<1>6. disk' \in SnapSet /\ disk'.entries = a
  <2>1. File \in SnapSet /\ disk' = [File EXCEPT !.entries = a, !.next = n]
    BY <1>1, <1>2, <1>4
  <2> QED
    BY <1>3, <1>5, <2>1 DEF SnapSet
<1>7. Written
  BY <1>1, <1>6 DEF Written
<1>8. Entries' = a
  BY <1>6, NothingIsNoFile DEF Entries, File
<1>9. PlainInv' /\ \E g \in Names : KeyedInv(g)'
  BY <1>1, <1>2, <1>7, AddedKeeps
<1> QED
  BY <1>2, <1>8, <1>9 DEF a, e

(* Whatever is written, the names stand, one more being given. *)
LEMMA WriteMutationKeeps ==
  ASSUME PlainInv, NEW f \in Names, KeyedInv(f), WriteMutation
  PROVE  PlainInv' /\ \E g \in Names : KeyedInv(g)'
<1>1. Job \in JobSet /\ Applies(jn, Job)
  BY WriteSteps
<1>2. Job.kind \in {"mark", "enqueue", "cancel", "commit", "rebase"}
  BY <1>1 DEF JobSet, Applies
<1> QED
  BY <1>2, MarkWritten, RebaseWritten, CommitWritten, CancelWritten, EnqueueWritten

-----------------------------------------------------------------------------
(* The promise of a written mutation resolves. *)

(* The request of a pump that goes on: what is next in the file, at its head. *)
LEMMA AskKeeps ==
  ASSUME Types, NEW f \in Names, FileKeyed(f), WireKeyed(f), WireInOrder, LogKeyed(f),
         Entries # <<>>, disk' = disk, slog' = slog, fate' = fate,
         jn'.pump.phase = "asked", jn'.pump.entry = Entries[1], jn'.pump.base = File.seq,
         wire' \in {wire, wire \cup {Request(jn'.pump)}}
  PROVE  /\ wire' \in SUBSET RequestSet
         /\ WireKeyed(f)' /\ WireInOrder' /\ CallKeyed(f)'
<1> DEFINE q == Request(jn'.pump)
<1>1. File \in SnapSet /\ Entries \in Seq(EntrySet) /\ 1 \in Places /\ File.seq \in Nat
  <2>1. File \in SnapSet /\ Entries \in Seq(EntrySet)
    BY FileIsSnap
  <2>2. Len(Entries) \in Nat \ {0}
    BY <2>1
  <2> QED
    BY <2>1, <2>2 DEF Places, SnapSet
<1>2. Entries[1] \in EntrySet
  BY <1>1 DEF Places
<1>3. q \in RequestSet /\ q.key = Entries[1].key /\ q.id = Entries[1].id /\ q.base = File.seq
  BY <1>1, <1>2 DEF Request, RequestSet, EntrySet
<1>4. wire \in SUBSET RequestSet /\ slog \in Seq(EntrySet)
  BY DEF Types
<1> HIDE DEF q
<1>5. wire' \in {wire, wire \cup {q}}
  BY DEF q
<1>6. File' = File /\ Entries' = Entries /\ Places' = Places /\ UsedKeys' = UsedKeys
  BY DEF File, Entries, Places, UsedKeys
<1>7. wire' \in SUBSET RequestSet
  BY <1>3, <1>4, <1>5
<1>8. Keyed(f, Entries[1])
  BY <1>1 DEF FileKeyed
<1>9. WireKeyed(f)'
  <2>1. ASSUME NEW r \in wire \cup {q}
        PROVE  /\ Keyed(f, r)
               /\ r.base <= File.seq
               /\ \A i \in Places : r.key <= Entries[i].key
               /\ InLog(r.key) \/ Held(r.key) \/ fate[r.id] = "cancelled"
    <3>1. CASE r \in wire
      BY <3>1 DEF WireKeyed
    <3>2. CASE r = q
      <4>1. \A i \in Places : Entries[1].key <= Entries[i].key
        <5>1. ASSUME NEW i \in Places PROVE Entries[1].key <= Entries[i].key
          <6>1. i = 1 \/ 1 < i
            BY DEF Places
          <6>2. 1 < i => Entries[1].key < Entries[i].key
            BY <1>1 DEF FileKeyed
          <6>3. Entries[i] \in EntrySet
            BY <1>1 DEF Places
          <6>4. Entries[1].key \in Nat /\ Entries[i].key \in Nat
            BY <1>2, <6>3 DEF EntrySet
          <6> QED
            BY <6>1, <6>2, <6>4
        <5> QED
          BY <5>1
      <4>2. Held(q.key)
        BY <1>1, <1>3 DEF Held
      <4> QED
        BY <1>1, <1>3, <1>8, <3>2, <4>1, <4>2 DEF Keyed
    <3> QED
      BY <3>1, <3>2
  <2> QED
    BY <1>5, <1>6, <2>1 DEF WireKeyed, Keyed, InLog, Held
<1>10. \A r \in wire : r.key <= q.key /\ r.base <= q.base /\ r.key \in Nat
  BY <1>1, <1>3, <1>4 DEF WireKeyed, RequestSet
<1>11. \A p \in 1..Len(slog) : ~(slog[p].key > q.key)
  <2>1. ASSUME NEW p \in 1..Len(slog) PROVE ~(slog[p].key > q.key)
    <3>1. slog[p].key \in Nat /\ q.key \in Nat
      <4>1. slog[p] \in EntrySet
        BY <1>4
      <4> QED
        BY <1>3, <4>1 DEF EntrySet, RequestSet
    <3>2. slog[p].key # 0 => slog[p].key <= q.key
      BY <1>1, <1>3 DEF LogKeyed
    <3> QED
      BY <3>1, <3>2
  <2> QED
    BY <2>1
<1>12. WireInOrder'
  <2>1. ASSUME NEW r \in wire \cup {q}, NEW t \in wire \cup {q}, r.key < t.key
        PROVE  r.base <= t.base
    <3>1. CASE r \in wire /\ t \in wire
      BY <2>1, <3>1 DEF WireInOrder
    <3>2. CASE r \in wire /\ t = q
      BY <1>10, <3>2
    <3>3. CASE r = q
      <4>1. t.key <= q.key /\ t.key \in Nat /\ q.key \in Nat
        BY <1>3, <1>10 DEF RequestSet
      <4> QED
        BY <2>1, <3>3, <4>1
    <3> QED
      BY <3>1, <3>2, <3>3
  <2>2. ASSUME NEW r \in wire \cup {q}, NEW p \in 1..Len(slog), slog[p].key > r.key
        PROVE  r.base < p
    BY <1>11, <2>2 DEF WireInOrder
  <2> QED
    BY <1>5, <2>1, <2>2 DEF WireInOrder
<1>13. CallKeyed(f)'
  BY <1>6, <1>8 DEF CallKeyed, Keyed
<1> QED
  BY <1>7, <1>9, <1>12, <1>13

(* Whatever is resumed, the names stand. *)
LEMMA ResumeMutationKeeps ==
  ASSUME PlainInv, NEW f \in Names, KeyedInv(f), ResumeMutation
  PROVE  /\ PlainInv' /\ KeyedInv(f)'
         /\ SameDrops /\ Len(fate') = Len(fate)
<1> DEFINE s == [Rest EXCEPT !.snap = disk]
<1>1. /\ Types /\ WrittenDone /\ WireInOrder /\ LoggedFits /\ FatesFit /\ WithinBounds
      /\ NamesRise(f) /\ FileKeyed(f) /\ MemoryKeyed(f) /\ WireKeyed(f) /\ LogKeyed(f)
      /\ AddsInOrder(f) /\ JobsKeyed(f) /\ CallKeyed(f)
  BY DEF PlainInv, KeyedInv
<1>2. /\ jn.jobs # <<>> /\ jn.written /\ jn' = Resumed(s, Job)
      /\ disk' = disk /\ slog' = slog /\ budget' = budget
      /\ wire' = IF jn'.pump.phase = "asked" /\ jn.pump.phase # "asked"
                 THEN wire \cup {Request(jn'.pump)} ELSE wire
      /\ fate' = CASE Job.kind = "enqueue" -> [fate EXCEPT ![Job.id] = "kept"]
                   [] Job.kind = "commit" -> [fate EXCEPT ![Job.id] = "acked"]
                   [] OTHER -> fate
  BY DEF ResumeMutation
<1>3. IsOpen /\ jn \in Awake
  <2>1. IsOpen
    BY <1>1, <1>2, OpenIfBusy DEF Closed, MemoryKeyed
  <2> QED
    BY <2>1, OpenJournal
<1>4. disk \in SnapSet /\ File = disk /\ Entries = disk.entries
  BY <1>1, <1>3 DEF Types, MemoryKeyed, File, Entries
<1>5. /\ Rest \in Awake /\ Rest.written = FALSE /\ Rest.pump = jn.pump
      /\ Rest.jobs = Tail(jn.jobs) /\ Job = jn.jobs[1] /\ Job \in JobSet
      /\ Len(jn.jobs) \in Nat /\ 1 \in 1..Len(jn.jobs)
      /\ Len(Tail(jn.jobs)) = Len(jn.jobs) - 1
      /\ \A i \in 1..(Len(jn.jobs) - 1) : Tail(jn.jobs)[i] = jn.jobs[i + 1]
  BY <1>2, <1>3, RestJournal
<1>6. /\ s \in Awake /\ s.snap = disk /\ s.written = FALSE /\ s.pump = jn.pump
      /\ s.jobs = Rest.jobs
  BY <1>4, <1>5 DEF Awake, JournalSet
<1> HIDE DEF s
<1>7. Job.kind # "settle"
  BY <1>1, <1>2 DEF WrittenDone
<1>8. \/ Calmly(s, jn')
      \/ Job.kind = "mark" /\ jn' = Ask(s)
  BY <1>2, <1>5, <1>6, <1>7, ResumedSteps
<1>9. \/ Calmly(s, jn')
      \/ /\ Job.kind = "mark" /\ Entries # <<>>
         /\ jn' \in Awake /\ jn'.snap = disk /\ jn'.written = FALSE /\ jn'.jobs = Rest.jobs
         /\ jn'.pump.phase = "asked" /\ jn'.pump.entry = Entries[1]
         /\ jn'.pump.base = File.seq
  <2>1. ASSUME Job.kind = "mark", jn' = Ask(s)
        PROVE  /\ Entries # <<>>
               /\ jn' \in Awake /\ jn'.snap = disk /\ jn'.written = FALSE
               /\ jn'.jobs = Rest.jobs
               /\ jn'.pump.phase = "asked" /\ jn'.pump.entry = Entries[1]
               /\ jn'.pump.base = File.seq
    <3>1. Entries # <<>>
      BY <1>1, <1>2, <2>1 DEF WrittenDone
    <3> QED
      BY <1>4, <1>6, <2>1, <3>1, AskSteps
  <2> QED
    BY <1>8, <2>1
<1>10. jn' \in Awake /\ jn'.snap = disk /\ jn'.written = FALSE
  BY <1>6, <1>9, CalmlyAwake DEF Calmly
<1>11. /\ File' = File /\ UsedKeys' = UsedKeys /\ Entries' = Entries /\ Places' = Places
       /\ IsOpen'
  BY <1>2, <1>10 DEF File, UsedKeys, Entries, Places, Awake, IsOpen
<1>12. fate \in Seq(Fates) /\ slog \in Seq(EntrySet)
  BY <1>1 DEF Types
<1>13. Job.kind = "enqueue" =>
         /\ Job.id \in 1..Len(fate) /\ fate[Job.id] = "asked"
         /\ \E i \in Places : Entries[i].id = Job.id
  BY <1>1, <1>2, <1>5 DEF AddsInOrder, Adding, WrittenDone
<1>14. Job.kind = "commit" =>
         /\ Job.id \in 1..Len(fate) /\ fate[Job.id] # "cancelled"
         /\ \E k \in UsedKeys : Job.id = f[k]
         /\ \E p \in 1..Len(slog) : slog[p].key # 0 /\ slog[p].id = Job.id
  <2>1. SUFFICES ASSUME Job.kind = "commit"
                 PROVE  /\ Job.id \in 1..Len(fate) /\ fate[Job.id] # "cancelled"
                        /\ \E k \in UsedKeys : Job.id = f[k]
                        /\ \E p \in 1..Len(slog) : slog[p].key # 0 /\ slog[p].id = Job.id
    OBVIOUS
  <2>2. Keyed(f, Job) /\ InLog(Job.key)
    BY <1>1, <1>5, <2>1 DEF JobsKeyed
  <2>3. Job.id \in 1..Len(fate) /\ fate[Job.id] # "cancelled" /\ Job.key \in UsedKeys
        /\ Job.id = f[Job.key]
    BY <1>1, <1>2, <2>1, <2>2 DEF WrittenDone, Keyed, NamesRise
  <2>4. PICK p \in 1..Len(slog) : slog[p].key = Job.key
    BY <2>2 DEF InLog
  <2>5. slog[p].key # 0
    BY <2>3, <2>4 DEF UsedKeys
  <2>6. slog[p].id = Job.id
    BY <1>1, <2>3, <2>4, <2>5 DEF LogKeyed, Keyed
  <2> QED
    BY <2>3, <2>5, <2>6
<1>15. /\ fate' \in Seq(Fates) /\ Len(fate') = Len(fate) /\ Len(fate) \in Nat
       /\ \A n \in 1..Len(fate) :
            \/ fate'[n] = fate[n]
            \/ n = Job.id /\ Job.kind = "enqueue" /\ fate'[n] = "kept"
            \/ n = Job.id /\ Job.kind = "commit" /\ fate'[n] = "acked"
  <2>1. CASE Job.kind = "enqueue"
    <3>1. fate' = [fate EXCEPT ![Job.id] = "kept"] /\ "kept" \in Fates
      BY <1>2, <2>1 DEF Fates
    <3> QED
      BY <1>12, <1>13, <2>1, <3>1
  <2>2. CASE Job.kind = "commit"
    <3>1. fate' = [fate EXCEPT ![Job.id] = "acked"] /\ "acked" \in Fates
      BY <1>2, <2>2 DEF Fates
    <3> QED
      BY <1>12, <1>14, <2>2, <3>1
  <2>3. CASE Job.kind \notin {"enqueue", "commit"}
    <3>1. fate' = fate
      BY <1>2, <2>3
    <3> QED
      BY <1>12, <3>1
  <2> QED
    BY <2>1, <2>2, <2>3
<1>16. SameDrops
  BY <1>13, <1>14, <1>15 DEF SameDrops
<1>17. MemoryKeyed(f)'
  <2>1. \A i \in 1..Len(disk.entries) : KeyedNext(f, disk.entries[i])
    BY <1>1, <1>4, <1>11 DEF FileKeyed, Keyed, KeyedNext, Places
  <2>2. disk' # Nothing /\ jn'.snap = disk /\ disk' = disk
    BY <1>2, <1>4, <1>10, NothingIsNoFile
  <2> QED
    BY <1>11, <2>1, <2>2 DEF MemoryKeyed, Keyed, KeyedNext
<1>18. Extends(f, f) /\ LogGrows
  BY <1>2, <1>11, <1>12 DEF Extends, LogGrows
<1>19. Moves(f, 1)
  <2>1. CASE Calmly(s, jn')
    BY <1>2, <1>3, <1>6, <2>1, RestMoves
  <2>2. CASE jn'.jobs = Rest.jobs
    <3>1. \A i \in 1..Len(jn'.jobs) : i + 1 \in 1..Len(jn.jobs) /\ jn'.jobs[i] = jn.jobs[i + 1]
      BY <1>5, <2>2
    <3> QED
      BY <3>1 DEF Moves
  <2> QED
    BY <1>9, <2>1, <2>2
<1>20. StillAdding(f, 1)
  <2>1. ASSUME NEW i \in 1..Len(jn.jobs), i > 1, Adding(i)
        PROVE  /\ jn.jobs[i].id \in 1..Len(fate')
               /\ fate'[jn.jobs[i].id] = "asked"
               /\ \A l \in UsedKeys' : f[l] < jn.jobs[i].id
    <3>1. /\ jn.jobs[i].id \in 1..Len(fate) /\ fate[jn.jobs[i].id] = "asked"
          /\ \A l \in UsedKeys : f[l] < jn.jobs[i].id
      BY <1>1, <2>1 DEF AddsInOrder
    <3>2. Job.kind = "enqueue" => Job.id < jn.jobs[i].id
      BY <1>1, <1>5, <2>1 DEF AddsInOrder, Adding
    <3>3. Job.kind = "commit" => Job.id < jn.jobs[i].id
      BY <1>14, <3>1
    <3>4. ~(Job.kind \in {"enqueue", "commit"} /\ jn.jobs[i].id = Job.id)
      BY <3>1, <3>2, <3>3
    <3> QED
      BY <1>11, <1>15, <3>1, <3>4
  <2> QED
    BY <2>1 DEF StillAdding
<1>21. WrittenDone'
  BY <1>10 DEF WrittenDone
<1>22. FatesFit'
  <2>1. ASSUME NEW n \in 1..Len(fate'), fate'[n] = "acked"
        PROVE  \E p \in 1..Len(slog) : slog[p].key # 0 /\ slog[p].id = n
    BY <1>1, <1>14, <1>15, <2>1 DEF FatesFit
  <2>2. ASSUME NEW n \in 1..Len(fate'), fate'[n] = "kept"
        PROVE  \/ \E p \in 1..Len(slog) : slog[p].key # 0 /\ slog[p].id = n
               \/ \E i \in Places : Entries[i].id = n
    BY <1>1, <1>13, <1>15, <2>2 DEF FatesFit
  <2> QED
    BY <1>2, <1>11, <2>1, <2>2 DEF FatesFit
<1>23. WithinBounds'
  BY <1>1, <1>2, <1>15 DEF WithinBounds
<1>24. CASE Calmly(s, jn')
  <2>1. wire' = wire
    BY <1>2, <1>6, <1>24 DEF Calmly, SameCall
  <2>2. Types'
    BY <1>1, <1>2, <1>10, <1>15, <2>1 DEF Types, Awake
  <2>3. /\ NamesRise(f)' /\ FileKeyed(f)' /\ WireKeyed(f)' /\ LogKeyed(f)'
        /\ WireInOrder' /\ LoggedFits'
    BY <1>1, <1>2, <1>11, <1>16, <2>1, <2>2, FileStays
  <2>4. SameCall(jn.pump, jn'.pump)
    BY <1>6, <1>24 DEF Calmly
  <2>5. CallKeyed(f)'
    BY <1>1, <1>18, <2>2, <2>4, CallStays
  <2>6. AddsInOrder(f)' /\ JobsKeyed(f)'
    BY <1>1, <1>10, <1>18, <1>19, <1>20, <2>2, JobsMove
  <2> QED
    BY <1>15, <1>16, <1>17, <1>21, <1>22, <1>23, <2>2, <2>3, <2>5, <2>6 DEF PlainInv, KeyedInv
<1>25. CASE /\ Job.kind = "mark" /\ Entries # <<>>
            /\ jn'.pump.phase = "asked" /\ jn'.pump.entry = Entries[1]
            /\ jn'.pump.base = File.seq
  <2>1. wire' \in {wire, wire \cup {Request(jn'.pump)}}
    BY <1>2
  <2>2. fate' = fate
    BY <1>2, <1>25
  <2>3. /\ wire' \in SUBSET RequestSet
        /\ WireKeyed(f)' /\ WireInOrder' /\ CallKeyed(f)'
    BY <1>1, <1>2, <1>25, <2>1, <2>2, AskKeeps
  <2>4. Types'
    BY <1>1, <1>2, <1>10, <1>15, <2>3 DEF Types, Awake
  <2>5. NamesRise(f)' /\ FileKeyed(f)' /\ LogKeyed(f)' /\ LoggedFits'
    BY <1>1, <1>2, <1>11, <2>2 DEF NamesRise, FileKeyed, LogKeyed, LoggedFits, Logged, Keyed
  <2>6. AddsInOrder(f)' /\ JobsKeyed(f)'
    BY <1>1, <1>10, <1>18, <1>19, <1>20, <2>4, JobsMove
  <2> QED
    BY <1>15, <1>16, <1>17, <1>21, <1>22, <1>23, <2>3, <2>4, <2>5, <2>6 DEF PlainInv, KeyedInv
<1> QED
  BY <1>9, <1>24, <1>25

-----------------------------------------------------------------------------
(* The invariant holds from the start and every step keeps it. *)
LEMMA InitKeyed == JournalInit => OutboxInv
<1> DEFINE f == [k \in Nat |-> 0]
<1> SUFFICES ASSUME JournalInit PROVE OutboxInv
  OBVIOUS
<1>1. /\ disk = Nothing /\ jn = Unopened /\ wire = {} /\ slog = <<>> /\ fate = <<>>
      /\ budget \in Bounds
  BY DEF JournalInit
<1>2. File = Empty /\ Entries = <<>> /\ Places = {} /\ UsedKeys = {} /\ File.next = 1
  BY <1>1 DEF File, Entries, Places, UsedKeys, Empty
<1>3. Types
  BY <1>1, UnopenedIsJournal DEF Types
<1>4. WithinBounds
  <2>1. budget \in [BoundNames -> Nat] /\ budget.edits <= MaxEdits /\ "edits" \in BoundNames
    BY <1>1, JournalAssumption DEF BoundNames
  <2> QED
    BY <1>1, <2>1 DEF WithinBounds
<1>5. ~IsOpen /\ jn.jobs = <<>> /\ jn.written = FALSE /\ jn.pump = Idle
      /\ jn.snap.entries = <<>>
  BY <1>1 DEF IsOpen, Unopened, Empty
<1>6. 1..Len(slog) = {} /\ 1..Len(fate) = {} /\ 1..Len(jn.jobs) = {}
      /\ 1..Len(jn.snap.entries) = {}
  BY <1>1, <1>5
<1>7. Logged = <<>>
  <2>1. Logging!Folded(<<>>, <<>>) = <<>>
    BY Logging!FoldEmpty
  <2> QED
    BY <1>1, <2>1, LoggingIsFold DEF Logged
<1>8. WrittenDone /\ WireInOrder /\ FatesFit
  BY <1>1, <1>5, <1>6 DEF WrittenDone, WireInOrder, FatesFit
<1>9. LoggedFits
  <2>1. <<>> \in Seq(Nat) /\ 1..Len(<<>>) = {}
    OBVIOUS
  <2> QED
    BY <1>6, <1>7, <2>1 DEF LoggedFits
<1>10. f \in Names
  BY DEF Names
<1> HIDE DEF f
<1>11. NamesRise(f) /\ FileKeyed(f)
  BY <1>2 DEF NamesRise, FileKeyed
<1>12. MemoryKeyed(f)
  BY <1>1, <1>5, <1>6 DEF MemoryKeyed
<1>13. AddsInOrder(f) /\ JobsKeyed(f)
  BY <1>6 DEF AddsInOrder, JobsKeyed
<1>14. CallKeyed(f) /\ WireKeyed(f) /\ LogKeyed(f)
  BY <1>1, <1>5, <1>6 DEF CallKeyed, Called, Idle, WireKeyed, LogKeyed
<1> QED
  BY <1>3, <1>4, <1>8, <1>9, <1>10, <1>11, <1>12, <1>13, <1>14
  DEF OutboxInv, PlainInv, KeyedInv

(* Nothing happens. *)
LEMMA StutterKeeps ==
  ASSUME PlainInv, NEW f \in Names, KeyedInv(f), UNCHANGED jvars
  PROVE  PlainInv' /\ KeyedInv(f)'
<1>1. /\ Types /\ WrittenDone /\ WireInOrder /\ LoggedFits /\ FatesFit /\ WithinBounds
      /\ NamesRise(f) /\ FileKeyed(f) /\ MemoryKeyed(f) /\ WireKeyed(f) /\ LogKeyed(f)
      /\ AddsInOrder(f) /\ JobsKeyed(f) /\ CallKeyed(f)
  BY DEF PlainInv, KeyedInv
<1>2. disk' = disk /\ jn' = jn /\ wire' = wire /\ slog' = slog /\ fate' = fate
      /\ budget' = budget
  BY DEF jvars
<1>3. Types' /\ WithinBounds' /\ SameDrops
  BY <1>1, <1>2 DEF Types, WithinBounds, SameDrops
<1>4. /\ File' = File /\ UsedKeys' = UsedKeys /\ Entries' = Entries /\ Places' = Places
  BY <1>2 DEF File, UsedKeys, Entries, Places
<1>5. /\ NamesRise(f)' /\ FileKeyed(f)' /\ WireKeyed(f)' /\ LogKeyed(f)'
      /\ WireInOrder' /\ LoggedFits'
  BY <1>1, <1>2, <1>3, <1>4, FileStays
<1>6. MemoryKeyed(f)' /\ CallKeyed(f)'
  BY <1>1, <1>2, <1>4 DEF MemoryKeyed, IsOpen, CallKeyed, Called, Keyed, InLog
<1>7. AddsInOrder(f)' /\ JobsKeyed(f)'
  BY <1>1, <1>2, <1>4 DEF AddsInOrder, Adding, JobsKeyed, Keyed, InLog
<1>8. WrittenDone' /\ FatesFit'
  BY <1>1, <1>2, <1>4 DEF WrittenDone, Job, FatesFit
<1> QED
  BY <1>3, <1>5, <1>6, <1>7, <1>8 DEF PlainInv, KeyedInv

(* A step whose effects are none of the outbox's business. *)
Elsewhere ==
  \/ Connect \/ Disconnect \/ RetryDue \/ (\E key \in jn.deferred : Release(key))
  \/ SubmitLost \/ ServeResync \/ ResyncRefuses \/ ResyncLost

(* None of these writes anything. *)
LEMMA ElsewhereQuiet ==
  ASSUME PlainInv, Closed, Elsewhere
  PROVE  Quiet
BY ConnectQuiet, DisconnectQuiet, RetryDueQuiet, ReleaseQuiet, SubmitLostQuiet,
   ServeResyncQuiet, ResyncRefusesQuiet, ResyncLostQuiet DEF Elsewhere

(* Every step keeps the invariant. *)
LEMMA StepKeyed == OutboxInv /\ [JournalNext]_jvars => OutboxInv'
<1> SUFFICES ASSUME OutboxInv, [JournalNext]_jvars PROVE OutboxInv'
  OBVIOUS
<1>1. PlainInv
  BY DEF OutboxInv
<1>2. PICK f \in Names : KeyedInv(f)
  BY DEF OutboxInv
<1>3. Closed
  BY <1>2 DEF KeyedInv, MemoryKeyed, Closed
<1>4. CASE Elsewhere
  <2>1. Quiet
    BY <1>1, <1>3, <1>4, ElsewhereQuiet
  <2> QED
    BY <1>1, <1>2, <2>1, CalmKeeps DEF Quiet, OutboxInv
<1>5. CASE Open \/ Stop
  BY <1>1, <1>2, <1>5, RestartKeeps DEF OutboxInv
<1>6. CASE \E defer \in BOOLEAN : Enqueue(defer)
  BY <1>1, <1>2, <1>6, EnqueueKeeps DEF OutboxInv
<1>7. CASE \E key \in KeysOf(jn.snap) : Cancel(key)
  BY <1>1, <1>2, <1>7, CancelKeeps DEF OutboxInv
<1>8. CASE SkipMutation
  BY <1>1, <1>2, <1>8, SkipMutationKeeps DEF OutboxInv
<1>9. CASE WriteMutation
  BY <1>1, <1>2, <1>9, WriteMutationKeeps DEF OutboxInv
<1>10. CASE FailToWrite
  BY <1>1, <1>2, <1>10, FailToWriteKeeps DEF OutboxInv
<1>11. CASE ResumeMutation
  BY <1>1, <1>2, <1>11, ResumeMutationKeeps DEF OutboxInv
<1>12. CASE \E r \in wire : ServeSubmit(r)
  BY <1>1, <1>2, <1>12, ServeSubmitKeeps DEF OutboxInv
<1>13. CASE ServeOther
  BY <1>1, <1>2, <1>13, ServeOtherKeeps DEF OutboxInv
<1>14. CASE SubmitReturns
  BY <1>1, <1>2, <1>14, SubmitReturnsKeeps DEF OutboxInv
<1>15. CASE ResyncReturns
  BY <1>1, <1>2, <1>15, ResyncReturnsKeeps DEF OutboxInv
<1>16. CASE UNCHANGED jvars
  BY <1>1, <1>2, <1>16, StutterKeeps DEF OutboxInv
<1> QED
  BY <1>4, <1>5, <1>6, <1>7, <1>8, <1>9, <1>10, <1>11, <1>12, <1>13, <1>14, <1>15, <1>16
  DEF JournalNext, Elsewhere

(* A key always stands for one submission and is given out in the order of the
   submissions, in the file, in memory, in the queued mutations, on the wire and
   in the log, through stops, failed writes and lost answers (enqueue, runPump,
   cancel): all the properties of the journal rest on it. *)
THEOREM OutboxInductive == JournalSpec => []OutboxInv
  BY InitKeyed, StepKeyed, PTL DEF JournalSpec

(* What the callers were told is true of the file and the log. *)
LEMMA FatesTold == OutboxInv => AcknowledgedIsLogged
<1> SUFFICES ASSUME OutboxInv PROVE AcknowledgedIsLogged
  OBVIOUS
<1>1. LoggedFits /\ FatesFit /\ Types
  BY DEF OutboxInv, PlainInv
<1>2. \A p \in 1..Len(slog) : slog[p].key # 0 => slog[p].id \in ToSet(Logged)
  BY <1>1 DEF LoggedFits
<1>3. ASSUME NEW i \in Places PROVE Entries[i].id \in ToSet(Stored)
  <2>1. Len(Entries) \in Nat
    BY <1>1, FileIsSnap
  <2>2. Stored[i] = Entries[i].id /\ i \in DOMAIN Stored
    BY DEF Stored, IdsOf, Entries, Places
  <2> QED
    BY <2>2 DEF ToSet
<1>4. Awaiting("acked") \subseteq ToSet(Logged)
  BY <1>1, <1>2 DEF Awaiting, FatesFit
<1>5. Awaiting("kept") \subseteq ToSet(Stored) \cup ToSet(Logged)
  BY <1>1, <1>2, <1>3 DEF Awaiting, FatesFit
<1> QED
  BY <1>4, <1>5 DEF AcknowledgedIsLogged

(* A submission that enqueue's promise reported kept is in the file or in the
   server's log, and one whose waiter was resolved is in the log, at any number
   of edits, stops, lost answers, failed writes and cancellations. *)
THEOREM AcknowledgedAlwaysLogged == JournalSpec => []AcknowledgedIsLogged
  BY OutboxInductive, FatesTold, PTL

-----------------------------------------------------------------------------
(* The outbox that the journal implements. *)

(* IdsOf of what the file becomes. *)
LEMMA IdsAppended ==
  ASSUME NEW s \in Seq(EntrySet), NEW e \in EntrySet
  PROVE  IdsOf(Append(s, e)) = Append(IdsOf(s), e.id)
<1> DEFINE a == [i \in 1..Len(s) |-> s[i].id]
<1>1. Len(s) \in Nat /\ \A i \in 1..Len(s) : s[i].id \in Nat
  <2>1. Len(s) \in Nat /\ \A i \in 1..Len(s) : s[i] \in EntrySet
    OBVIOUS
  <2>2. \A x \in EntrySet : x.id \in Nat
    BY DEF EntrySet
  <2> QED
    BY <2>1, <2>2
<1>2. a \in Seq(Nat) /\ Len(a) = Len(s) /\ \A i \in 1..Len(s) : a[i] = s[i].id
  <2>1. a \in [1..Len(s) -> Nat]
    BY <1>1
  <2> QED
    BY <1>1, <2>1
<1> HIDE DEF a
<1>3. Append(a, e.id) = [i \in 1..(Len(s) + 1) |-> IF i = Len(s) + 1 THEN e.id ELSE a[i]]
  <2>1. e.id \in Nat
    BY DEF EntrySet
  <2> QED
    BY <1>1, <1>2, <2>1
<1>4. /\ Len(Append(s, e)) = Len(s) + 1 /\ Append(s, e)[Len(s) + 1] = e
      /\ \A i \in 1..Len(s) : Append(s, e)[i] = s[i]
  BY <1>1
<1>5. \A i \in 1..(Len(s) + 1) :
        Append(s, e)[i].id = IF i = Len(s) + 1 THEN e.id ELSE a[i]
  <2>1. ASSUME NEW i \in 1..(Len(s) + 1)
        PROVE  Append(s, e)[i].id = IF i = Len(s) + 1 THEN e.id ELSE a[i]
    <3>1. CASE i = Len(s) + 1
      BY <1>4, <3>1
    <3>2. CASE i # Len(s) + 1
      <4>1. i \in 1..Len(s)
        BY <1>1, <3>2
      <4> QED
        BY <1>2, <1>4, <3>2, <4>1
    <3> QED
      BY <3>1, <3>2
  <2> QED
    BY <2>1
<1>6. IdsOf(Append(s, e)) = Append(a, e.id)
  BY <1>3, <1>4, <1>5 DEF IdsOf
<1> QED
  BY <1>6 DEF IdsOf, a

(* The submissions of entries, one for each. *)
LEMMA IdsOfEntries ==
  ASSUME NEW s \in Seq(EntrySet)
  PROVE  /\ IdsOf(s) \in Seq(Nat) /\ Len(IdsOf(s)) = Len(s) /\ Len(s) \in Nat
         /\ \A i \in 1..Len(s) : IdsOf(s)[i] = s[i].id
<1>1. Len(s) \in Nat /\ \A i \in 1..Len(s) : s[i].id \in Nat
  <2>1. Len(s) \in Nat /\ \A i \in 1..Len(s) : s[i] \in EntrySet
    OBVIOUS
  <2>2. \A e \in EntrySet : e.id \in Nat
    BY DEF EntrySet
  <2> QED
    BY <2>1, <2>2
<1>2. IdsOf(s) \in [1..Len(s) -> Nat]
  BY <1>1 DEF IdsOf
<1>3. \A i \in 1..Len(s) : IdsOf(s)[i] = s[i].id
  BY DEF IdsOf
<1>4. IdsOf(s) \in Seq(Nat) /\ Len(IdsOf(s)) = Len(s)
  BY <1>1, <1>2
<1> QED
  BY <1>1, <1>3, <1>4

(* Sequences of ids that agree everywhere are the same. *)
LEMMA SameIds ==
  ASSUME NEW s \in Seq(Nat), NEW t \in Seq(Nat), Len(s) = Len(t),
         \A i \in 1..Len(s) : s[i] = t[i]
  PROVE  s = t
BY SeqEqual

(* Those of all but the first. *)
LEMMA IdsOfTail ==
  ASSUME NEW s \in Seq(EntrySet), s # <<>>
  PROVE  IdsOf(Tail(s)) = Tail(IdsOf(s))
<1>1. Tail(s) \in Seq(EntrySet) /\ Len(Tail(s)) = Len(s) - 1 /\ Len(s) \in Nat \ {0}
      /\ \A i \in 1..(Len(s) - 1) : Tail(s)[i] = s[i + 1]
  OBVIOUS
<1> DEFINE a == IdsOf(s)
           b == IdsOf(Tail(s))
<1>2. a \in Seq(Nat) /\ Len(a) = Len(s) /\ \A i \in 1..Len(s) : a[i] = s[i].id
  BY IdsOfEntries
<1>3. b \in Seq(Nat) /\ Len(b) = Len(s) - 1
      /\ \A i \in 1..(Len(s) - 1) : b[i] = Tail(s)[i].id
  BY <1>1, IdsOfEntries
<1> HIDE DEF a, b
<1>4. /\ Tail(a) \in Seq(Nat) /\ Len(Tail(a)) = Len(s) - 1
      /\ \A i \in 1..(Len(s) - 1) : Tail(a)[i] = a[i + 1]
  BY <1>1, <1>2
<1>5. \A i \in 1..(Len(s) - 1) : b[i] = Tail(a)[i]
  <2>1. ASSUME NEW i \in 1..(Len(s) - 1) PROVE b[i] = Tail(a)[i]
    <3>1. i + 1 \in 1..Len(s)
      BY <1>1
    <3> QED
      BY <1>1, <1>2, <1>3, <1>4, <3>1
  <2> QED
    BY <2>1
<1>6. b = Tail(a)
  BY <1>3, <1>4, <1>5, SameIds
<1> QED
  BY <1>6 DEF a, b

(* Those of all but one. *)
LEMMA IdsOfRemoved ==
  ASSUME NEW s \in Seq(EntrySet), NEW i \in 1..Len(s)
  PROVE  IdsOf(RemoveAt(s, i)) = RemoveAt(IdsOf(s), i)
<1> DEFINE a == IdsOf(s)
           t == RemoveAt(s, i)
           b == IdsOf(t)
<1>1. a \in Seq(Nat) /\ Len(a) = Len(s) /\ Len(s) \in Nat
      /\ \A j \in 1..Len(s) : a[j] = s[j].id
  BY IdsOfEntries
<1> HIDE DEF a
<1>2. /\ t \in Seq(EntrySet) /\ Len(t) = Len(s) - 1
      /\ \A j \in 1..(Len(s) - 1) : t[j] = IF j < i THEN s[j] ELSE s[j + 1]
  BY RemovedAt
<1> HIDE DEF t
<1>3. b \in Seq(Nat) /\ Len(b) = Len(s) - 1 /\ \A j \in 1..(Len(s) - 1) : b[j] = t[j].id
  BY <1>2, IdsOfEntries
<1> HIDE DEF b
<1>4. /\ RemoveAt(a, i) \in Seq(Nat) /\ Len(RemoveAt(a, i)) = Len(s) - 1
      /\ \A j \in 1..(Len(s) - 1) : RemoveAt(a, i)[j] = IF j < i THEN a[j] ELSE a[j + 1]
  <2>1. i \in 1..Len(a)
    BY <1>1
  <2> QED
    BY <1>1, <2>1, RemovedAt
<1>5. \A j \in 1..(Len(s) - 1) : b[j] = RemoveAt(a, i)[j]
  <2>1. ASSUME NEW j \in 1..(Len(s) - 1) PROVE b[j] = RemoveAt(a, i)[j]
    <3>1. j \in 1..Len(s) /\ j + 1 \in 1..Len(s)
      BY <1>1
    <3> QED
      BY <1>1, <1>2, <1>3, <1>4, <3>1
  <2> QED
    BY <2>1
<1>6. b = RemoveAt(a, i)
  BY <1>3, <1>4, <1>5, SameIds
<1> QED
  BY <1>6 DEF a, b, t

(* Steps that change neither what is stored nor what is logged or cancelled. *)
Still ==
  /\ IdsOf(Entries)' = IdsOf(Entries)
  /\ slog' = slog
  /\ Len(fate) <= Len(fate')
  /\ \A n \in 1..Len(fate') :
       (fate'[n] = "cancelled") <=> (n \in 1..Len(fate) /\ fate[n] = "cancelled")

(* Such a step is a stutter of the outbox. *)
LEMMA StillStutters ==
  ASSUME Types, Types', Still
  PROVE  UNCHANGED Promise!ovars
<1>1. Stored' = Stored
  BY DEF Still, Stored, Entries
<1>2. Logged' = Logged
  BY DEF Still, Logged
<1>3. Awaiting("cancelled")' = Awaiting("cancelled")
  <2>1. Len(fate) \in Nat /\ Len(fate') \in Nat
    BY DEF Types
  <2>2. \A n : n \in Awaiting("cancelled") => n \in Awaiting("cancelled")'
    BY <2>1 DEF Still, Awaiting
  <2>3. \A n : n \in Awaiting("cancelled")' => n \in Awaiting("cancelled")
    BY <2>1 DEF Still, Awaiting
  <2> QED
    BY <2>2, <2>3
<1> QED
  BY <1>1, <1>2, <1>3 DEF Promise!ovars

(* No submission's fate changes. *)
LEMMA SameFateStill ==
  ASSUME Types, IdsOf(Entries)' = IdsOf(Entries), slog' = slog, fate' = fate
  PROVE  Still
<1>1. Len(fate) \in Nat
  BY DEF Types
<1> QED
  BY <1>1 DEF Still

(* Nor does the file. *)
LEMMA SameFileStill ==
  ASSUME Types, File' = File, slog' = slog, fate' = fate
  PROVE  Still
<1>1. IdsOf(Entries)' = IdsOf(Entries)
  BY DEF IdsOf, Entries
<1> QED
  BY <1>1, SameFateStill

(* A submission is refused. *)
LEMMA RefusedStill ==
  ASSUME PlainInv, NEW f \in Names, KeyedInv(f), SkipMutation \/ FailToWrite
  PROVE  Still
<1>1. Types /\ AddsInOrder(f) /\ MemoryKeyed(f)
  BY DEF PlainInv, KeyedInv
<1>2. /\ disk' = disk /\ slog' = slog /\ jn.jobs # <<>>
      /\ fate' = IF Job.kind = "enqueue" THEN [fate EXCEPT ![Job.id] = "refused"] ELSE fate
      /\ ~jn.written
  BY DEF SkipMutation, FailToWrite
<1>3. jn \in Awake
  BY <1>1, <1>2, OpenIfBusy, OpenJournal DEF Closed, MemoryKeyed
<1>4. Job = jn.jobs[1] /\ 1 \in 1..Len(jn.jobs)
  BY <1>2, <1>3, RestJournal
<1>5. Job.kind = "enqueue" => Job.id \in 1..Len(fate) /\ fate[Job.id] = "asked"
  BY <1>1, <1>4 DEF AddsInOrder, Adding
<1>6. IdsOf(Entries)' = IdsOf(Entries)
  BY <1>2 DEF IdsOf, Entries, File
<1>7. fate \in Seq(Fates) /\ Len(fate) \in Nat
  BY <1>1 DEF Types
<1>8. CASE Job.kind = "enqueue"
  <2>1. fate' = [fate EXCEPT ![Job.id] = "refused"]
    BY <1>2, <1>8
  <2>2. Len(fate') = Len(fate)
        /\ \A n \in 1..Len(fate) : fate'[n] = IF n = Job.id THEN "refused" ELSE fate[n]
    BY <1>5, <1>7, <1>8, <2>1
  <2> QED
    BY <1>2, <1>5, <1>6, <1>7, <1>8, <2>2 DEF Still
<1>9. CASE Job.kind # "enqueue"
  BY <1>1, <1>2, <1>6, <1>9, SameFateStill
<1> QED
  BY <1>8, <1>9

(* A submission is asked for. *)
LEMMA AskedStill ==
  ASSUME PlainInv, NEW defer \in BOOLEAN, Enqueue(defer)
  PROVE  Still
<1>1. fate \in Seq(Fates) /\ Len(fate) \in Nat
  BY DEF PlainInv, Types
<1>2. disk' = disk /\ slog' = slog /\ fate' = Append(fate, "asked")
  BY DEF Enqueue
<1>3. /\ Len(fate') = Len(fate) + 1 /\ fate'[Len(fate) + 1] = "asked"
      /\ \A n \in 1..Len(fate) : fate'[n] = fate[n]
  BY <1>1, <1>2 DEF Fates
<1>4. \A n \in 1..Len(fate') : n \in 1..Len(fate) \/ (n = Len(fate) + 1 /\ n \notin 1..Len(fate))
  BY <1>1, <1>3
<1>5. IdsOf(Entries)' = IdsOf(Entries)
  BY <1>2 DEF IdsOf, Entries, File
<1> QED
  BY <1>1, <1>2, <1>3, <1>4, <1>5 DEF Still

(* A submission logged by the server has an id that f gives its key. *)
LEMMA LoggedIds ==
  ASSUME PlainInv, NEW f, KeyedInv(f), NEW i \in 1..Len(Logged)
  PROVE  \E p \in 1..Len(slog) : /\ slog[p].key # 0 /\ slog[p].key \in UsedKeys
                                 /\ Logged[i] = f[slog[p].key]
<1>1. PICK p \in 1..Len(slog) : slog[p].key # 0 /\ slog[p].id = Logged[i]
  BY DEF PlainInv, LoggedFits
<1> QED
  BY <1>1 DEF KeyedInv, LogKeyed, Keyed

(* The write of a mutation is a step of the outbox, or changes nothing of it. *)
LEMMA WriteRefines ==
  ASSUME PlainInv, NEW f \in Names, KeyedInv(f), WriteMutation, PlainInv'
  PROVE  [Promise!OutboxNext]_(Promise!ovars)
<1>1. /\ Types /\ Types' /\ LoggedFits /\ NamesRise(f) /\ FileKeyed(f) /\ AddsInOrder(f)
      /\ WithinBounds
  BY DEF PlainInv, KeyedInv
<1>2. /\ Entries \in Seq(EntrySet) /\ Len(Entries) \in Nat /\ Places = 1..Len(Entries)
      /\ jn.jobs # <<>> /\ Job = jn.jobs[1] /\ Job \in JobSet /\ Applies(jn, Job)
      /\ slog' = slog /\ ~jn.written /\ jn \in Awake /\ fate \in Seq(Fates)
      /\ File \in SnapSet
  BY WriteSteps
<1>3. Logged' = Logged /\ Stored = IdsOf(Entries) /\ Stored' = IdsOf(Entries')
  BY <1>2 DEF Logged, Stored, Entries
<1>4. /\ Stored \in Seq(Nat) /\ Len(Stored) = Len(Entries)
      /\ \A i \in 1..Len(Entries) : Stored[i] = Entries[i].id
  BY <1>2, <1>3, IdsOfEntries
<1>5. CASE Job.kind \in {"mark", "rebase"}
  <2>1. IdsOf(Entries)' = IdsOf(Entries) /\ fate' = fate
    BY <1>5, MarkWritten, RebaseWritten
  <2>2. Still
    BY <1>1, <1>2, <2>1, SameFateStill
  <2> QED
    BY <1>1, <2>2, StillStutters
<1>6. CASE Job.kind = "enqueue"
  <2> DEFINE e == [key |-> File.next, id |-> Job.id, on |-> Job.on]
  <2>1. fate' = fate /\ Entries' = Append(Entries, e)
    BY <1>6, EnqueueWritten
  <2>2. e \in EntrySet /\ e.id = Job.id
    BY <1>2, <1>6 DEF EntrySet, SnapSet, JobSet
  <2> HIDE DEF e
  <2>3. Stored' = Append(Stored, Job.id)
    BY <1>2, <1>3, <2>1, <2>2, IdsAppended
  <2>4. 1 \in 1..Len(jn.jobs)
    BY <1>2, RestJournal
  <2>5. /\ Job.id \in 1..Len(fate) /\ fate[Job.id] = "asked"
        /\ \A k \in UsedKeys : f[k] < Job.id
    BY <1>1, <1>2, <1>6, <2>4 DEF AddsInOrder, Adding
  <2>6. Job.id \in Numbers
    <3>1. "edits" \in BoundNames
      BY DEF BoundNames
    <3>2. budget["edits"] \in Nat /\ Len(fate) \in Nat /\ MaxEdits \in Nat
          /\ Len(fate) + budget["edits"] <= MaxEdits
      BY <1>1, <1>2, <3>1, JournalAssumption DEF WithinBounds
    <3> QED
      BY <2>5, <3>2 DEF Numbers
  <2>7. Promise!Newest(Stored, Job.id)
    <3>1. \A i \in 1..Len(Entries) : Entries[i].id < Job.id
      BY <1>1, <1>2, <2>5 DEF FileKeyed, Keyed
    <3> QED
      BY <1>4, <3>1 DEF Promise!Newest
  <2>8. Promise!Newest(Logged, Job.id)
    <3>1. ASSUME NEW i \in 1..Len(Logged) PROVE Logged[i] < Job.id
      BY <2>5, LoggedIds
    <3> QED
      BY <3>1 DEF Promise!Newest
  <2>9. Job.id \notin Awaiting("cancelled") /\ Awaiting("cancelled")' = Awaiting("cancelled")
    BY <2>1, <2>5 DEF Awaiting
  <2>10. Promise!Keep(Job.id)
    BY <1>3, <2>3, <2>7, <2>8, <2>9 DEF Promise!Keep
  <2> QED
    BY <2>6, <2>10 DEF Promise!OutboxNext
<1>7. CASE Job.kind = "commit"
  <2>1. fate' = fate /\ Entries # <<>> /\ Entries' = Tail(Entries) /\ InLog(Entries[1].key)
    BY <1>7, CommitWritten
  <2>2. 1 \in 1..Len(Entries)
    BY <1>2, <2>1
  <2>3. Stored # <<>> /\ Head(Stored) = Entries[1].id
    BY <1>4, <2>2
  <2>4. Stored' = Tail(Stored)
    BY <1>2, <1>3, <2>1, IdsOfTail
  <2>5. Entries[1].key \in UsedKeys /\ Entries[1].id = f[Entries[1].key]
    BY <1>1, <1>2, <2>2 DEF FileKeyed, Keyed
  <2>6. PICK p \in 1..Len(slog) : slog[p].key = Entries[1].key
    BY <2>1 DEF InLog
  <2>7. slog[p].key # 0
    BY <2>5, <2>6 DEF UsedKeys
  <2>8. slog[p].id = Entries[1].id
    BY <2>5, <2>6, <2>7 DEF KeyedInv, LogKeyed, Keyed
  <2>9. Entries[1].id \in ToSet(Logged)
    BY <1>1, <2>7, <2>8 DEF LoggedFits
  <2>10. Promise!Contains(Logged, Head(Stored))
    <3>1. Logged \in Seq(Nat)
      BY <1>1 DEF LoggedFits
    <3>2. DOMAIN Logged = 1..Len(Logged)
      BY <3>1
    <3>3. \E i \in 1..Len(Logged) : Logged[i] = Entries[1].id
      BY <2>9, <3>2 DEF ToSet
    <3> QED
      BY <2>3, <3>3 DEF Promise!Contains
  <2>11. Awaiting("cancelled")' = Awaiting("cancelled")
    BY <2>1 DEF Awaiting
  <2>12. Promise!Forget
    BY <1>3, <2>3, <2>4, <2>10, <2>11 DEF Promise!Forget
  <2> QED
    BY <2>12 DEF Promise!OutboxNext
<1>8. CASE Job.kind = "cancel"
  <2> DEFINE i == PlaceOf(File, Job.key)
  <2>1. /\ i \in 1..Len(Entries) /\ Entries' = RemoveAt(Entries, i)
        /\ Entries[i].id = Job.id
        /\ Job.id \in 1..Len(fate) /\ fate' = [fate EXCEPT ![Job.id] = "cancelled"]
    BY <1>2, <1>8, CancelWritten
  <2> HIDE DEF i
  <2>2. Stored' = RemoveAt(Stored, i) /\ Stored[i] = Job.id /\ i \in 1..Len(Stored)
    BY <1>2, <1>3, <1>4, <2>1, IdsOfRemoved
  <2>3. Awaiting("cancelled")' = Awaiting("cancelled") \cup {Job.id}
    <3>1. /\ Len(fate') = Len(fate) /\ fate'[Job.id] = "cancelled"
          /\ \A n \in 1..Len(fate) : n # Job.id => fate'[n] = fate[n]
      BY <1>2, <2>1
    <3>2. \A n : n \in Awaiting("cancelled")' <=> n \in Awaiting("cancelled") \cup {Job.id}
      BY <2>1, <3>1 DEF Awaiting
    <3> QED
      BY <3>2
  <2>4. Promise!Withdraw(i)
    BY <1>3, <2>2, <2>3 DEF Promise!Withdraw, Promise!RemoveAt, RemoveAt
  <2> QED
    BY <2>2, <2>4 DEF Promise!OutboxNext
<1>9. Job.kind \in {"mark", "enqueue", "cancel", "commit", "rebase"}
  BY <1>2 DEF JobSet, Applies
<1> QED
  BY <1>5, <1>6, <1>7, <1>8, <1>9

(* The server logs a submission, or refuses it. *)
LEMMA ServeRefines ==
  ASSUME PlainInv, NEW f \in Names, KeyedInv(f), NEW r \in wire, ServeSubmit(r), PlainInv'
  PROVE  [Promise!OutboxNext]_(Promise!ovars)
<1>1. /\ Types /\ Types' /\ LoggedFits /\ NamesRise(f) /\ FileKeyed(f) /\ WireKeyed(f)
      /\ WireInOrder /\ LogKeyed(f) /\ WithinBounds
  BY DEF PlainInv, KeyedInv
<1> DEFINE e == [key |-> r.key, id |-> r.id, on |-> r.on]
<1>2. disk' = disk /\ fate' = fate
      /\ slog' = IF Position(r.key) = {} /\ r.base = Len(slog) THEN Append(slog, e) ELSE slog
  BY DEF ServeSubmit
<1>3. CASE ~(Position(r.key) = {} /\ r.base = Len(slog))
  <2>1. File' = File /\ slog' = slog
    BY <1>2, <1>3 DEF File
  <2>2. Still
    BY <1>1, <1>2, <2>1, SameFileStill
  <2> QED
    BY <1>1, <2>2, StillStutters
<1>4. CASE Position(r.key) = {} /\ r.base = Len(slog)
  <2>1. /\ slog \in Seq(EntrySet) /\ Len(slog) \in Nat
        /\ r.key \in Nat /\ r.id \in Nat /\ r.on \in Nat
    BY <1>1 DEF Types, RequestSet
  <2>2. e \in EntrySet /\ e.key = r.key /\ e.id = r.id /\ slog' = Append(slog, e)
    BY <1>2, <1>4, <2>1 DEF EntrySet
  <2> HIDE DEF e
  <2>3. /\ r.key \in UsedKeys /\ r.id = f[r.key] /\ r.key # 0
        /\ \A i \in Places : r.key <= Entries[i].key
        /\ InLog(r.key) \/ Held(r.key) \/ fate[r.id] = "cancelled"
    BY <1>1 DEF WireKeyed, Keyed, UsedKeys
  <2>4. ~InLog(r.key)
    BY <1>4 DEF InLog, Position
  <2>5. Logged' = Append(Logged, r.id)
    <3>1. Logged' = WithLogged(Logged, e)
      BY <2>1, <2>2, LoggedGrows DEF Logged
    <3> QED
      BY <2>2, <2>3, <3>1 DEF WithLogged
  <2>6. Stored' = Stored /\ Awaiting("cancelled")' = Awaiting("cancelled")
    BY <1>2 DEF Stored, IdsOf, File, Awaiting
  <2>7. Entries \in Seq(EntrySet)
    BY <1>1, FileIsSnap
  <2>8. Stored = IdsOf(Entries) /\ Len(Stored) = Len(Entries) /\ Places = 1..Len(Entries)
        /\ \A i \in 1..Len(Entries) : Stored[i] = Entries[i].id
    BY <2>7, IdsOfEntries DEF Stored, Entries, Places
  <2>9. Promise!Newest(Logged, r.id)
    <3>1. ASSUME NEW i \in 1..Len(Logged) PROVE Logged[i] < r.id
      <4>1. PICK p \in 1..Len(slog) : /\ slog[p].key # 0 /\ slog[p].key \in UsedKeys
                                      /\ Logged[i] = f[slog[p].key]
        BY LoggedIds
      <4>2. slog[p].key # r.key
        BY <2>4 DEF InLog
      <4>3. ~(slog[p].key > r.key)
        <5>1. slog[p].key > r.key => r.base < p
          BY <1>1 DEF WireInOrder
        <5> QED
          BY <1>4, <2>1, <5>1
      <4>4. slog[p].key < r.key
        BY <2>1, <4>1, <4>2, <4>3 DEF UsedKeys
      <4> QED
        BY <1>1, <2>3, <4>1, <4>4 DEF NamesRise
    <3> QED
      BY <3>1 DEF Promise!Newest
  <2>10. \A i \in 1..Len(Stored) : ~(Stored[i] < r.id)
    <3>1. ASSUME NEW i \in 1..Len(Entries) PROVE ~(Entries[i].id < r.id)
      <4>1. Entries[i].key \in UsedKeys /\ Entries[i].id = f[Entries[i].key]
            /\ r.key <= Entries[i].key
        BY <1>1, <2>3, <2>8 DEF FileKeyed, Keyed
      <4>2. Entries[i].key = r.key \/ r.key < Entries[i].key
        BY <2>3, <4>1 DEF UsedKeys
      <4>3. \A k \in UsedKeys : f[k] \in Int
        BY <1>1 DEF NamesRise
      <4> QED
        BY <1>1, <2>3, <4>1, <4>2, <4>3 DEF NamesRise
    <3> QED
      BY <2>8, <3>1
  <2>11. Promise!Contains(Stored, r.id) \/ r.id \in Awaiting("cancelled")
    <3>1. CASE Held(r.key)
      <4>1. PICK i \in Places : Entries[i].key = r.key
        BY <3>1 DEF Held
      <4>2. Entries[i].id = r.id
        BY <1>1, <2>3, <4>1 DEF FileKeyed, Keyed
      <4> QED
        BY <2>8, <4>1, <4>2 DEF Promise!Contains
    <3>2. CASE fate[r.id] = "cancelled"
      BY <1>1, <2>3, <3>2 DEF Awaiting, NamesRise
    <3> QED
      BY <2>3, <2>4, <3>1, <3>2
  <2>12. r.id \in Numbers
    <3>1. "edits" \in BoundNames
      BY DEF BoundNames
    <3>2. budget["edits"] \in Nat /\ Len(fate) \in Nat /\ MaxEdits \in Nat
          /\ Len(fate) + budget["edits"] <= MaxEdits
      BY <1>1, <3>1, JournalAssumption DEF WithinBounds, Types
    <3>3. r.id \in 1..Len(fate)
      BY <1>1, <2>3 DEF NamesRise
    <3> QED
      BY <3>2, <3>3 DEF Numbers
  <2>13. Promise!Deliver(r.id)
    BY <2>5, <2>6, <2>9, <2>10, <2>11 DEF Promise!Deliver
  <2> QED
    BY <2>12, <2>13 DEF Promise!OutboxNext
<1> QED
  BY <1>3, <1>4

(* Every step is one of the outbox, or a stutter. *)
LEMMA StepRefines ==
  ASSUME OutboxInv, OutboxInv', [JournalNext]_jvars
  PROVE  [Promise!OutboxNext]_(Promise!ovars)
<1>1. PlainInv /\ PlainInv' /\ Types /\ Types'
  BY DEF OutboxInv, PlainInv
<1>2. PICK f \in Names : KeyedInv(f)
  BY DEF OutboxInv
<1>3. Still => [Promise!OutboxNext]_(Promise!ovars)
  BY <1>1, StillStutters
<1>4. CASE Elsewhere
  <2>1. Quiet
    BY <1>1, <1>2, <1>4, ElsewhereQuiet DEF KeyedInv, MemoryKeyed, Closed
  <2>2. File' = File /\ slog' = slog /\ fate' = fate
    BY <2>1 DEF Quiet, File
  <2> QED
    BY <1>1, <1>3, <2>2, SameFileStill
<1>5. CASE Open
  <2>1. disk' = File /\ File # Nothing /\ slog' = slog /\ fate' = fate
    BY <1>1, <1>5, FileIsSnap, NothingIsNoFile DEF Open
  <2>2. File' = File
    BY <2>1 DEF File
  <2> QED
    BY <1>1, <1>3, <2>1, <2>2, SameFileStill
<1>6. CASE \/ Stop \/ SubmitReturns \/ ResyncReturns \/ UNCHANGED jvars
           \/ \E key \in KeysOf(jn.snap) : Cancel(key)
  <2>1. disk' = disk /\ slog' = slog /\ fate' = fate
    BY <1>6 DEF Stop, SubmitReturns, ResyncReturns, Cancel, jvars
  <2>2. File' = File
    BY <2>1 DEF File
  <2> QED
    BY <1>1, <1>3, <2>1, <2>2, SameFileStill
<1>7. CASE \E defer \in BOOLEAN : Enqueue(defer)
  BY <1>1, <1>3, <1>7, AskedStill
<1>8. CASE SkipMutation \/ FailToWrite
  BY <1>1, <1>2, <1>3, <1>8, RefusedStill
<1>9. CASE WriteMutation
  BY <1>1, <1>2, <1>9, WriteRefines
<1>10. CASE ResumeMutation
  <2>1. SameDrops /\ Len(fate') = Len(fate)
    BY <1>1, <1>2, <1>10, ResumeMutationKeeps
  <2>2. disk' = disk /\ slog' = slog
    BY <1>10 DEF ResumeMutation
  <2>3. IdsOf(Entries)' = IdsOf(Entries)
    BY <2>2 DEF IdsOf, Entries, File
  <2>4. Still
    BY <2>1, <2>2, <2>3 DEF Still, SameDrops
  <2> QED
    BY <1>3, <2>4
<1>11. CASE \E r \in wire : ServeSubmit(r)
  BY <1>1, <1>2, <1>11, ServeRefines
<1>12. CASE ServeOther
  <2> DEFINE e == [key |-> 0, id |-> 0, on |-> Len(slog)]
  <2>1. disk' = disk /\ fate' = fate /\ slog' = Append(slog, e)
    BY <1>12 DEF ServeOther
  <2>2. slog \in Seq(EntrySet) /\ e \in EntrySet /\ e.key = 0
    BY <1>1 DEF Types, EntrySet
  <2> HIDE DEF e
  <2>3. Logged' = Logged
    <3>1. FoldLeft(WithLogged, <<>>, Append(slog, e)) = WithLogged(Logged, e)
      BY <2>2, LoggedGrows DEF Logged
    <3>2. WithLogged(Logged, e) = Logged
      BY <2>2 DEF WithLogged
    <3> QED
      BY <2>1, <3>1, <3>2 DEF Logged
  <2>4. Stored' = Stored /\ Awaiting("cancelled")' = Awaiting("cancelled")
    BY <2>1 DEF Stored, IdsOf, File, Awaiting
  <2> QED
    BY <2>3, <2>4 DEF Promise!ovars
<1> QED
  BY <1>4, <1>5, <1>6, <1>7, <1>8, <1>9, <1>10, <1>11, <1>12 DEF JournalNext, Elsewhere

(* The outbox begins empty. *)
LEMMA InitRefines == JournalInit => Promise!OutboxInit
<1> SUFFICES ASSUME JournalInit PROVE Promise!OutboxInit
  OBVIOUS
<1>1. disk = Nothing /\ slog = <<>> /\ fate = <<>>
  BY DEF JournalInit
<1>2. 1..Len(<<>>) = {}
  OBVIOUS
<1>3. Stored = <<>>
  <2>1. File.entries = <<>>
    BY <1>1 DEF File, Empty
  <2>2. Stored = [i \in 1..0 |-> File.entries[i].id]
    BY <2>1 DEF Stored, IdsOf
  <2> QED
    BY <2>2
<1>4. Logged = <<>>
  <2>1. Logging!Folded(<<>>, <<>>) = <<>>
    BY Logging!FoldEmpty
  <2> QED
    BY <1>1, <2>1, LoggingIsFold DEF Logged
<1>5. Awaiting("cancelled") = {}
  BY <1>1, <1>2 DEF Awaiting
<1> QED
  BY <1>3, <1>4, <1>5 DEF Promise!OutboxInit

(* Through any stops, lost answers, failed writes and cancellations, what is kept
   is delivered in the order it was kept and once, and leaves the file only when
   it is delivered or cancelled: the journal is an Outbox (enqueue, cancel,
   runPump, and the server's dedup by key). *)
THEOREM JournalImplementsOutbox == JournalSpec => ImplementsOutbox
<1>1. JournalInit => Promise!OutboxInit
  BY InitRefines
<1>2. OutboxInv /\ OutboxInv' /\ [JournalNext]_jvars => [Promise!OutboxNext]_(Promise!ovars)
  BY StepRefines
<1> QED
  BY <1>1, <1>2, OutboxInductive, PTL DEF JournalSpec, ImplementsOutbox, Promise!OutboxSpec
-----------------------------------------------------------------------------
(* Whose turn it is: the pump and the resync each have one mutation waiting at
   most, and then they are in the phase that waits for it. *)
PumpJobs == {"mark", "commit"}
ResyncJobs == {"settle", "rebase"}

Fits(kind, p, r) ==
  /\ kind = "mark" => p = "marking"
  /\ kind = "commit" => p = "committing"
  /\ kind = "settle" => r = "settling"
  /\ kind = "rebase" => r = "committing"

Lacks(jobs, kinds) == \A i \in 1..Len(jobs) : jobs[i].kind \notin kinds

Turns(jobs, p, r) ==
  /\ \A i \in 1..Len(jobs) : Fits(jobs[i].kind, p, r)
  /\ \A i, j \in 1..Len(jobs) : i < j =>
       /\ jobs[i].kind \in PumpJobs => jobs[j].kind \notin PumpJobs
       /\ jobs[i].kind \in ResyncJobs => jobs[j].kind \notin ResyncJobs

TurnsIn(s) == Turns(s.jobs, s.pump.phase, s.resync.phase)

(* Whoever waits for nothing has nothing waiting. *)
LEMMA LacksIfQuiet ==
  ASSUME NEW jobs, NEW p, NEW r, Turns(jobs, p, r)
  PROVE  /\ p \notin {"marking", "committing"} => Lacks(jobs, PumpJobs)
         /\ r \notin {"settling", "committing"} => Lacks(jobs, ResyncJobs)
BY DEF Turns, Fits, Lacks, PumpJobs, ResyncJobs

(* Whoever has nothing waiting may go to any phase. *)
LEMMA TurnsFree ==
  ASSUME NEW jobs, NEW p, NEW r, NEW q, NEW z, Turns(jobs, p, r),
         q = p \/ Lacks(jobs, PumpJobs), z = r \/ Lacks(jobs, ResyncJobs)
  PROVE  Turns(jobs, q, z)
<1>1. ASSUME NEW i \in 1..Len(jobs)
      PROVE  Fits(jobs[i].kind, q, z)
  <2>1. Fits(jobs[i].kind, p, r)
    BY DEF Turns
  <2>2. Lacks(jobs, PumpJobs) => jobs[i].kind \notin PumpJobs
    BY DEF Lacks
  <2>3. Lacks(jobs, ResyncJobs) => jobs[i].kind \notin ResyncJobs
    BY DEF Lacks
  <2> QED
    BY <2>1, <2>2, <2>3 DEF Fits, PumpJobs, ResyncJobs
<1> QED
  BY <1>1 DEF Turns

(* A mutation joins the queue, and its owner waits for it. *)
LEMMA TurnsAppended ==
  ASSUME NEW jobs \in Seq(JobSet), NEW job \in JobSet, NEW p, NEW r, NEW q, NEW z,
         Turns(jobs, p, r),
         q = p \/ Lacks(jobs, PumpJobs), z = r \/ Lacks(jobs, ResyncJobs),
         job.kind \in PumpJobs => Lacks(jobs, PumpJobs),
         job.kind \in ResyncJobs => Lacks(jobs, ResyncJobs),
         Fits(job.kind, q, z)
  PROVE  Append(jobs, job) \in Seq(JobSet) /\ Turns(Append(jobs, job), q, z)
<1> DEFINE a == Append(jobs, job)
<1>1. /\ a \in Seq(JobSet) /\ Len(a) = Len(jobs) + 1 /\ a[Len(jobs) + 1] = job
      /\ Len(jobs) \in Nat
      /\ \A i \in 1..Len(jobs) : a[i] = jobs[i]
  OBVIOUS
<1> HIDE DEF a
<1>2. Turns(jobs, q, z)
  BY TurnsFree
<1>3. ASSUME NEW i \in 1..Len(a)
      PROVE  Fits(a[i].kind, q, z)
  <2>1. i \in 1..Len(jobs) => Fits(jobs[i].kind, q, z)
    BY <1>2 DEF Turns
  <2>2. i \in 1..Len(jobs) \/ i = Len(jobs) + 1
    BY <1>1
  <2> QED
    BY <1>1, <2>1, <2>2
<1>4. ASSUME NEW i \in 1..Len(a), NEW j \in 1..Len(a), i < j
      PROVE  /\ a[i].kind \in PumpJobs => a[j].kind \notin PumpJobs
             /\ a[i].kind \in ResyncJobs => a[j].kind \notin ResyncJobs
  <2>1. i \in 1..Len(jobs) /\ (j \in 1..Len(jobs) \/ j = Len(jobs) + 1)
    BY <1>1, <1>4
  <2>2. CASE j \in 1..Len(jobs)
    <3>1. /\ jobs[i].kind \in PumpJobs => jobs[j].kind \notin PumpJobs
          /\ jobs[i].kind \in ResyncJobs => jobs[j].kind \notin ResyncJobs
      BY <1>2, <1>4, <2>1, <2>2 DEF Turns
    <3> QED
      BY <1>1, <2>1, <2>2, <3>1
  <2>3. CASE j = Len(jobs) + 1
    <3>1. a[j] = job /\ a[i] = jobs[i]
      BY <1>1, <2>1, <2>3
    <3>2. Lacks(jobs, PumpJobs) => jobs[i].kind \notin PumpJobs
      BY <2>1 DEF Lacks
    <3>3. Lacks(jobs, ResyncJobs) => jobs[i].kind \notin ResyncJobs
      BY <2>1 DEF Lacks
    <3> QED
      BY <3>1, <3>2, <3>3
  <2> QED
    BY <2>1, <2>2, <2>3
<1>5. Turns(a, q, z)
  BY <1>3, <1>4 DEF Turns
<1> QED
  BY <1>1, <1>5 DEF a

(* The first one has had its turn. *)
LEMMA TurnsTail ==
  ASSUME NEW jobs \in Seq(JobSet), jobs # <<>>, NEW p, NEW r, Turns(jobs, p, r)
  PROVE  /\ Turns(Tail(jobs), p, r)
         /\ Head(jobs).kind \in PumpJobs => Lacks(Tail(jobs), PumpJobs)
         /\ Head(jobs).kind \in ResyncJobs => Lacks(Tail(jobs), ResyncJobs)
         /\ Fits(Head(jobs).kind, p, r)
<1> DEFINE a == Tail(jobs)
<1>1. /\ Len(a) = Len(jobs) - 1 /\ Len(jobs) \in Nat \ {0} /\ Head(jobs) = jobs[1]
      /\ \A i \in 1..Len(a) : a[i] = jobs[i + 1]
  OBVIOUS
<1> HIDE DEF a
<1>2. ASSUME NEW i \in 1..Len(a)
      PROVE  /\ i + 1 \in 1..Len(jobs) /\ 1 \in 1..Len(jobs) /\ 1 < i + 1
             /\ a[i] = jobs[i + 1]
  BY <1>1
<1>3. \A i \in 1..Len(a) : Fits(a[i].kind, p, r)
  BY <1>2 DEF Turns
<1>4. ASSUME NEW i \in 1..Len(a), NEW j \in 1..Len(a), i < j
      PROVE  /\ a[i].kind \in PumpJobs => a[j].kind \notin PumpJobs
             /\ a[i].kind \in ResyncJobs => a[j].kind \notin ResyncJobs
  <2>1. i + 1 \in 1..Len(jobs) /\ j + 1 \in 1..Len(jobs) /\ i + 1 < j + 1
    BY <1>2, <1>4
  <2>2. /\ jobs[i + 1].kind \in PumpJobs => jobs[j + 1].kind \notin PumpJobs
        /\ jobs[i + 1].kind \in ResyncJobs => jobs[j + 1].kind \notin ResyncJobs
    BY <2>1 DEF Turns
  <2> QED
    BY <1>2, <2>2
<1>5. Turns(a, p, r)
  BY <1>3, <1>4 DEF Turns
<1>6. ASSUME NEW i \in 1..Len(a)
      PROVE  /\ jobs[1].kind \in PumpJobs => a[i].kind \notin PumpJobs
             /\ jobs[1].kind \in ResyncJobs => a[i].kind \notin ResyncJobs
  BY <1>2 DEF Turns
<1>7. Fits(jobs[1].kind, p, r)
  BY <1>1 DEF Turns
<1> QED
  BY <1>1, <1>5, <1>6, <1>7 DEF Lacks, a

-----------------------------------------------------------------------------
(* A submission is, or may at once be, on its way. *)
Live(c) ==
  \/ c.phase \in {"asked", "answered"} /\ ~c.aborted
  \/ c.phase = "committing"

Replays(s) == s.status \in {"ready", "sending"} \/ Live(s.pump)

(* A submission needs a resync that has finished since connect(). *)
Steady(s, done) ==
  Replays(s) => s.resync.phase = "idle" /\ (s.online => done)

(* What the pump does to the journal leaves the resync alone, and does not get a
   submission on its way that was not. *)
Paced(s, t) ==
  /\ t.online = s.online /\ t.revised = s.revised /\ t.resync = s.resync
  /\ Replays(t) => Replays(s)

(* The pump asks for its turn, or not. *)
LEMMA PumpPaced ==
  ASSUME NEW s \in Awake, TurnsIn(s)
  PROVE  /\ TurnsIn(Pump(s)) /\ Paced(s, Pump(s))
         /\ Pump(s).status = s.status
         /\ Pump(s).pump = s.pump \/ Pump(s).pump.phase = "marking"
<1>1. CASE s.pump.phase # "idle" \/ ~CanSend(s)
  BY <1>1 DEF Pump, Paced
<1>2. CASE ~(s.pump.phase # "idle" \/ ~CanSend(s))
  <2> DEFINE m == [kind |-> "mark"]
             a == Append(s.jobs, m)
             t == [s EXCEPT !.pump = [phase |-> "marking"], !.jobs = a]
  <2>1. Pump(s) = t
    BY <1>2 DEF Pump
  <2>2. s.jobs \in Seq(JobSet) /\ m \in JobSet /\ m.kind = "mark"
    BY DEF Awake, JournalSet, JobSet
  <2>3. Lacks(s.jobs, PumpJobs)
    BY <1>2, LacksIfQuiet DEF TurnsIn
  <2> HIDE DEF m
  <2>4. Fits(m.kind, "marking", s.resync.phase) /\ m.kind \notin ResyncJobs
    BY <2>2 DEF Fits, ResyncJobs
  <2>5. Turns(a, "marking", s.resync.phase)
    BY <2>2, <2>3, <2>4, TurnsAppended DEF TurnsIn
  <2> HIDE DEF a
  <2>6. /\ t.status = s.status /\ t.online = s.online /\ t.revised = s.revised
        /\ t.resync = s.resync /\ t.jobs = a /\ t.pump = [phase |-> "marking"]
    BY DEF Awake, JournalSet
  <2> HIDE DEF t
  <2>7. t.pump.phase = "marking" /\ ~Live(t.pump)
    BY <2>6 DEF Live
  <2>8. TurnsIn(t)
    BY <2>5, <2>6, <2>7 DEF TurnsIn
  <2>9. Paced(s, t)
    BY <2>6, <2>7 DEF Paced, Replays
  <2> QED
    BY <2>1, <2>6, <2>7, <2>8, <2>9
<1> QED
  BY <1>1, <1>2

(* The pump returns, and may go round its loop. *)
LEMMA EndPumpPaced ==
  ASSUME NEW s \in Awake, TurnsIn(s), Lacks(s.jobs, PumpJobs)
  PROVE  /\ TurnsIn(EndPump(s)) /\ Paced(s, EndPump(s))
         /\ EndPump(s).status = s.status
         /\ EndPump(s).pump.phase \in {"idle", "marking"}
<1> DEFINE t == [s EXCEPT !.pump = Idle]
<1>1. t \in Awake
  BY PumpIdle, CalmlyAwake
<1>2. /\ t.status = s.status /\ t.online = s.online /\ t.revised = s.revised
      /\ t.resync = s.resync /\ t.jobs = s.jobs /\ t.pump = Idle
  BY DEF Awake, JournalSet
<1> HIDE DEF t
<1>3. t.pump.phase = "idle" /\ ~Live(t.pump)
  BY <1>2 DEF Live, Idle
<1>4. TurnsIn(t)
  BY <1>2, TurnsFree DEF TurnsIn
<1>5. TurnsIn(Pump(t)) /\ Paced(t, Pump(t)) /\ Pump(t).status = t.status
      /\ (Pump(t).pump = t.pump \/ Pump(t).pump.phase = "marking")
  BY <1>1, <1>4, PumpPaced
<1>6. Paced(s, t)
  BY <1>2, <1>3 DEF Paced, Replays
<1>7. Paced(s, Pump(t))
  BY <1>5, <1>6 DEF Paced
<1>8. EndPump(s) = Pump(t)
  BY DEF EndPump, t
<1> QED
  BY <1>2, <1>3, <1>5, <1>7, <1>8

(* The queue and the phases are the same. *)
LEMMA TurnsIfSame ==
  ASSUME NEW s, NEW t, TurnsIn(s), t.jobs = s.jobs, t.pump.phase = s.pump.phase,
         t.resync.phase = s.resync.phase
  PROVE  TurnsIn(t)
BY DEF TurnsIn

(* A retry is scheduled. *)
LEMMA ScheduleRetryPaced ==
  ASSUME NEW s \in Awake
  PROVE  /\ Paced(s, ScheduleRetry(s))
         /\ ScheduleRetry(s).jobs = s.jobs /\ ScheduleRetry(s).pump = s.pump
         /\ ScheduleRetry(s).status \in {s.status, "retry-wait"}
<1> DEFINE t == [s EXCEPT !.status = "retry-wait", !.retry = TRUE]
<1>1. /\ t.status = "retry-wait" /\ t.online = s.online /\ t.revised = s.revised
      /\ t.resync = s.resync /\ t.jobs = s.jobs /\ t.pump = s.pump
  BY DEF Awake, JournalSet
<1>2. ScheduleRetry(s) \in {s, t}
  BY DEF ScheduleRetry
<1> HIDE DEF t
<1>3. Paced(s, t) /\ Paced(s, s)
  BY <1>1 DEF Paced, Replays
<1> QED
  BY <1>1, <1>2, <1>3

(* The controller of a call is let go. *)
LEMMA SettledPaced ==
  ASSUME NEW s \in Awake, NEW call
  PROVE  /\ Paced(s, Settled(s, call))
         /\ Settled(s, call).jobs = s.jobs /\ Settled(s, call).pump = s.pump
         /\ Settled(s, call).status = s.status
<1> DEFINE t == [s EXCEPT !.active = "none"]
<1>1. /\ t.status = s.status /\ t.online = s.online /\ t.revised = s.revised
      /\ t.resync = s.resync /\ t.jobs = s.jobs /\ t.pump = s.pump
  BY DEF Awake, JournalSet
<1>2. Settled(s, call) \in {s, t}
  BY DEF Settled
<1> HIDE DEF t
<1>3. Paced(s, t) /\ Paced(s, s)
  BY <1>1 DEF Paced, Replays
<1> QED
  BY <1>1, <1>2, <1>3

(* Only the status changes. *)
LEMMA StatusFields ==
  ASSUME NEW s \in Awake, NEW v
  PROVE  LET t == [s EXCEPT !.status = v]
         IN  /\ t.status = v /\ t.online = s.online /\ t.revised = s.revised
             /\ t.resync = s.resync /\ t.jobs = s.jobs /\ t.pump = s.pump
             /\ t.snap = s.snap /\ t.written = s.written
BY DEF Awake, JournalSet

(* The pump returns with a status, which is not ready unless a submission was on
   its way. *)
LEMMA EndPumpWithPaced ==
  ASSUME NEW s \in Awake, NEW v \in Statuses \ {"closed"}, TurnsIn(s), Lacks(s.jobs, PumpJobs),
         v \in {"ready", "sending"} => Replays(s)
  PROVE  LET t == EndPump([s EXCEPT !.status = v])
         IN  TurnsIn(t) /\ Paced(s, t) /\ t.pump.phase \in {"idle", "marking"}
<1> DEFINE u == [s EXCEPT !.status = v]
<1>1. u \in Awake
  BY StatusCalm, CalmlyAwake
<1>2. /\ u.status = v /\ u.online = s.online /\ u.revised = s.revised
      /\ u.resync = s.resync /\ u.jobs = s.jobs /\ u.pump = s.pump
  BY StatusFields
<1> HIDE DEF u
<1>3. TurnsIn(u)
  BY <1>2, TurnsIfSame
<1>4. Paced(s, u)
  BY <1>2 DEF Paced, Replays
<1>5. TurnsIn(EndPump(u)) /\ Paced(u, EndPump(u)) /\ EndPump(u).pump.phase \in {"idle", "marking"}
  BY <1>1, <1>2, <1>3, EndPumpPaced
<1>6. Paced(s, EndPump(u))
  BY <1>4, <1>5 DEF Paced
<1> QED
  BY <1>5, <1>6 DEF u

(* A resync asks for its turn, or one is under way. *)
LEMMA ResynchronizePaced ==
  ASSUME NEW s \in Awake, TurnsIn(s)
  PROVE  LET t == Resynchronize(s)
         IN  /\ TurnsIn(t) /\ t.online = s.online /\ t.revised = s.revised
             /\ t.pump = s.pump /\ t.written = s.written
             /\ \/ t = s /\ (s.resync.phase # "idle" \/ ~s.online)
                \/ t.status = "resyncing" /\ t.resync.phase = "settling" /\ s.online
                   /\ s.resync.phase = "idle"
<1>1. CASE s.resync.phase # "idle" \/ ~s.online
  BY <1>1 DEF Resynchronize
<1>2. CASE ~(s.resync.phase # "idle" \/ ~s.online)
  <2> DEFINE m == [kind |-> "settle"]
             a == Append(s.jobs, m)
             t == [s EXCEPT !.status = "resyncing", !.resync = [phase |-> "settling"],
                            !.jobs = a]
  <2>1. Resynchronize(s) = t
    BY <1>2 DEF Resynchronize
  <2>2. s.jobs \in Seq(JobSet) /\ m \in JobSet /\ m.kind = "settle"
    BY DEF Awake, JournalSet, JobSet
  <2>3. Lacks(s.jobs, ResyncJobs)
    BY <1>2, LacksIfQuiet DEF TurnsIn
  <2> HIDE DEF m
  <2>4. Fits(m.kind, s.pump.phase, "settling") /\ m.kind \notin PumpJobs
    BY <2>2 DEF Fits, PumpJobs
  <2>5. Turns(a, s.pump.phase, "settling")
    BY <2>2, <2>3, <2>4, TurnsAppended DEF TurnsIn
  <2> HIDE DEF a
  <2>6. /\ t.status = "resyncing" /\ t.online = s.online /\ t.revised = s.revised
        /\ t.resync = [phase |-> "settling"] /\ t.jobs = a /\ t.pump = s.pump
        /\ t.written = s.written
    BY DEF Awake, JournalSet
  <2> HIDE DEF t
  <2>7. t.resync.phase = "settling"
    BY <2>6
  <2>8. TurnsIn(t)
    BY <2>5, <2>6, <2>7 DEF TurnsIn
  <2> QED
    BY <1>2, <2>1, <2>6, <2>7, <2>8
<1> QED
  BY <1>1, <1>2

(* A resync ends, and one that connect() waited for begins. *)
LEMMA EndResyncPaced ==
  ASSUME NEW s \in Awake, TurnsIn(s), Lacks(s.jobs, ResyncJobs)
  PROVE  LET t == EndResync(s)
         IN  /\ TurnsIn(t) /\ t.online = s.online /\ t.revised = s.revised
             /\ t.pump = s.pump
             /\ \/ t.status = s.status /\ t.resync.phase = "idle"
                \/ t.status = "resyncing" /\ t.resync.phase = "settling"
<1> DEFINE u == [s EXCEPT !.resync = Idle, !.reconnecting = FALSE]
           v == [u EXCEPT !.retry = FALSE]
<1>0. Idle \in ResyncSet /\ Idle.phase = "idle"
  BY DEF Idle, ResyncSet
<1>1. /\ u \in Awake /\ u.status = s.status /\ u.online = s.online
      /\ u.revised = s.revised /\ u.resync = Idle /\ u.jobs = s.jobs /\ u.pump = s.pump
  BY <1>0 DEF Awake, JournalSet
<1>2. EndResync(s) = IF s.reconnecting /\ s.online THEN Resynchronize(v) ELSE u
  BY DEF EndResync
<1> HIDE DEF u
<1>3. /\ v \in Awake /\ v.status = s.status /\ v.online = s.online
      /\ v.revised = s.revised /\ v.resync = Idle /\ v.jobs = s.jobs /\ v.pump = s.pump
  BY <1>1 DEF Awake, JournalSet
<1> HIDE DEF v
<1>4. TurnsIn(u) /\ TurnsIn(v)
  BY <1>0, <1>1, <1>3, TurnsFree DEF TurnsIn
<1> DEFINE w == Resynchronize(v)
<1>5. /\ TurnsIn(w) /\ w.online = v.online /\ w.revised = v.revised /\ w.pump = v.pump
      /\ \/ w = v /\ (v.resync.phase # "idle" \/ ~v.online)
         \/ w.status = "resyncing" /\ w.resync.phase = "settling"
  BY <1>3, <1>4, ResynchronizePaced
<1> HIDE DEF w
<1>6. CASE s.reconnecting /\ s.online
  <2>1. EndResync(s) = w
    BY <1>2, <1>6 DEF w
  <2> QED
    BY <1>0, <1>3, <1>5, <1>6, <2>1
<1>7. CASE ~(s.reconnecting /\ s.online)
  BY <1>0, <1>1, <1>2, <1>4, <1>7
<1> QED
  BY <1>6, <1>7

-----------------------------------------------------------------------------
(* A resync before every replay. *)

Sure == mishaps \cap {"cancel readied", "overlap"} = {}

(* The pump's mark is written: it asks as soon as the write resolves. *)
Marked == jn.written /\ Job.kind = "mark"

Replaying == Replays(jn) \/ Marked

MarkReady ==
  Marked => /\ jn.resync.phase \in {"idle", "settling"}
            /\ jn.resync.phase = "idle" /\ jn.online => fresh

PaceInv == TurnsIn(jn) /\ (Sure => Steady(jn, fresh) /\ MarkReady)

(* A resync that replays what it found is written. *)
Rebasing == ResumeMutation /\ Job.kind = "rebase" /\ ~jn.revised

PaceStep ==
  /\ PaceInv'
  /\ Sure' /\ Replaying' => Replaying \/ Rebasing
  /\ Sure' /\ jn'.pump.phase = "asked" /\ jn.pump.phase # "asked" => fresh

(* The mutation that is written stays the one whose turn it is. *)
SameTurn == jn'.written = jn.written /\ (jn.written => Job' = Job)

(* As the queue grows at its end. *)
LEMMA SameTurnIfGrown ==
  ASSUME WrittenDone, jn.jobs \in Seq(JobSet), jn'.jobs \in Seq(JobSet),
         jn'.written = jn.written, Len(jn.jobs) <= Len(jn'.jobs),
         \A i \in 1..Len(jn.jobs) : jn'.jobs[i] = jn.jobs[i]
  PROVE  SameTurn
<1> SUFFICES ASSUME jn.written PROVE Job' = Job
  BY DEF SameTurn
<1>1. jn.jobs # <<>>
  BY DEF WrittenDone
<1>2. Len(jn.jobs) \in Nat \ {0} /\ 1 \in 1..Len(jn.jobs) /\ jn'.jobs # <<>>
  BY <1>1
<1>3. Head(jn'.jobs) = jn'.jobs[1] /\ Head(jn.jobs) = jn.jobs[1]
  BY <1>1, <1>2
<1> QED
  BY <1>2, <1>3 DEF Job

(* So it is where nothing of note joins the queue. *)
LEMMA SameTurnIfCalm ==
  ASSUME WrittenDone, jn \in Awake, Calmly(jn, jn')
  PROVE  SameTurn
BY SameTurnIfGrown DEF Calmly, Grown, Awake, JournalSet

(* The pump goes on, and the resync does not. *)
LEMMA PumpSideStep ==
  ASSUME PaceInv, TurnsIn(jn'), SameTurn, fresh' = fresh, Sure' => Sure,
         jn'.online = jn.online, jn'.resync.phase = jn.resync.phase,
         Replays(jn') => Replays(jn),
         jn'.pump.phase = "asked" => jn.pump.phase = "asked"
  PROVE  PaceStep
BY DEF PaceStep, PaceInv, SameTurn, Steady, MarkReady, Marked, Replaying, TurnsIn

(* With a resync under way nothing replays. *)
LEMMA NothingReplays ==
  ASSUME PaceInv, Sure, jn.resync.phase # "idle"
  PROVE  ~Replays(jn) /\ (Marked => jn.resync.phase = "settling")
BY DEF PaceInv, Steady, MarkReady

(* The resync goes on. *)
LEMMA ResyncSideStep ==
  ASSUME PaceInv, TurnsIn(jn'), SameTurn, Sure' => Sure,
         jn.resync.phase \in {"asked", "answered"},
         Replays(jn') => Replays(jn),
         jn'.pump.phase = "asked" => jn.pump.phase = "asked"
  PROVE  PaceStep
<1>1. Sure => ~Replays(jn) /\ ~Marked
  BY NothingReplays
<1>2. Marked' => Marked
  BY DEF SameTurn, Marked
<1> QED
  BY <1>1, <1>2 DEF PaceStep, PaceInv, Steady, MarkReady, Replaying, TurnsIn

(* What is noted of a submission and a resync at once. *)
LEMMA NotedOverlap ==
  ASSUME NEW s
  PROVE  /\ mishaps \subseteq Noted(s)
         /\ Live(s.pump) /\ s.resync.phase # "idle" => "overlap" \in Noted(s)
BY DEF Noted, Live

(* No other mutation is written. *)
LEMMA MarkedElsewhere ==
  ASSUME SameTurn
  PROVE  Marked' = Marked
BY DEF SameTurn, Marked

-----------------------------------------------------------------------------
(* The submission. *)

(* A call that failed. *)
LEMMA SubmitFailedPaced ==
  ASSUME NEW s \in Awake, TurnsIn(s), s.pump.phase \in {"asked", "answered"}
  PROVE  LET t == SubmitFailed(s)
         IN  TurnsIn(t) /\ Paced(s, t) /\ t.pump.phase \in {"idle", "marking"}
<1> DEFINE u == Settled(s, "pump")
           v == ScheduleRetry(u)
<1>1. u \in Awake
  BY SettledCalm, CalmlyAwake
<1>2. Paced(s, u) /\ u.jobs = s.jobs /\ u.pump = s.pump /\ u.status = s.status
  BY SettledPaced
<1>3. SubmitFailed(s) \in {EndPump(ScheduleRetry(u)), EndPump([u EXCEPT !.status = "offline"]),
                           EndPump(u)}
  BY DEF SubmitFailed
<1> HIDE DEF u
<1>4. TurnsIn(u) /\ Lacks(u.jobs, PumpJobs)
  BY <1>2, TurnsIfSame, LacksIfQuiet DEF Paced, TurnsIn
<1>5. v \in Awake /\ Paced(u, v) /\ v.jobs = u.jobs /\ v.pump = u.pump
  BY <1>1, ScheduleRetryCalm, CalmlyAwake, ScheduleRetryPaced
<1> HIDE DEF v
<1>6. TurnsIn(v) /\ Lacks(v.jobs, PumpJobs)
  BY <1>4, <1>5, TurnsIfSame DEF Paced
<1>7. TurnsIn(EndPump(v)) /\ Paced(v, EndPump(v)) /\ EndPump(v).pump.phase \in {"idle", "marking"}
  BY <1>5, <1>6, EndPumpPaced
<1>8. Paced(s, EndPump(v))
  BY <1>2, <1>5, <1>7 DEF Paced
<1>9. TurnsIn(EndPump(u)) /\ Paced(u, EndPump(u)) /\ EndPump(u).pump.phase \in {"idle", "marking"}
  BY <1>1, <1>4, EndPumpPaced
<1>10. Paced(s, EndPump(u))
  BY <1>2, <1>9 DEF Paced
<1> DEFINE w == EndPump([u EXCEPT !.status = "offline"])
<1>11. TurnsIn(w) /\ Paced(u, w) /\ w.pump.phase \in {"idle", "marking"}
  BY <1>1, <1>4, EndPumpWithPaced DEF Statuses
<1> HIDE DEF w
<1>12. Paced(s, w)
  BY <1>2, <1>11 DEF Paced
<1> QED
  BY <1>3, <1>7, <1>8, <1>9, <1>10, <1>11, <1>12 DEF v, w

(* An acknowledged one ends the pump, or is to be committed. *)
LEMMA SubmitAckedPaced ==
  ASSUME NEW s \in Awake, NEW ack \in AckSet, TurnsIn(s), s.pump.phase = "answered"
  PROVE  LET t == SubmitAcked(s, ack)
         IN  /\ TurnsIn(t) /\ Paced(s, t)
             /\ t.pump.phase \in {"idle", "marking", "committing"}
<1> DEFINE u == Settled(s, "pump")
           job == [kind |-> "commit", key |-> s.pump.entry.key,
                   id |-> s.pump.entry.id, seq |-> ack.seq]
           a == Append(u.jobs, job)
           w == [u EXCEPT !.pump = [phase |-> "committing"], !.jobs = a]
<1>1. u \in Awake
  BY SettledCalm, CalmlyAwake
<1>2. Paced(s, u) /\ u.jobs = s.jobs /\ u.pump = s.pump /\ u.status = s.status
  BY SettledPaced
<1>3. SubmitAcked(s, ack) =
        IF ~s.online \/ s.pump.aborted THEN EndPump(u)
        ELSE IF s.snap.entries = <<>> \/ HeadKey(s) # s.pump.entry.key
        THEN EndPump([u EXCEPT !.status = "ready"])
        ELSE IF TooOld(s, ack) THEN EndPump([u EXCEPT !.status = "blocked"])
        ELSE w
  BY DEF SubmitAcked
<1>4. s.pump \in [phase : {"answered"}, aborted : BOOLEAN, entry : EntrySet, base : Nat,
                   ack : AckSet]
  BY DEF Awake, JournalSet, PumpSet
<1>5. job \in JobSet /\ job.kind = "commit"
  BY <1>4 DEF JobSet, EntrySet, AckSet
<1> HIDE DEF u, job
<1>6. TurnsIn(u) /\ Lacks(u.jobs, PumpJobs) /\ u.jobs \in Seq(JobSet)
  BY <1>1, <1>2, TurnsIfSame, LacksIfQuiet DEF Paced, TurnsIn, Awake, JournalSet
<1>7. TurnsIn(EndPump(u)) /\ Paced(u, EndPump(u)) /\ EndPump(u).pump.phase \in {"idle", "marking"}
  BY <1>1, <1>6, EndPumpPaced
<1>8. Paced(s, EndPump(u))
  BY <1>2, <1>7 DEF Paced
<1> DEFINE r == EndPump([u EXCEPT !.status = "ready"])
           b == EndPump([u EXCEPT !.status = "blocked"])
<1>9. TurnsIn(b) /\ Paced(u, b) /\ b.pump.phase \in {"idle", "marking"}
  BY <1>1, <1>6, EndPumpWithPaced DEF Statuses
<1>10. ASSUME ~s.pump.aborted
       PROVE  Live(s.pump) /\ Replays(u)
  BY <1>2, <1>10 DEF Live, Replays
<1>11. ASSUME ~s.pump.aborted
       PROVE  TurnsIn(r) /\ Paced(u, r) /\ r.pump.phase \in {"idle", "marking"}
  BY <1>1, <1>6, <1>10, <1>11, EndPumpWithPaced DEF Statuses
<1> HIDE DEF r, b
<1>12. Paced(s, b) /\ (~s.pump.aborted => Paced(s, r))
  BY <1>2, <1>9, <1>11 DEF Paced
<1>13. Fits("commit", "committing", u.resync.phase) /\ "commit" \notin ResyncJobs
  BY DEF Fits, ResyncJobs
<1>14. Turns(a, "committing", u.resync.phase)
  BY <1>5, <1>6, <1>13, TurnsAppended DEF TurnsIn
<1> HIDE DEF a
<1>15. /\ w.status = u.status /\ w.online = u.online /\ w.revised = u.revised
       /\ w.resync = u.resync /\ w.jobs = a /\ w.pump = [phase |-> "committing"]
  BY <1>1 DEF Awake, JournalSet
<1> HIDE DEF w
<1>16. w.pump.phase = "committing" /\ TurnsIn(w)
  BY <1>14, <1>15 DEF TurnsIn
<1>17. ASSUME ~s.pump.aborted
       PROVE  Paced(s, w)
  BY <1>2, <1>10, <1>15, <1>17 DEF Paced, Replays
<1> QED
  BY <1>3, <1>7, <1>8, <1>9, <1>11, <1>12, <1>16, <1>17 DEF r, b

(* The calls to the server and their answers. *)
LEMMA SubmitsPaced ==
  ASSUME PlainInv, Closed, PaceInv, PlainInv',
         SubmitReturns \/ SubmitLost \/ ServeOther \/ \E r \in wire : ServeSubmit(r)
  PROVE  PaceStep
<1>1. WrittenDone /\ Types /\ Types' /\ TurnsIn(jn)
  BY DEF PlainInv, PaceInv
<1>2. fresh' = fresh /\ mishaps' = mishaps /\ (Sure' => Sure)
  BY DEF SubmitReturns, SubmitLost, ServeOther, ServeSubmit, Sure
<1>3. CASE SubmitLost \/ (SubmitReturns /\ jn.pump.ack.seq = 0)
  <2>1. jn' = SubmitFailed(jn) /\ jn.pump.phase \in {"asked", "answered"}
    BY <1>3 DEF SubmitLost, SubmitReturns
  <2>2. jn \in Awake
    BY <2>1, OpenIfBusy, OpenJournal
  <2>3. TurnsIn(jn') /\ Paced(jn, jn') /\ jn'.pump.phase \in {"idle", "marking"}
    BY <1>1, <2>1, <2>2, SubmitFailedPaced
  <2>4. SameTurn
    BY <1>1, <2>1, <2>2, SubmitFailedCalm, SameTurnIfCalm
  <2> QED
    BY <1>2, <2>3, <2>4, PumpSideStep DEF Paced
<1>4. CASE SubmitReturns /\ jn.pump.ack.seq # 0
  <2> DEFINE ack == jn.pump.ack
  <2>1. jn' = SubmitAcked(jn, ack) /\ jn.pump.phase = "answered"
    BY <1>4 DEF SubmitReturns
  <2>2. jn \in Awake
    BY <2>1, OpenIfBusy, OpenJournal
  <2>3. ack \in AckSet
    <3>1. jn.pump \in [phase : {"answered"}, aborted : BOOLEAN, entry : EntrySet,
                       base : Nat, ack : AckSet]
      BY <2>1, <2>2 DEF Awake, JournalSet, PumpSet
    <3> QED
      BY <3>1
  <2>4. TurnsIn(jn') /\ Paced(jn, jn') /\ jn'.pump.phase \in {"idle", "marking", "committing"}
    BY <1>1, <2>1, <2>2, <2>3, SubmitAckedPaced
  <2>5. SameTurn
    <3>1. CASE Calmly(jn, jn')
      BY <1>1, <2>2, <3>1, SameTurnIfCalm
    <3>2. CASE ~Calmly(jn, jn')
      <4>0. ~Calmly(jn, SubmitAcked(jn, ack))
        BY <2>1, <3>2
      <4> HIDE DEF ack
      <4>1. PICK u : /\ Calmly(jn, u) /\ u.pump = jn.pump /\ u.jobs = jn.jobs
                     /\ SubmitAcked(jn, ack) =
                          [u EXCEPT !.pump = [phase |-> "committing"],
                             !.jobs = Append(@, [kind |-> "commit", key |-> jn.pump.entry.key,
                                                 id |-> jn.pump.entry.id, seq |-> ack.seq])]
        BY <2>2, <4>0, SubmitAckedSteps
      <4> DEFINE job == [kind |-> "commit", key |-> jn.pump.entry.key,
                         id |-> jn.pump.entry.id, seq |-> ack.seq]
                 a == Append(jn.jobs, job)
      <4>2. jn' = [u EXCEPT !.pump = [phase |-> "committing"], !.jobs = a]
        BY <2>1, <4>1
      <4>3. u \in JournalSet /\ u.written = jn.written /\ jn'.jobs \in Seq(JobSet)
            /\ jn.jobs \in Seq(JobSet)
        BY <1>1, <4>1 DEF Calmly, Types, JournalSet
      <4> HIDE DEF a
      <4>4. jn'.written = jn.written /\ jn'.jobs = a
        BY <4>2, <4>3 DEF JournalSet
      <4> HIDE DEF job
      <4>5. Len(jn.jobs) <= Len(jn'.jobs) /\ \A i \in 1..Len(jn.jobs) : jn'.jobs[i] = jn.jobs[i]
        BY <4>3, <4>4 DEF a
      <4> QED
        BY <1>1, <4>3, <4>4, <4>5, SameTurnIfGrown
    <3> QED
      BY <3>1, <3>2
  <2> QED
    BY <1>2, <2>4, <2>5, PumpSideStep DEF Paced
<1>5. CASE ServeOther
  <2>1. jn' = jn
    BY <1>5 DEF ServeOther
  <2>2. SameTurn
    BY <2>1 DEF SameTurn, Job
  <2> QED
    BY <1>1, <1>2, <2>1, <2>2, PumpSideStep
<1>6. ASSUME NEW r \in wire, ServeSubmit(r)
      PROVE  PaceStep
  <2>1. \/ jn' = jn
        \/ /\ jn.pump.phase = "asked"
           /\ \E ack : jn' = [jn EXCEPT !.pump = [phase |-> "answered", aborted |-> @.aborted,
                                                  entry |-> @.entry, base |-> @.base, ack |-> ack]]
    BY <1>6 DEF ServeSubmit
  <2>2. CASE jn' = jn
    <3>1. SameTurn
      BY <2>2 DEF SameTurn, Job
    <3> QED
      BY <1>1, <1>2, <2>2, <3>1, PumpSideStep
  <2>3. CASE jn' # jn
    <3>1. PICK ack : jn' = [jn EXCEPT !.pump = [phase |-> "answered", aborted |-> @.aborted,
                                                  entry |-> @.entry, base |-> @.base, ack |-> ack]]
      BY <2>1, <2>3
    <3> DEFINE c == [phase |-> "answered", aborted |-> jn.pump.aborted,
                     entry |-> jn.pump.entry, base |-> jn.pump.base, ack |-> ack]
    <3>2. jn' = [jn EXCEPT !.pump = c]
      BY <3>1
    <3>3. c.phase = "answered" /\ c.aborted = jn.pump.aborted
      OBVIOUS
    <3> HIDE DEF c
    <3>4. /\ jn'.status = jn.status /\ jn'.online = jn.online /\ jn'.resync = jn.resync
          /\ jn'.jobs = jn.jobs /\ jn'.written = jn.written /\ jn'.pump = c
      BY <1>1, <3>2 DEF Types, JournalSet
    <3>5. jn.pump.phase = "asked" /\ Lacks(jn.jobs, PumpJobs)
      BY <1>1, <2>1, <2>3, LacksIfQuiet DEF TurnsIn
    <3>6. TurnsIn(jn')
      BY <1>1, <3>4, <3>5, TurnsFree DEF TurnsIn
    <3>7. Replays(jn') => Replays(jn)
      BY <3>3, <3>4, <3>5 DEF Replays, Live
    <3>8. SameTurn
      BY <3>4 DEF SameTurn, Job
    <3> QED
      BY <1>2, <3>3, <3>4, <3>6, <3>7, <3>8, PumpSideStep
  <2> QED
    BY <2>2, <2>3
<1> QED
  BY <1>3, <1>4, <1>5, <1>6

-----------------------------------------------------------------------------
(* The host, and the resync. *)

(* The host releases what it deferred. *)
LEMMA ReleasePaced ==
  ASSUME PlainInv, Closed, PaceInv, NEW key \in jn.deferred, Release(key)
  PROVE  PaceStep
<1> DEFINE d == jn.deferred \ {key}
           t == [jn EXCEPT !.deferred = d]
<1>1. jn \in Awake /\ WrittenDone /\ TurnsIn(jn)
  BY OpenIfBusy, OpenJournal DEF PlainInv, PaceInv
<1>2. d \in SUBSET Nat
  BY <1>1 DEF Awake, JournalSet
<1>3. jn' = Pump(t) /\ fresh' = fresh /\ (Sure' => Sure)
  BY DEF Release, Sure
<1> HIDE DEF d
<1>4. /\ t \in Awake /\ t.jobs = jn.jobs /\ t.pump = jn.pump /\ t.resync = jn.resync
      /\ t.status = jn.status /\ t.online = jn.online
  BY <1>1, <1>2 DEF Awake, JournalSet
<1> HIDE DEF t
<1>5. TurnsIn(t)
  BY <1>1, <1>4, TurnsIfSame
<1>6. /\ TurnsIn(jn') /\ Paced(t, jn')
      /\ jn'.pump = t.pump \/ jn'.pump.phase = "marking"
  BY <1>3, <1>4, <1>5, PumpPaced
<1>7. Replays(t) <=> Replays(jn)
  BY <1>4 DEF Replays
<1>8. SameTurn
  BY <1>1, ReleaseQuiet, SameTurnIfCalm DEF Quiet
<1> QED
  BY <1>3, <1>4, <1>6, <1>7, <1>8, PumpSideStep DEF Paced

(* connect(): a resync is begun, or will be. *)
LEMMA ConnectPaced ==
  ASSUME PlainInv, PaceInv, Connect
  PROVE  PaceStep
<1> DEFINE s == [jn EXCEPT !.online = TRUE, !.retry = FALSE]
           t == [s EXCEPT !.reconnecting = TRUE]
<1>1. jn \in Awake /\ WrittenDone /\ TurnsIn(jn)
  BY OpenJournal DEF PlainInv, PaceInv, Connect
<1>2. /\ s \in Awake /\ s.jobs = jn.jobs /\ s.pump = jn.pump /\ s.resync = jn.resync
      /\ s.status = jn.status /\ s.online = TRUE
  BY <1>1 DEF Awake, JournalSet
<1>3. jn' = (IF s.resync.phase # "idle" THEN t ELSE Resynchronize(s))
      /\ mishaps' = Noted(jn')
  BY DEF Connect
<1> HIDE DEF s
<1>4. /\ t.jobs = s.jobs /\ t.pump = s.pump /\ t.resync = s.resync /\ t.status = s.status
  BY <1>2 DEF Awake, JournalSet
<1> HIDE DEF t
<1>5. TurnsIn(s) /\ TurnsIn(t)
  BY <1>1, <1>2, <1>4, TurnsIfSame
<1>6. Sure' => Sure /\ ~(Live(jn'.pump) /\ jn'.resync.phase # "idle")
  BY <1>3, NotedOverlap DEF Sure
<1>7. SameTurn /\ Marked' = Marked
  BY <1>1, ConnectQuiet, SameTurnIfCalm, MarkedElsewhere DEF Quiet
<1>8. CASE jn.resync.phase # "idle"
  <2>1. jn' = t
    BY <1>2, <1>3, <1>8
  <2>2. Replays(jn') <=> Replays(jn)
    BY <1>2, <1>4, <2>1 DEF Replays
  <2>3. jn'.resync.phase = jn.resync.phase /\ jn'.pump = jn.pump
    BY <1>2, <1>4, <2>1
  <2>4. Sure' => ~Replays(jn) /\ (Marked => jn.resync.phase = "settling")
    BY <1>6, <1>8, NothingReplays
  <2> QED
    BY <1>5, <1>7, <1>8, <2>1, <2>2, <2>3, <2>4
    DEF PaceStep, PaceInv, Steady, MarkReady, Replaying, TurnsIn
<1>9. CASE jn.resync.phase = "idle"
  <2>1. jn' = Resynchronize(s)
    BY <1>2, <1>3, <1>9
  <2>2. /\ TurnsIn(jn') /\ jn'.pump = s.pump
        /\ jn'.status = "resyncing" /\ jn'.resync.phase = "settling"
    BY <1>2, <1>5, <1>9, <2>1, ResynchronizePaced
  <2>3. Sure' => ~Replays(jn')
    BY <1>6, <2>2 DEF Replays
  <2> QED
    BY <1>2, <1>7, <2>2, <2>3
    DEF PaceStep, PaceInv, Steady, MarkReady, Replaying, TurnsIn
<1> QED
  BY <1>8, <1>9

(* The retry timer fires. *)
LEMMA RetryDuePaced ==
  ASSUME PlainInv, Closed, PaceInv, RetryDue
  PROVE  PaceStep
<1> DEFINE s == [jn EXCEPT !.retry = FALSE]
<1>1. jn \in Awake /\ WrittenDone /\ TurnsIn(jn)
  BY OpenIfBusy, OpenJournal DEF PlainInv, PaceInv, RetryDue
<1>2. /\ s \in Awake /\ s.jobs = jn.jobs /\ s.pump = jn.pump /\ s.resync = jn.resync
      /\ s.status = jn.status /\ s.online = jn.online
  BY <1>1 DEF Awake, JournalSet
<1>3. jn' = Resynchronize(s) /\ mishaps' = Noted(jn') /\ fresh' = fresh
  BY DEF RetryDue
<1> HIDE DEF s
<1>5. TurnsIn(s)
  BY <1>1, <1>2, TurnsIfSame
<1>6. Sure' => Sure /\ ~(Live(jn'.pump) /\ jn'.resync.phase # "idle")
  BY <1>3, NotedOverlap DEF Sure
<1>7. SameTurn /\ Marked' = Marked
  BY <1>1, RetryDueQuiet, SameTurnIfCalm, MarkedElsewhere DEF Quiet
<1>8. /\ TurnsIn(jn') /\ jn'.online = s.online /\ jn'.pump = s.pump
      /\ \/ jn' = s
         \/ jn'.status = "resyncing" /\ jn'.resync.phase = "settling"
  BY <1>2, <1>3, <1>5, ResynchronizePaced
<1>9. CASE jn' = s
  <2>1. Replays(jn') <=> Replays(jn)
    BY <1>2, <1>9 DEF Replays
  <2> QED
    BY <1>2, <1>3, <1>5, <1>6, <1>7, <1>9, <2>1, PumpSideStep
<1>10. CASE jn'.status = "resyncing" /\ jn'.resync.phase = "settling"
  <2>1. Sure' => ~Replays(jn')
    BY <1>6, <1>10 DEF Replays
  <2> QED
    BY <1>2, <1>7, <1>8, <1>10, <2>1
    DEF PaceStep, PaceInv, Steady, MarkReady, Replaying, TurnsIn
<1> QED
  BY <1>8, <1>9, <1>10

(* A call that is given up no longer counts, and the resync is the same one. *)
LEMMA AbortPaced ==
  ASSUME NEW s \in Awake
  PROVE  LET t == Abort(s)
         IN  /\ t.jobs = s.jobs /\ t.status = s.status /\ t.online = s.online
             /\ t.revised = s.revised /\ t.written = s.written /\ t.snap = s.snap
             /\ t.pump.phase = s.pump.phase /\ (Live(t.pump) => Live(s.pump))
             /\ t.resync.phase = s.resync.phase
             /\ t.resync.phase \in {"asked", "answered"} => t.resync.keys = s.resync.keys
             /\ t.resync.phase = "answered" => t.resync.head = s.resync.head
<1> DEFINE c == IF s.active = "pump" THEN [s.pump EXCEPT !.aborted = TRUE] ELSE s.pump
           d == IF s.active = "resync" THEN [s.resync EXCEPT !.aborted = TRUE] ELSE s.resync
           t == [s EXCEPT !.pump = c, !.resync = d]
<1>1. s.pump \in PumpSet /\ s.resync \in ResyncSet
  BY DEF Awake, JournalSet
<1>2. c.phase = s.pump.phase /\ (Live(c) => Live(s.pump))
  <2> DEFINE e == [s.pump EXCEPT !.aborted = TRUE]
  <2>1. CASE s.pump \in [phase : {"idle", "marking", "committing"}]
    <3>1. e.phase = s.pump.phase /\ s.pump.phase \notin {"asked", "answered"}
      BY <2>1
    <3> HIDE DEF e
    <3>2. Live(e) => Live(s.pump)
      BY <3>1 DEF Live
    <3> QED
      BY <3>1, <3>2 DEF e
  <2>2. CASE s.pump \in [phase : {"asked"}, aborted : BOOLEAN, entry : EntrySet, base : Nat]
    <3>1. e.phase = "asked" /\ e.aborted = TRUE /\ s.pump.phase = "asked"
      BY <2>2
    <3> HIDE DEF e
    <3>2. ~Live(e)
      BY <3>1 DEF Live
    <3> QED
      BY <3>1, <3>2 DEF e
  <2>3. CASE s.pump \in [phase : {"answered"}, aborted : BOOLEAN, entry : EntrySet,
                         base : Nat, ack : AckSet]
    <3>1. e.phase = "answered" /\ e.aborted = TRUE /\ s.pump.phase = "answered"
      BY <2>3
    <3> HIDE DEF e
    <3>2. ~Live(e)
      BY <3>1 DEF Live
    <3> QED
      BY <3>1, <3>2 DEF e
  <2> QED
    BY <1>1, <2>1, <2>2, <2>3 DEF PumpSet
<1>3. /\ d.phase = s.resync.phase
      /\ d.phase \in {"asked", "answered"} => d.keys = s.resync.keys
      /\ d.phase = "answered" => d.head = s.resync.head
  <2>1. CASE s.resync \in [phase : {"idle", "settling", "committing"}]
    BY <2>1
  <2>2. CASE s.resync \in [phase : {"asked"}, aborted : BOOLEAN, keys : SUBSET Nat]
    BY <2>2
  <2>3. CASE s.resync \in [phase : {"answered"}, aborted : BOOLEAN, keys : SUBSET Nat, head : Nat]
    BY <2>3
  <2> QED
    BY <1>1, <2>1, <2>2, <2>3 DEF ResyncSet
<1>4. Abort(s) = t
  BY DEF Abort
<1> HIDE DEF c, d
<1>5. /\ t.jobs = s.jobs /\ t.status = s.status /\ t.online = s.online
      /\ t.revised = s.revised /\ t.written = s.written /\ t.snap = s.snap
      /\ t.pump = c /\ t.resync = d
  BY DEF Awake, JournalSet
<1> HIDE DEF t
<1> QED
  BY <1>2, <1>3, <1>4, <1>5

(* disconnect(). *)
LEMMA DisconnectPaced ==
  ASSUME PlainInv, PaceInv, Disconnect
  PROVE  PaceStep
<1> DEFINE s == Abort(jn)
<1>1. jn \in Awake /\ WrittenDone /\ TurnsIn(jn)
  BY OpenJournal DEF PlainInv, PaceInv, Disconnect
<1>2. s \in Awake
  BY <1>1, AbortCalm, CalmlyAwake
<1>3. /\ s.jobs = jn.jobs /\ s.pump.phase = jn.pump.phase /\ (Live(s.pump) => Live(jn.pump))
      /\ s.resync.phase = jn.resync.phase
  BY <1>1, AbortPaced
<1>4. jn' = [s EXCEPT !.online = FALSE, !.active = "none", !.retry = FALSE,
                      !.status = "offline"]
      /\ (Sure' => Sure)
  BY DEF Disconnect, Sure
<1> HIDE DEF s
<1>5. /\ jn'.jobs = s.jobs /\ jn'.pump = s.pump /\ jn'.resync = s.resync
      /\ jn'.online = FALSE /\ jn'.status = "offline"
  BY <1>2, <1>4 DEF Awake, JournalSet
<1>6. TurnsIn(jn')
  BY <1>1, <1>3, <1>5, TurnsIfSame
<1>7. Marked' = Marked
  BY <1>1, DisconnectQuiet, SameTurnIfCalm, MarkedElsewhere DEF Quiet
<1>8. Replays(jn') => Replays(jn)
  BY <1>3, <1>5 DEF Replays
<1> QED
  BY <1>3, <1>4, <1>5, <1>6, <1>7, <1>8
  DEF PaceStep, PaceInv, Steady, MarkReady, Replaying, TurnsIn

(* A mutation that is the host's joins the queue. *)
LEMMA HostJobPaced ==
  ASSUME PlainInv, PlainInv', PaceInv, NEW s \in Awake, NEW job \in JobSet,
         job.kind \in {"enqueue", "cancel"},
         s.jobs = jn.jobs, s.status = jn.status, s.online = jn.online,
         s.written = jn.written,
         s.pump.phase = jn.pump.phase, Live(s.pump) => Live(jn.pump),
         s.resync.phase = jn.resync.phase,
         jn'.jobs = Append(s.jobs, job), jn'.status = s.status, jn'.online = s.online,
         jn'.written = s.written, jn'.pump = s.pump, jn'.resync = s.resync,
         fresh' = fresh, Sure' => Sure
  PROVE  PaceStep
<1>1. jn.jobs \in Seq(JobSet) /\ jn'.jobs \in Seq(JobSet) /\ WrittenDone /\ TurnsIn(jn)
  BY DEF PlainInv, Types, JournalSet, PaceInv
<1>2. Fits(job.kind, jn.pump.phase, jn.resync.phase)
      /\ job.kind \notin PumpJobs /\ job.kind \notin ResyncJobs
  BY DEF Fits, PumpJobs, ResyncJobs
<1>3. TurnsIn(jn')
  BY <1>1, <1>2, TurnsAppended DEF TurnsIn
<1>4. Len(jn.jobs) <= Len(jn'.jobs) /\ \A i \in 1..Len(jn.jobs) : jn'.jobs[i] = jn.jobs[i]
  BY <1>1
<1>5. SameTurn
  BY <1>1, <1>4, SameTurnIfGrown
<1>6. Replays(jn') => Replays(jn)
  BY DEF Replays
<1> QED
  BY <1>3, <1>5, <1>6, PumpSideStep

(* enqueue(). *)
LEMMA EnqueuePaced ==
  ASSUME PlainInv, PlainInv', PaceInv, NEW defer \in BOOLEAN, Enqueue(defer)
  PROVE  PaceStep
<1> DEFINE job == [kind |-> "enqueue", id |-> Len(fate) + 1, on |-> jn.snap.seq,
                   defer |-> defer]
           a == Append(jn.jobs, job)
<1>1. jn \in Awake /\ fate \in Seq(Fates)
  BY OpenJournal DEF Enqueue, PlainInv, Types
<1>2. job \in JobSet /\ job.kind = "enqueue"
  BY <1>1 DEF Awake, JournalSet, SnapSet, JobSet
<1>3. jn' = [jn EXCEPT !.revised = TRUE, !.jobs = a] /\ fresh' = fresh /\ (Sure' => Sure)
  BY DEF Enqueue, Sure
<1> HIDE DEF job, a
<1>4. /\ jn'.jobs = a /\ jn'.status = jn.status /\ jn'.online = jn.online
      /\ jn'.written = jn.written /\ jn'.pump = jn.pump /\ jn'.resync = jn.resync
  BY <1>1, <1>3 DEF Awake, JournalSet
<1> QED
  BY <1>1, <1>2, <1>3, <1>4, HostJobPaced DEF a

(* cancel(). *)
LEMMA CancelPaced ==
  ASSUME PlainInv, Closed, PlainInv', PaceInv, NEW key \in KeysOf(jn.snap), Cancel(key)
  PROVE  PaceStep
<1> DEFINE s == IF HeadKey(jn) = key THEN Abort(jn) ELSE jn
           job == [kind |-> "cancel", key |-> key, id |-> IdOf(jn.snap, key)]
           a == Append(s.jobs, job)
<1>1. IsOpen
  <2>1. CASE ~IsOpen
    <3>1. jn.snap.entries = <<>>
      BY <2>1 DEF Closed, Unopened, Empty
    <3>2. 1..Len(jn.snap.entries) = {}
      BY <3>1
    <3> QED
      BY <3>2, Zenon DEF KeysOf
  <2> QED
    BY <2>1
<1>2. jn \in Awake
  BY <1>1, OpenJournal
<1>3. PICK i \in 1..Len(jn.snap.entries) : jn.snap.entries[i].key = key
  BY DEF KeysOf
<1>4. /\ PlaceOf(jn.snap, key) \in 1..Len(jn.snap.entries)
      /\ jn.snap.entries[PlaceOf(jn.snap, key)].key = key
  BY <1>3 DEF PlaceOf
<1>5. jn.snap.entries[PlaceOf(jn.snap, key)] \in EntrySet
  BY <1>2, <1>4 DEF Awake, JournalSet, SnapSet
<1>6. job \in JobSet /\ job.kind = "cancel"
  BY <1>4, <1>5 DEF JobSet, EntrySet, IdOf
<1>7. jn' = [s EXCEPT !.jobs = a] /\ fresh' = fresh /\ (Sure' => Sure)
  BY DEF Cancel, Sure
<1>8. s \in Awake
  BY <1>2, AbortCalm, CalmlyAwake
<1>9. /\ s.jobs = jn.jobs /\ s.status = jn.status /\ s.online = jn.online
      /\ s.written = jn.written /\ s.pump.phase = jn.pump.phase
      /\ (Live(s.pump) => Live(jn.pump)) /\ s.resync.phase = jn.resync.phase
  BY <1>2, AbortPaced
<1> HIDE DEF s, job, a
<1>10. /\ jn'.jobs = a /\ jn'.status = s.status /\ jn'.online = s.online
       /\ jn'.written = s.written /\ jn'.pump = s.pump /\ jn'.resync = s.resync
  BY <1>7, <1>8 DEF Awake, JournalSet
<1> QED
  BY <1>6, <1>7, <1>8, <1>9, <1>10, HostJobPaced DEF a

(* The process stops, or starts again. *)
LEMMA RestartPaced ==
  ASSUME PlainInv, Open \/ Stop
  PROVE  PaceStep
<1>1. /\ jn'.jobs = <<>> /\ jn'.written = FALSE /\ jn'.pump = Idle
      /\ jn'.status \in {"closed", "offline"}
  <2>1. CASE Stop
    BY <2>1 DEF Stop, Unopened
  <2>2. CASE Open
    <3>1. /\ jn'.jobs = Unopened.jobs /\ jn'.written = Unopened.written
          /\ jn'.pump = Unopened.pump /\ jn'.status = "offline"
      BY <2>2, UnopenedIsJournal DEF Open, JournalSet
    <3> QED
      BY <3>1 DEF Unopened
  <2> QED
    BY <2>1, <2>2
<1>2. 1..Len(jn'.jobs) = {}
  BY <1>1
<1>3. TurnsIn(jn')
  BY <1>2, Zenon DEF TurnsIn, Turns
<1>4. ~Replays(jn') /\ ~Marked' /\ jn'.pump.phase = "idle"
  BY <1>1 DEF Replays, Live, Marked, Idle
<1> QED
  BY <1>3, <1>4 DEF PaceStep, PaceInv, Steady, MarkReady, Replaying, TurnsIn

(* The resync is asked for, answered, refused or lost. *)
LEMMA ResyncsPaced ==
  ASSUME PlainInv, Closed, PlainInv', PaceInv,
         ServeResync \/ ResyncReturns \/ ResyncRefuses \/ ResyncLost
  PROVE  PaceStep
<1>1. jn.resync.phase \in {"asked", "answered"}
  BY DEF ServeResync, ResyncReturns, ResyncRefuses, ResyncLost
<1>2. jn \in Awake /\ WrittenDone /\ TurnsIn(jn)
  BY <1>1, OpenIfBusy, OpenJournal DEF PlainInv, PaceInv
<1>3. Lacks(jn.jobs, ResyncJobs)
  BY <1>1, <1>2, LacksIfQuiet DEF TurnsIn
<1>4. Sure' => Sure
  BY DEF ServeResync, ResyncReturns, ResyncRefuses, ResyncLost, Sure
<1>5. CASE ServeResync
  <2> DEFINE c == [phase |-> "answered", aborted |-> jn.resync.aborted,
                   keys |-> jn.resync.keys, head |-> Len(slog)]
  <2>1. jn' = [jn EXCEPT !.resync = c]
    BY <1>5 DEF ServeResync
  <2> HIDE DEF c
  <2>2. /\ jn'.jobs = jn.jobs /\ jn'.pump = jn.pump /\ jn'.status = jn.status
        /\ jn'.written = jn.written
    BY <1>2, <2>1 DEF Awake, JournalSet
  <2>3. TurnsIn(jn')
    BY <1>2, <1>3, <2>2, TurnsFree DEF TurnsIn
  <2>4. SameTurn /\ (Replays(jn') => Replays(jn))
    BY <2>2 DEF SameTurn, Job, Replays
  <2> QED
    BY <1>1, <1>4, <2>2, <2>3, <2>4, ResyncSideStep
<1> DEFINE s == Settled(jn, "resync")
<1>6. s \in Awake /\ Calmly(jn, s)
  BY <1>2, SettledCalm, CalmlyAwake
<1>7. Paced(jn, s) /\ s.jobs = jn.jobs /\ s.pump = jn.pump /\ s.status = jn.status
  BY <1>2, SettledPaced
<1>8. ASSUME NEW u \in Awake, jn' = EndResync(u), Calmly(jn, u), u.jobs = jn.jobs,
             u.pump = jn.pump, u.resync = jn.resync,
             u.status \in {jn.status, "blocked", "retry-wait"}
      PROVE  PaceStep
  <2>1. TurnsIn(u) /\ Lacks(u.jobs, ResyncJobs)
    BY <1>2, <1>3, <1>8, TurnsIfSame
  <2>2. /\ TurnsIn(jn') /\ jn'.pump = u.pump
        /\ jn'.status = u.status \/ jn'.status = "resyncing"
    BY <1>8, <2>1, EndResyncPaced
  <2>3. Replays(jn') => Replays(jn)
    BY <1>8, <2>2 DEF Replays
  <2>4. Calmly(jn, jn')
    BY <1>2, <1>8, EndResyncCalm, CalmlyTwice
  <2>5. SameTurn
    BY <1>2, <2>4, SameTurnIfCalm
  <2> QED
    BY <1>1, <1>4, <1>8, <2>2, <2>3, <2>5, ResyncSideStep
<1>9. CASE ResyncRefuses
  <2> DEFINE u == [s EXCEPT !.status = "blocked"]
  <2>1. jn' = EndResync(u)
    BY <1>9 DEF ResyncRefuses
  <2> HIDE DEF s
  <2>2. u \in Awake /\ Calmly(jn, u)
    BY <1>2, <1>6, StatusCalm, CalmlyTwice, CalmlyAwake DEF Statuses
  <2>3. u.jobs = jn.jobs /\ u.pump = jn.pump /\ u.resync = jn.resync /\ u.status = "blocked"
    BY <1>6, <1>7, StatusFields DEF Paced
  <2> HIDE DEF u
  <2> QED
    BY <1>8, <2>1, <2>2, <2>3
<1>10. CASE ResyncLost
  <2> DEFINE v == ScheduleRetry(s)
  <2>1. jn' \in {EndResync(v), EndResync(s)}
    BY <1>10 DEF ResyncLost
  <2> HIDE DEF s
  <2>2. v \in Awake /\ Calmly(jn, v)
    BY <1>2, <1>6, ScheduleRetryCalm, CalmlyTwice, CalmlyAwake
  <2>3. /\ v.jobs = jn.jobs /\ v.pump = jn.pump /\ v.resync = jn.resync
        /\ v.status \in {jn.status, "retry-wait"}
    BY <1>6, <1>7, ScheduleRetryPaced DEF Paced
  <2> HIDE DEF v
  <2>4. CASE jn' = EndResync(v)
    BY <1>8, <2>2, <2>3, <2>4
  <2>5. CASE jn' = EndResync(s)
    BY <1>6, <1>7, <1>8, <2>5 DEF Paced
  <2> QED
    BY <2>1, <2>4, <2>5
<1>11. CASE ResyncReturns
  <2>1. CASE ~jn.online \/ jn.resync.aborted
    <3>1. jn' = EndResync(s)
      BY <1>11, <2>1 DEF ResyncReturns
    <3> HIDE DEF s
    <3> QED
      BY <1>6, <1>7, <1>8, <3>1 DEF Paced
  <2>2. CASE ~(~jn.online \/ jn.resync.aborted)
    <3> DEFINE job == [kind |-> "rebase", seq |-> jn.resync.head, keys |-> jn.resync.keys]
               a == Append(s.jobs, job)
    <3>1. jn' = [s EXCEPT !.resync = [phase |-> "committing"], !.jobs = a]
      BY <1>11, <2>2 DEF ResyncReturns
    <3>2. job \in JobSet /\ job.kind = "rebase"
      <4>1. jn.resync \in [phase : {"answered"}, aborted : BOOLEAN, keys : SUBSET Nat,
                           head : Nat]
        BY <1>2, <1>11 DEF Awake, JournalSet, ResyncSet, ResyncReturns
      <4> QED
        BY <4>1 DEF JobSet
    <3> HIDE DEF s, job
    <3>3. jn.jobs \in Seq(JobSet) /\ a = Append(jn.jobs, job) /\ a \in Seq(JobSet)
      BY <1>2, <1>7, <3>2 DEF Awake, JournalSet
    <3>4. Fits(job.kind, jn.pump.phase, "committing") /\ job.kind \notin PumpJobs
      BY <3>2 DEF Fits, PumpJobs
    <3>5. Turns(a, jn.pump.phase, "committing")
      BY <1>2, <1>3, <3>2, <3>3, <3>4, TurnsAppended DEF TurnsIn
    <3>6. Len(jn.jobs) <= Len(a) /\ \A i \in 1..Len(jn.jobs) : a[i] = jn.jobs[i]
      BY <3>2, <3>3
    <3> HIDE DEF a
    <3>7. /\ jn'.jobs = a /\ jn'.pump = jn.pump /\ jn'.status = jn.status
          /\ jn'.written = s.written /\ jn'.resync = [phase |-> "committing"]
      BY <1>6, <1>7, <3>1 DEF Awake, JournalSet
    <3>8. TurnsIn(jn') /\ jn'.written = jn.written /\ (Replays(jn') => Replays(jn))
      BY <1>6, <3>5, <3>7 DEF TurnsIn, Calmly, Replays
    <3>9. SameTurn
      BY <1>2, <3>3, <3>6, <3>7, <3>8, SameTurnIfGrown
    <3> QED
      BY <1>1, <1>4, <3>7, <3>8, <3>9, ResyncSideStep
  <2> QED
    BY <2>1, <2>2
<1> QED
  BY <1>5, <1>9, <1>10, <1>11

-----------------------------------------------------------------------------
(* The mutation whose turn it is. *)

(* What is left when it is done. *)
LEMMA RestPaced ==
  ASSUME jn \in Awake, TurnsIn(jn), jn.jobs # <<>>
  PROVE  /\ Rest \in Awake /\ TurnsIn(Rest) /\ Job \in JobSet
         /\ Rest.status = jn.status /\ Rest.online = jn.online /\ Rest.pump = jn.pump
         /\ Rest.resync = jn.resync /\ Rest.revised = jn.revised /\ ~Rest.written
         /\ Job.kind \in PumpJobs => Lacks(Rest.jobs, PumpJobs)
         /\ Job.kind \in ResyncJobs => Lacks(Rest.jobs, ResyncJobs)
         /\ Fits(Job.kind, jn.pump.phase, jn.resync.phase)
<1> DEFINE a == Tail(jn.jobs)
<1>1. /\ Rest \in Awake /\ Rest.pump = jn.pump /\ Rest.jobs = a /\ Job \in JobSet
      /\ Rest.written = FALSE
  BY RestJournal
<1>2. jn.jobs \in Seq(JobSet) /\ a \in Seq(JobSet)
  BY DEF Awake, JournalSet
<1>3. Rest = [jn EXCEPT !.jobs = a, !.written = FALSE]
  BY DEF Rest
<1>4. /\ Turns(a, jn.pump.phase, jn.resync.phase)
      /\ Head(jn.jobs).kind \in PumpJobs => Lacks(a, PumpJobs)
      /\ Head(jn.jobs).kind \in ResyncJobs => Lacks(a, ResyncJobs)
      /\ Fits(Head(jn.jobs).kind, jn.pump.phase, jn.resync.phase)
  BY <1>2, TurnsTail DEF TurnsIn
<1> HIDE DEF a
<1>5. /\ Rest.status = jn.status /\ Rest.online = jn.online
      /\ Rest.resync = jn.resync /\ Rest.revised = jn.revised
  BY <1>3 DEF Awake, JournalSet
<1> QED
  BY <1>1, <1>4, <1>5 DEF TurnsIn, Job

(* Neither it nor the pump makes a submission replay that did not. *)
LEMMA TurnDone ==
  ASSUME PaceInv, TurnsIn(jn'), ~jn'.written, Sure' => Sure, fresh => fresh',
         jn'.online = jn.online, jn'.resync.phase = jn.resync.phase,
         Sure' /\ Replays(jn') => Replays(jn),
         jn'.pump.phase = "asked" => jn.pump.phase = "asked"
  PROVE  PaceStep
BY DEF PaceStep, PaceInv, Steady, MarkReady, Marked, Replaying, TurnsIn

(* Nor do it and the resync it was one of. *)
LEMMA ResyncTurnDone ==
  ASSUME PaceInv, TurnsIn(jn'), ~jn'.written, Sure' => Sure,
         jn.resync.phase # "idle",
         Replays(jn') => Replays(jn),
         jn'.pump.phase = "asked" => jn.pump.phase = "asked"
  PROVE  PaceStep
<1>1. Sure => ~Replays(jn)
  BY NothingReplays
<1> QED
  BY <1>1 DEF PaceStep, PaceInv, Steady, MarkReady, Marked, Replaying, TurnsIn

(* It has nothing to write. *)
LEMMA SkipMutationPaced ==
  ASSUME PlainInv, Closed, PaceInv, SkipMutation
  PROVE  PaceStep
<1>1. jn.jobs # <<>> /\ jn' = Skipped(Rest, Job) /\ fresh' = fresh /\ (Sure' => Sure)
  BY DEF SkipMutation, Sure
<1>2. jn \in Awake /\ TurnsIn(jn)
  BY <1>1, OpenIfBusy, OpenJournal DEF PaceInv
<1> DEFINE s == Rest
<1>3. /\ s \in Awake /\ TurnsIn(s) /\ Job \in JobSet
      /\ s.status = jn.status /\ s.online = jn.online /\ s.pump = jn.pump
      /\ s.resync = jn.resync /\ ~s.written
      /\ Job.kind \in PumpJobs => Lacks(s.jobs, PumpJobs)
      /\ Job.kind \in ResyncJobs => Lacks(s.jobs, ResyncJobs)
      /\ Fits(Job.kind, jn.pump.phase, jn.resync.phase)
  BY <1>1, <1>2, RestPaced
<1>4. Replays(s) <=> Replays(jn)
  BY <1>3 DEF Replays
<1>5. ~jn'.written
  BY <1>1, <1>3, SkippedCalm DEF Calmly
<1> HIDE DEF s
<1>6. CASE Job.kind = "mark"
  <2>1. jn' = EndPump(s) /\ Lacks(s.jobs, PumpJobs)
    BY <1>1, <1>3, <1>6 DEF Skipped, PumpJobs, s
  <2>2. TurnsIn(jn') /\ Paced(s, jn') /\ jn'.pump.phase \in {"idle", "marking"}
    BY <1>3, <2>1, EndPumpPaced
  <2> QED
    BY <1>1, <1>3, <1>4, <1>5, <2>2, TurnDone DEF Paced
<1>7. CASE Job.kind = "commit"
  <2>1. jn' = EndPump([s EXCEPT !.status = "ready"]) /\ Lacks(s.jobs, PumpJobs)
    BY <1>1, <1>3, <1>7 DEF Skipped, PumpJobs, s
  <2>2. Replays(s)
    BY <1>3, <1>7 DEF Fits, Replays, Live
  <2>3. TurnsIn(jn') /\ Paced(s, jn') /\ jn'.pump.phase \in {"idle", "marking"}
    BY <1>3, <2>1, <2>2, EndPumpWithPaced DEF Statuses
  <2> QED
    BY <1>1, <1>3, <1>4, <1>5, <2>3, TurnDone DEF Paced
<1>8. CASE Job.kind = "settle"
  <2> DEFINE c == [phase |-> "asked", aborted |-> FALSE, keys |-> KeysOf(s.snap)]
             t == [s EXCEPT !.active = "resync", !.revised = FALSE, !.resync = c]
  <2>1. jn' = (IF ~s.online THEN EndResync(s) ELSE t) /\ Lacks(s.jobs, ResyncJobs)
        /\ jn.resync.phase = "settling"
    BY <1>1, <1>3, <1>8 DEF Skipped, ResyncJobs, Fits, s
  <2>2. CASE jn' = EndResync(s)
    <3>1. /\ TurnsIn(jn') /\ jn'.pump = s.pump
          /\ jn'.status = s.status \/ jn'.status = "resyncing"
      BY <1>3, <2>1, <2>2, EndResyncPaced
    <3>2. Replays(jn') => Replays(jn)
      BY <1>3, <3>1 DEF Replays
    <3> QED
      BY <1>1, <1>3, <1>5, <2>1, <3>1, <3>2, ResyncTurnDone
  <2>3. CASE jn' = t
    <3> HIDE DEF c
    <3>1. /\ jn'.pump = s.pump /\ jn'.status = s.status /\ jn'.jobs = s.jobs
      BY <1>3, <2>3 DEF Awake, JournalSet
    <3>2. TurnsIn(jn')
      BY <1>3, <2>1, <3>1, TurnsFree DEF TurnsIn
    <3>3. Replays(jn') => Replays(jn)
      BY <1>3, <3>1 DEF Replays
    <3> QED
      BY <1>1, <1>3, <1>5, <2>1, <3>1, <3>2, <3>3, ResyncTurnDone
  <2> QED
    BY <2>1, <2>2, <2>3
<1>9. CASE Job.kind \notin {"mark", "commit", "settle"}
  <2>1. jn' = s
    BY <1>1, <1>9 DEF Skipped, s
  <2> QED
    BY <1>1, <1>3, <1>4, <1>5, <2>1, TurnDone
<1> QED
  BY <1>6, <1>7, <1>8, <1>9

(* Its write failed. *)
LEMMA FailToWritePaced ==
  ASSUME PlainInv, Closed, PaceInv, FailToWrite
  PROVE  PaceStep
<1>1. jn.jobs # <<>> /\ jn' = Failed(Rest, Job) /\ fresh' = fresh /\ (Sure' => Sure)
  BY DEF FailToWrite, Sure
<1>2. jn \in Awake /\ TurnsIn(jn)
  BY <1>1, OpenIfBusy, OpenJournal DEF PaceInv
<1> DEFINE s == Rest
           v == ScheduleRetry(s)
<1>3. /\ s \in Awake /\ TurnsIn(s) /\ Job \in JobSet
      /\ s.status = jn.status /\ s.online = jn.online /\ s.pump = jn.pump
      /\ s.resync = jn.resync /\ ~s.written
      /\ Job.kind \in PumpJobs => Lacks(s.jobs, PumpJobs)
      /\ Job.kind \in ResyncJobs => Lacks(s.jobs, ResyncJobs)
      /\ Fits(Job.kind, jn.pump.phase, jn.resync.phase)
  BY <1>1, <1>2, RestPaced
<1>4. Replays(s) <=> Replays(jn)
  BY <1>3 DEF Replays
<1>5. ~jn'.written
  BY <1>1, <1>3, FailedCalm DEF Calmly
<1>6. jn' = CASE Job.kind \in {"mark", "commit"} -> EndPump(v)
              [] Job.kind = "rebase" -> EndResync(v)
              [] OTHER -> s
  BY <1>1 DEF Failed
<1> HIDE DEF s
<1>7. /\ v \in Awake /\ Paced(s, v) /\ v.jobs = s.jobs /\ v.pump = s.pump
      /\ v.status \in {s.status, "retry-wait"}
  BY <1>3, ScheduleRetryCalm, CalmlyAwake, ScheduleRetryPaced
<1> HIDE DEF v
<1>8. TurnsIn(v)
  BY <1>3, <1>7, TurnsIfSame DEF Paced
<1>9. CASE Job.kind \in {"mark", "commit"}
  <2>1. jn' = EndPump(v) /\ Lacks(v.jobs, PumpJobs)
    BY <1>3, <1>6, <1>7, <1>9 DEF PumpJobs
  <2>2. TurnsIn(jn') /\ Paced(v, jn') /\ jn'.pump.phase \in {"idle", "marking"}
    BY <1>7, <1>8, <2>1, EndPumpPaced
  <2> QED
    BY <1>1, <1>3, <1>4, <1>5, <1>7, <2>2, TurnDone DEF Paced
<1>10. CASE Job.kind = "rebase"
  <2>1. jn' = EndResync(v) /\ Lacks(v.jobs, ResyncJobs) /\ jn.resync.phase = "committing"
    BY <1>3, <1>6, <1>7, <1>10 DEF ResyncJobs, Fits
  <2>2. /\ TurnsIn(jn') /\ jn'.pump = v.pump
        /\ jn'.status = v.status \/ jn'.status = "resyncing"
    BY <1>7, <1>8, <2>1, EndResyncPaced
  <2>3. Replays(jn') => Replays(jn)
    BY <1>3, <1>7, <2>2 DEF Replays
  <2> QED
    BY <1>1, <1>3, <1>5, <1>7, <2>1, <2>2, <2>3, ResyncTurnDone
<1>11. CASE Job.kind \notin {"mark", "commit", "rebase"}
  <2>1. jn' = s
    BY <1>6, <1>11
  <2> QED
    BY <1>1, <1>3, <1>4, <1>5, <2>1, TurnDone
<1> QED
  BY <1>9, <1>10, <1>11

(* It is written: the pump's mark only while a resync counts. *)
LEMMA WriteMutationPaced ==
  ASSUME PlainInv, PaceInv, NEW f \in Names, KeyedInv(f), WriteMutation
  PROVE  PaceStep
<1>1. /\ jn \in Awake /\ jn'.jobs = jn.jobs /\ jn'.pump = jn.pump /\ Job' = Job
      /\ jn'.written = TRUE /\ Applies(jn, Job) /\ ~jn.written
  BY WriteSteps
<1>2. jn' = [jn EXCEPT !.written = TRUE,
                       !.blocked = (Job.kind = "cancel" /\ jn.status = "blocked")]
      /\ fresh' = fresh /\ (Sure' <=> Sure)
  BY DEF WriteMutation, Sure
<1>3. jn'.status = jn.status /\ jn'.online = jn.online /\ jn'.resync = jn.resync
  <2> DEFINE b == (Job.kind = "cancel" /\ jn.status = "blocked")
  <2>1. jn' = [jn EXCEPT !.written = TRUE, !.blocked = b]
    BY <1>2
  <2> HIDE DEF b
  <2> QED
    BY <1>1, <2>1 DEF Awake, JournalSet
<1>4. TurnsIn(jn')
  BY <1>1, <1>3, TurnsIfSame DEF PaceInv
<1>5. Replays(jn') <=> Replays(jn)
  BY <1>1, <1>3 DEF Replays
<1>6. Marked' => Replays(jn)
  BY <1>1 DEF Marked, Applies, CanMark, Replays
<1> QED
  BY <1>1, <1>2, <1>3, <1>4, <1>5, <1>6
  DEF PaceStep, PaceInv, Steady, MarkReady, Replaying, TurnsIn

(* Its write resolves. *)
LEMMA ResumeMutationPaced ==
  ASSUME PlainInv, Closed, PlainInv', PaceInv, NEW f \in Names, KeyedInv(f), ResumeMutation
  PROVE  PaceStep
<1> DEFINE s == [Rest EXCEPT !.snap = disk]
<1>1. /\ jn.jobs # <<>> /\ jn.written /\ jn' = Resumed(s, Job)
      /\ fresh' = (fresh \/ (Job.kind = "rebase" /\ ~jn.revised))
      /\ mishaps \subseteq mishaps' /\ Noted(jn') \subseteq mishaps'
      /\ Job.kind = "cancel" /\ jn.online /\ jn.status \notin {"ready", "sending"}
           => "cancel readied" \in mishaps'
  BY NotedOverlap DEF ResumeMutation
<1>2. IsOpen /\ jn \in Awake /\ TurnsIn(jn) /\ WrittenDone
  BY <1>1, OpenIfBusy, OpenJournal DEF PaceInv, PlainInv
<1>3. /\ Rest \in Awake /\ TurnsIn(Rest) /\ Job \in JobSet
      /\ Rest.status = jn.status /\ Rest.online = jn.online /\ Rest.pump = jn.pump
      /\ Rest.resync = jn.resync /\ Rest.revised = jn.revised /\ ~Rest.written
      /\ Job.kind \in PumpJobs => Lacks(Rest.jobs, PumpJobs)
      /\ Job.kind \in ResyncJobs => Lacks(Rest.jobs, ResyncJobs)
      /\ Fits(Job.kind, jn.pump.phase, jn.resync.phase)
  BY <1>1, <1>2, RestPaced
<1>4. disk \in SnapSet
  BY <1>2 DEF PlainInv, Types, KeyedInv, MemoryKeyed
<1>5. /\ s \in Awake /\ s.jobs = Rest.jobs
      /\ s.status = jn.status /\ s.online = jn.online /\ s.pump = jn.pump
      /\ s.resync = jn.resync /\ s.revised = jn.revised /\ ~s.written
  BY <1>3, <1>4 DEF Awake, JournalSet
<1>6. TurnsIn(s)
  BY <1>3, <1>5, TurnsIfSame
<1> HIDE DEF s
<1>7. Replays(s) <=> Replays(jn)
  BY <1>5 DEF Replays
<1>8. Job.kind # "settle"
  BY <1>1, <1>2 DEF WrittenDone
<1>9. Sure' => Sure
  BY <1>1 DEF Sure
<1>10. ~Calmly(s, jn') => Job.kind = "mark" /\ s.online /\ jn' = Ask(s)
  BY <1>1, <1>3, <1>5, <1>8, ResumedSteps
<1>11. ~jn'.written
  <2>1. CASE Calmly(s, jn')
    BY <1>5, <2>1 DEF Calmly
  <2>2. CASE jn' = Ask(s)
    BY <1>5, <2>2 DEF Ask, Awake, JournalSet
  <2> QED
    BY <1>10, <2>1, <2>2
<1>12. CASE Job.kind = "enqueue"
  <2> DEFINE t == [s EXCEPT !.deferred = @ \cup {s.snap.next - 1}]
  <2>1. jn' = (IF Job.defer THEN t ELSE Pump(s))
    BY <1>1, <1>12 DEF Resumed
  <2>2. /\ t.jobs = s.jobs /\ t.status = s.status /\ t.online = s.online
        /\ t.pump = s.pump /\ t.resync = s.resync
    BY <1>5 DEF Awake, JournalSet
  <2> HIDE DEF t
  <2>3. CASE jn' = t
    <3>1. TurnsIn(jn')
      BY <1>6, <2>2, <2>3, TurnsIfSame
    <3>2. Replays(jn') <=> Replays(jn)
      BY <1>5, <2>2, <2>3 DEF Replays
    <3> QED
      BY <1>1, <1>5, <1>9, <1>11, <1>12, <2>2, <2>3, <3>1, <3>2, TurnDone
  <2>4. CASE jn' = Pump(s)
    <3>1. /\ TurnsIn(jn') /\ Paced(s, jn')
          /\ jn'.pump = s.pump \/ jn'.pump.phase = "marking"
      BY <1>5, <1>6, <2>4, PumpPaced
    <3> QED
      BY <1>1, <1>5, <1>7, <1>9, <1>11, <1>12, <3>1, TurnDone DEF Paced
  <2> QED
    BY <2>1, <2>3, <2>4
<1>13. CASE Job.kind = "cancel"
  <2> DEFINE b == s.blocked /\ s.snap.entries # <<>>
             v == IF b THEN "blocked" ELSE IF s.online THEN "ready" ELSE "offline"
             d == s.deferred \ {Job.key}
             t == [s EXCEPT !.deferred = d, !.blocked = FALSE, !.status = v]
  <2>1. d \in SUBSET Nat /\ v \in Statuses \ {"closed"}
        /\ (v \in {"ready", "sending"} => s.online)
    BY <1>5 DEF Awake, JournalSet, Statuses
  <2>2. jn' = IF b THEN t ELSE Pump(t)
    BY <1>1, <1>13 DEF Resumed
  <2> HIDE DEF d, v, b
  <2>3. /\ t \in Awake /\ t.jobs = s.jobs /\ t.pump = s.pump /\ t.resync = s.resync
        /\ t.online = s.online /\ t.status = v
    BY <1>5, <2>1 DEF Awake, JournalSet
  <2> HIDE DEF t
  <2>4. TurnsIn(t)
    BY <1>6, <2>3, TurnsIfSame
  <2>5. Sure' /\ Replays(t) => Replays(jn)
    <3>1. Sure' => ~(jn.online /\ jn.status \notin {"ready", "sending"})
      BY <1>1, <1>13 DEF Sure
    <3> QED
      BY <1>5, <2>1, <2>3, <3>1 DEF Replays
  <2>6. CASE jn' = t
    BY <1>1, <1>5, <1>9, <1>11, <1>13, <2>3, <2>4, <2>5, <2>6, TurnDone
  <2>7. CASE jn' = Pump(t)
    <3>1. /\ TurnsIn(jn') /\ Paced(t, jn')
          /\ jn'.pump = t.pump \/ jn'.pump.phase = "marking"
      BY <2>3, <2>4, <2>7, PumpPaced
    <3> QED
      BY <1>1, <1>5, <1>9, <1>11, <1>13, <2>3, <2>5, <3>1, TurnDone DEF Paced
  <2> QED
    BY <2>2, <2>6, <2>7
<1>14. CASE Job.kind = "mark"
  <2>1. jn' = IF s.online THEN Ask(s) ELSE EndPump(s)
    BY <1>1, <1>14 DEF Resumed
  <2>2. Marked /\ (fresh => fresh')
    BY <1>1, <1>14 DEF Marked
  <2>3. CASE jn' = Ask(s) /\ s.online
    <3> DEFINE c == [phase |-> "asked", aborted |-> FALSE,
                     entry |-> Head(s.snap.entries), base |-> s.snap.seq]
    <3>1. jn' = [s EXCEPT !.status = "sending", !.active = "pump", !.pump = c]
      BY <2>3 DEF Ask
    <3>2. c.phase = "asked" /\ c.aborted = FALSE
      OBVIOUS
    <3> HIDE DEF c
    <3>3. /\ jn'.jobs = s.jobs /\ jn'.resync = s.resync /\ jn'.online = s.online
          /\ jn'.pump = c
      BY <1>5, <3>1 DEF Awake, JournalSet
    <3>4. Live(jn'.pump)
      BY <3>2, <3>3 DEF Live
    <3>5. Lacks(s.jobs, PumpJobs)
      BY <1>3, <1>5, <1>14 DEF PumpJobs
    <3>6. TurnsIn(jn')
      BY <1>6, <3>3, <3>5, TurnsFree DEF TurnsIn
    <3>7. Sure' => jn.resync.phase = "idle" /\ (jn.online => fresh)
      <4>1. Sure' => ~(jn'.resync.phase # "idle")
        BY <1>1, <3>4, NotedOverlap DEF Sure
      <4> QED
        BY <1>5, <1>9, <2>2, <3>3, <4>1 DEF PaceInv, MarkReady
    <3>8. ~Marked'
      BY <1>11 DEF Marked
    <3> QED
      BY <1>5, <1>9, <2>2, <2>3, <3>3, <3>6, <3>7, <3>8
      DEF PaceStep, PaceInv, Steady, MarkReady, Replaying, TurnsIn
  <2>4. CASE jn' = EndPump(s)
    <3>1. Lacks(s.jobs, PumpJobs)
      BY <1>3, <1>5, <1>14 DEF PumpJobs
    <3>2. TurnsIn(jn') /\ Paced(s, jn') /\ jn'.pump.phase \in {"idle", "marking"}
      BY <1>5, <1>6, <2>4, <3>1, EndPumpPaced
    <3> QED
      BY <1>5, <1>7, <1>9, <1>11, <2>2, <3>2, TurnDone DEF Paced
  <2> QED
    BY <2>1, <2>3, <2>4
<1>15. CASE Job.kind = "commit"
  <2>1. jn' = EndPump([s EXCEPT !.status = "ready"]) /\ Lacks(s.jobs, PumpJobs)
    BY <1>1, <1>3, <1>5, <1>15 DEF Resumed, PumpJobs
  <2>2. Replays(s)
    BY <1>3, <1>5, <1>15 DEF Fits, Replays, Live
  <2>3. TurnsIn(jn') /\ Paced(s, jn') /\ jn'.pump.phase \in {"idle", "marking"}
    BY <1>5, <1>6, <2>1, <2>2, EndPumpWithPaced DEF Statuses
  <2> QED
    BY <1>1, <1>5, <1>7, <1>9, <1>11, <1>15, <2>3, TurnDone DEF Paced
<1>16. CASE Job.kind = "rebase"
  <2> DEFINE v == ScheduleRetry(s)
             u == [s EXCEPT !.status = "ready"]
             p == Pump(u)
  <2>1. /\ jn' = IF s.revised THEN EndResync(v) ELSE EndResync(p)
        /\ Lacks(s.jobs, ResyncJobs) /\ jn.resync.phase = "committing"
    BY <1>1, <1>3, <1>5, <1>16 DEF Resumed, AfterRebase, ResyncJobs, Fits
  <2>2. CASE s.revised
    <3>1. /\ v \in Awake /\ Paced(s, v) /\ v.jobs = s.jobs /\ v.pump = s.pump
          /\ v.status \in {s.status, "retry-wait"}
      BY <1>5, ScheduleRetryCalm, CalmlyAwake, ScheduleRetryPaced
    <3> HIDE DEF v
    <3>2. TurnsIn(v)
      BY <1>6, <3>1, TurnsIfSame DEF Paced
    <3>3. /\ TurnsIn(jn') /\ jn'.pump = v.pump
          /\ jn'.status = v.status \/ jn'.status = "resyncing"
      BY <2>1, <2>2, <3>1, <3>2, EndResyncPaced
    <3>4. Replays(jn') => Replays(jn)
      BY <1>5, <3>1, <3>3 DEF Replays
    <3> QED
      BY <1>5, <1>9, <1>11, <2>1, <3>1, <3>3, <3>4, ResyncTurnDone
  <2>3. CASE ~s.revised
    <3>1. u \in Awake
      BY <1>5, StatusCalm, CalmlyAwake DEF Statuses
    <3>2. u.jobs = s.jobs /\ u.pump = s.pump /\ u.resync = s.resync /\ u.online = s.online
      BY <1>5, StatusFields
    <3> HIDE DEF u
    <3>3. TurnsIn(u)
      BY <1>6, <3>2, TurnsIfSame
    <3>4. p \in Awake
      BY <3>1, PumpCalm, CalmlyAwake
    <3>5. /\ TurnsIn(p) /\ Paced(u, p)
          /\ p.pump = u.pump \/ p.pump.phase = "marking"
      BY <3>1, <3>3, PumpPaced
    <3>6. Lacks(p.jobs, ResyncJobs)
      <4>1. p.jobs = u.jobs \/ p.jobs = Append(u.jobs, [kind |-> "mark"])
        <5>1. u.jobs \in Seq(JobSet)
          BY <3>1 DEF Awake, JournalSet
        <5> DEFINE a == Append(u.jobs, [kind |-> "mark"])
        <5>2. [u EXCEPT !.pump = [phase |-> "marking"], !.jobs = a].jobs = a
          BY <3>1 DEF Awake, JournalSet
        <5> QED
          BY <5>2 DEF Pump
      <4>2. CASE p.jobs = u.jobs
        BY <2>1, <3>2, <4>2
      <4>3. CASE p.jobs = Append(u.jobs, [kind |-> "mark"])
        <5> DEFINE m == [kind |-> "mark"]
        <5>1. m.kind = "mark" /\ m \in JobSet /\ p.jobs = Append(u.jobs, m)
              /\ u.jobs \in Seq(JobSet)
          BY <3>1, <4>3 DEF JobSet, Awake, JournalSet
        <5> HIDE DEF m
        <5>2. ASSUME NEW i \in 1..Len(p.jobs)
              PROVE  p.jobs[i] = m \/ (i \in 1..Len(u.jobs) /\ p.jobs[i] = u.jobs[i])
          BY <5>1
        <5> QED
          BY <2>1, <3>2, <5>1, <5>2 DEF Lacks, ResyncJobs
      <4> QED
        BY <4>1, <4>2, <4>3
    <3> HIDE DEF p
    <3>7. /\ TurnsIn(jn') /\ jn'.pump = p.pump /\ jn'.online = p.online
          /\ \/ jn'.resync.phase = "idle"
             \/ jn'.status = "resyncing" /\ jn'.resync.phase = "settling"
      BY <2>1, <2>3, <3>4, <3>5, <3>6, EndResyncPaced
    <3>8. Sure' => ~Live(jn'.pump)
      <4>1. Sure' => ~Live(jn.pump)
        BY <1>9, <2>1, NothingReplays DEF Replays
      <4>2. p.pump.phase = "marking" => ~Live(p.pump)
        BY DEF Live
      <4> QED
        BY <1>5, <3>2, <3>5, <3>7, <4>1, <4>2
    <3>9. Sure' => Steady(jn', fresh')
      <4>1. fresh'
        BY <1>1, <1>5, <1>16, <2>3
      <4>2. jn'.status = "resyncing" => jn'.status \notin {"ready", "sending"}
        OBVIOUS
      <4> QED
        BY <3>7, <3>8, <4>1, <4>2 DEF Steady, Replays
    <3>10. jn'.pump.phase = "asked" => jn.pump.phase = "asked"
      BY <1>5, <3>2, <3>5, <3>7
    <3>11. Rebasing /\ ~Marked'
      BY <1>5, <1>11, <1>16, <2>3 DEF Rebasing, Marked
    <3> QED
      BY <3>7, <3>9, <3>10, <3>11 DEF PaceStep, PaceInv, MarkReady, TurnsIn
  <2> QED
    BY <2>2, <2>3
<1> QED
  BY <1>3, <1>8, <1>12, <1>13, <1>14, <1>15, <1>16 DEF JobSet

-----------------------------------------------------------------------------
(* Every step keeps the pace. *)
LEMMA StepPaced ==
  ASSUME OutboxInv, PaceInv, [JournalNext]_jvars, OutboxInv'
  PROVE  PaceStep
<1>1. PlainInv /\ PlainInv'
  BY DEF OutboxInv
<1>2. PICK f \in Names : KeyedInv(f)
  BY DEF OutboxInv
<1>3. Closed
  BY <1>2 DEF KeyedInv, MemoryKeyed, Closed
<1>4. CASE Open \/ Stop
  BY <1>1, <1>4, RestartPaced
<1>5. CASE Connect
  BY <1>1, <1>5, ConnectPaced
<1>6. CASE Disconnect
  BY <1>1, <1>6, DisconnectPaced
<1>7. CASE RetryDue
  BY <1>1, <1>3, <1>7, RetryDuePaced
<1>8. CASE \E defer \in BOOLEAN : Enqueue(defer)
  BY <1>1, <1>8, EnqueuePaced
<1>9. CASE \E key \in jn.deferred : Release(key)
  BY <1>1, <1>3, <1>9, ReleasePaced
<1>10. CASE \E key \in KeysOf(jn.snap) : Cancel(key)
  BY <1>1, <1>3, <1>10, CancelPaced
<1>11. CASE SkipMutation
  BY <1>1, <1>3, <1>11, SkipMutationPaced
<1>12. CASE WriteMutation
  BY <1>1, <1>2, <1>12, WriteMutationPaced
<1>13. CASE FailToWrite
  BY <1>1, <1>3, <1>13, FailToWritePaced
<1>14. CASE ResumeMutation
  BY <1>1, <1>2, <1>3, <1>14, ResumeMutationPaced
<1>15. CASE SubmitReturns \/ SubmitLost \/ ServeOther \/ \E r \in wire : ServeSubmit(r)
  BY <1>1, <1>3, <1>15, SubmitsPaced
<1>16. CASE ServeResync \/ ResyncReturns \/ ResyncRefuses \/ ResyncLost
  BY <1>1, <1>3, <1>16, ResyncsPaced
<1>17. CASE UNCHANGED jvars
  <2>1. jn' = jn /\ fresh' = fresh /\ mishaps' = mishaps
    BY <1>17 DEF jvars
  <2>2. SameTurn /\ (Sure' => Sure) /\ TurnsIn(jn')
    BY <2>1 DEF SameTurn, Job, Sure, PaceInv
  <2> QED
    BY <2>1, <2>2, PumpSideStep
<1> QED
  BY <1>4, <1>5, <1>6, <1>7, <1>8, <1>9, <1>10, <1>11, <1>12, <1>13, <1>14, <1>15, <1>16,
     <1>17 DEF JournalNext

(* The journal begins closed. *)
LEMMA InitPaced == JournalInit => PaceInv
<1> SUFFICES ASSUME JournalInit PROVE PaceInv
  OBVIOUS
<1>1. /\ jn.jobs = <<>> /\ jn.written = FALSE /\ jn.pump.phase = "idle"
      /\ jn.status = "closed"
  BY DEF JournalInit, Unopened, Idle
<1>2. 1..Len(jn.jobs) = {}
  BY <1>1
<1>3. TurnsIn(jn)
  BY <1>2, Zenon DEF TurnsIn, Turns
<1>4. ~Replays(jn) /\ ~Marked
  BY <1>1 DEF Replays, Live, Marked
<1> QED
  BY <1>3, <1>4 DEF PaceInv, Steady, MarkReady

(* The pump and the resync take turns: neither has two mutations waiting, and unless
   a cancellation or a late answer ends the wait, nothing is on its way while a
   resync is, or before one has finished since connect() (pump, runPump,
   runResynchronize, mutate). *)
THEOREM PaceInductive == JournalSpec => []PaceInv
<1>1. OutboxInv /\ OutboxInv' /\ PaceInv /\ [JournalNext]_jvars => PaceInv'
  BY StepPaced DEF PaceStep
<1> QED
  BY <1>1, InitPaced, OutboxInductive, PTL DEF JournalSpec

(* connect() is followed by a resync before anything is sent, at any number of
   submissions, connections, retries, lost answers, failed writes and stops. *)
THEOREM ResyncAlwaysBeforeReplay == JournalSpec => ResyncBeforeReplay
<1>1. OutboxInv /\ OutboxInv' /\ PaceInv /\ [JournalNext]_jvars =>
        [jn'.pump.phase = "asked" /\ jn.pump.phase # "asked"
           /\ mishaps' \cap {"cancel readied", "overlap"} = {} => fresh]_jvars
  BY StepPaced DEF PaceStep, Sure
<1> QED
  BY <1>1, OutboxInductive, PaceInductive, PTL DEF JournalSpec, ResyncBeforeReplay

-----------------------------------------------------------------------------
(* What is logged was expressed on the log before it. *)

(* A resync did not miss an edit, and it and a submission took turns. *)
Coped == mishaps \cap {"unseen edit", "cancel readied", "overlap"} = {}

(* Nothing of another client is after position on, up to position to. *)
Clear(on, to) == \A k \in (on + 1)..to : slog[k].key # 0
ClearNext(on, to) == \A k \in (on + 1)..to : slog'[k].key # 0

(* The journal's own entry is at position n. *)
OwnAt(n) == n \in 1..Len(slog) /\ slog[n].key # 0
OwnAtNext(n) == n \in 1..Len(slog') /\ slog'[n].key # 0

(* The file is one submission behind the log at most, counting only its own. *)
FileAhead ==
  /\ File.seq <= Len(slog)
  /\ \A n \in 1..Len(slog) : slog[n].key # 0 => n <= File.seq + 1

(* Positions that mutations and answers bring are in the log. *)
JobAhead(job) ==
  /\ job.kind = "commit" => OwnAt(job.seq)
  /\ job.kind = "rebase" => job.seq <= Len(slog)
JobAheadNext(job) ==
  /\ job.kind = "commit" => OwnAtNext(job.seq)
  /\ job.kind = "rebase" => job.seq <= Len(slog')
JobsAhead == \A i \in 1..Len(jn.jobs) : JobAhead(jn.jobs[i])

CallAhead == jn.pump.phase = "answered" /\ jn.pump.ack.seq # 0 => OwnAt(jn.pump.ack.seq)
HeadAhead == jn.resync.phase = "answered" => jn.resync.head <= Len(slog)

(* Only a rebase takes the file past another's entry. *)
SnapAhead == jn.written /\ Job.kind # "rebase" => Clear(jn.snap.seq, File.seq)

AheadInv == FileAhead /\ JobsAhead /\ CallAhead /\ HeadAhead /\ SnapAhead

(* A resync that need not go round again knows all there is to rebase. *)
Shows(keys) == (\A i \in Places : Entries[i].key \in keys) /\ Lacks(jn.jobs, {"enqueue"})

JobSees(job) == job.kind = "rebase" => Shows(job.keys) /\ File.seq <= job.seq

ResyncSees ==
  /\ jn.resync.phase \in {"asked", "answered"} => Shows(jn.resync.keys)
  /\ jn.resync.phase = "answered" => File.seq <= jn.resync.head

Seen ==
  Coped /\ ~jn.revised =>
    ResyncSees /\ \A i \in 1..Len(jn.jobs) : JobSees(jn.jobs[i])

(* What may be replayed is expressed on the log up to what the file knows of it. *)
RebaseDone == jn.written /\ Job.kind = "rebase" /\ ~jn.revised

Expressed ==
  /\ \A i \in Places : Clear(Entries[i].on, File.seq)
  /\ \A i \in 1..Len(jn.jobs) :
       jn.jobs[i].kind = "enqueue" => Clear(jn.jobs[i].on, File.seq)

FileClear == Coped /\ (Replaying \/ RebaseDone) => Expressed
WireClear == Coped => \A r \in wire : Clear(r.on, r.base)
LogClear == Coped => Rebased

ClearInv == AheadInv /\ Seen /\ FileClear /\ WireClear /\ LogClear

-----------------------------------------------------------------------------
(* What the log holds stays. *)
LEMMA ClearGrows ==
  ASSUME Types, Types', LogGrows, NEW on \in Nat, NEW to \in Nat, to <= Len(slog),
         Clear(on, to)
  PROVE  ClearNext(on, to)
<1>1. Len(slog) \in Nat
  BY DEF Types
<1> QED
  BY <1>1 DEF LogGrows, Clear, ClearNext

(* So does an entry of its own. *)
LEMMA OwnGrows ==
  ASSUME Types, Types', LogGrows, NEW n, OwnAt(n)
  PROVE  OwnAtNext(n)
<1>1. Len(slog) \in Nat /\ Len(slog') \in Nat
  BY DEF Types
<1> QED
  BY <1>1 DEF LogGrows, OwnAt, OwnAtNext

(* Two stretches of the log make one. *)
LEMMA ClearJoined ==
  ASSUME NEW a \in Nat, NEW b \in Nat, NEW c \in Nat, Clear(a, b), Clear(b, c)
  PROVE  Clear(a, c)
BY DEF Clear

(* None is a stretch. *)
LEMMA ClearNone ==
  ASSUME NEW a \in Nat, NEW b \in Nat, b <= a
  PROVE  Clear(a, b) /\ ClearNext(a, b)
BY DEF Clear, ClearNext

-----------------------------------------------------------------------------
(* What becomes of a resync. *)

SameSight(c, d) ==
  d.phase \in {"asked", "answered"} =>
    /\ d.phase = c.phase /\ d.keys = c.keys
    /\ d.phase = "answered" => d.head = c.head

Sighted(s, t) == t.revised = s.revised /\ SameSight(s.resync, t.resync)

(* It is the same one. *)
LEMMA SightedIfSame ==
  ASSUME NEW s, NEW t, t.revised = s.revised, t.resync = s.resync
  PROVE  Sighted(s, t)
BY DEF Sighted, SameSight

(* One handler after another. *)
LEMMA SightedTwice ==
  ASSUME NEW s, NEW t, NEW u, Sighted(s, t), Sighted(t, u)
  PROVE  Sighted(s, u)
BY DEF Sighted, SameSight

(* The pump leaves it alone. *)
LEMMA PumpSighted ==
  ASSUME NEW s \in Awake
  PROVE  Sighted(s, Pump(s)) /\ Sighted(s, EndPump(s))
<1>1. ASSUME NEW u \in Awake
      PROVE  Sighted(u, Pump(u))
  <2> DEFINE a == Append(u.jobs, [kind |-> "mark"])
             t == [u EXCEPT !.pump = [phase |-> "marking"], !.jobs = a]
  <2>1. Pump(u) \in {u, t}
    BY DEF Pump
  <2> HIDE DEF a
  <2>2. t.revised = u.revised /\ t.resync = u.resync
    BY DEF Awake, JournalSet
  <2> HIDE DEF t
  <2> QED
    BY <2>1, <2>2, SightedIfSame
<1> DEFINE v == [s EXCEPT !.pump = Idle]
<1>2. v \in Awake /\ v.revised = s.revised /\ v.resync = s.resync
  <2>1. v \in Awake
    BY PumpIdle, CalmlyAwake
  <2> QED
    BY <2>1 DEF Awake, JournalSet
<1>3. EndPump(s) = Pump(v)
  BY DEF EndPump
<1> HIDE DEF v
<1>4. Sighted(s, v) /\ Sighted(v, Pump(v))
  BY <1>1, <1>2, SightedIfSame
<1> QED
  BY <1>1, <1>3, <1>4, SightedTwice

(* So do a retry that is scheduled, a call that settles and a change of status. *)
LEMMA QuietlySighted ==
  ASSUME NEW s \in Awake, NEW v, NEW call
  PROVE  /\ Sighted(s, ScheduleRetry(s)) /\ Sighted(s, Settled(s, call))
         /\ Sighted(s, [s EXCEPT !.status = v])
<1>1. Paced(s, ScheduleRetry(s)) /\ Paced(s, Settled(s, call))
  BY ScheduleRetryPaced, SettledPaced
<1> DEFINE t == [s EXCEPT !.status = v]
<1>2. t.revised = s.revised /\ t.resync = s.resync
  BY StatusFields
<1> HIDE DEF t
<1>3. Sighted(s, t)
  BY <1>2, SightedIfSame
<1> QED
  BY <1>1, <1>3, SightedIfSame DEF Paced, t

(* It begins. *)
LEMMA ResynchronizeSighted ==
  ASSUME NEW s \in Awake
  PROVE  Sighted(s, Resynchronize(s))
<1> DEFINE a == Append(s.jobs, [kind |-> "settle"])
           t == [s EXCEPT !.status = "resyncing", !.resync = [phase |-> "settling"],
                          !.jobs = a]
<1>1. Resynchronize(s) \in {s, t}
  BY DEF Resynchronize
<1> HIDE DEF a
<1>2. t.revised = s.revised /\ t.resync = [phase |-> "settling"]
  BY DEF Awake, JournalSet
<1> HIDE DEF t
<1>3. t.resync.phase = "settling"
  BY <1>2
<1>4. Sighted(s, t) /\ Sighted(s, s)
  BY <1>2, <1>3 DEF Sighted, SameSight
<1> QED
  BY <1>1, <1>4

(* It ends. *)
LEMMA EndResyncSighted ==
  ASSUME NEW s \in Awake
  PROVE  Sighted(s, EndResync(s))
<1> DEFINE u == [s EXCEPT !.resync = Idle, !.reconnecting = FALSE]
           v == [u EXCEPT !.retry = FALSE]
<1>0. Idle \in ResyncSet /\ Idle.phase = "idle"
  BY DEF Idle, ResyncSet
<1>1. u \in Awake /\ u.revised = s.revised /\ u.resync = Idle
  BY <1>0 DEF Awake, JournalSet
<1>2. EndResync(s) \in {u, Resynchronize(v)}
  BY DEF EndResync
<1> HIDE DEF u
<1>3. v \in Awake /\ v.revised = s.revised /\ v.resync = Idle
  BY <1>1 DEF Awake, JournalSet
<1> HIDE DEF v
<1>4. Sighted(s, u) /\ Sighted(s, v)
  BY <1>0, <1>1, <1>3 DEF Sighted, SameSight
<1>5. Sighted(s, Resynchronize(v))
  BY <1>3, <1>4, ResynchronizeSighted, SightedTwice
<1> QED
  BY <1>2, <1>4, <1>5

(* It is given up, perhaps. *)
LEMMA AbortSighted ==
  ASSUME NEW s \in Awake
  PROVE  Sighted(s, Abort(s))
BY AbortPaced DEF Sighted, SameSight

(* A submission is answered, or fails. *)
LEMMA SubmitFailedSighted ==
  ASSUME NEW s \in Awake
  PROVE  Sighted(s, SubmitFailed(s))
<1> DEFINE u == Settled(s, "pump")
           v == ScheduleRetry(u)
           w == [u EXCEPT !.status = "offline"]
<1>1. u \in Awake /\ Sighted(s, u)
  BY SettledCalm, CalmlyAwake, QuietlySighted
<1>2. SubmitFailed(s) \in {EndPump(v), EndPump(w), EndPump(u)}
  BY DEF SubmitFailed
<1> HIDE DEF u
<1>3. v \in Awake /\ w \in Awake
  BY <1>1, ScheduleRetryCalm, StatusCalm, CalmlyAwake DEF Statuses
<1>4. Sighted(u, v) /\ Sighted(u, w)
  BY <1>1, QuietlySighted
<1> HIDE DEF v, w
<1>5. Sighted(u, EndPump(v)) /\ Sighted(u, EndPump(w)) /\ Sighted(u, EndPump(u))
  BY <1>1, <1>3, <1>4, PumpSighted, SightedTwice
<1> QED
  BY <1>1, <1>2, <1>5, SightedTwice

(* Or is acknowledged. *)
LEMMA SubmitAckedSighted ==
  ASSUME NEW s \in Awake, NEW ack
  PROVE  Sighted(s, SubmitAcked(s, ack))
<1> DEFINE u == Settled(s, "pump")
           r == [u EXCEPT !.status = "ready"]
           b == [u EXCEPT !.status = "blocked"]
           a == Append(u.jobs, [kind |-> "commit", key |-> s.pump.entry.key,
                                id |-> s.pump.entry.id, seq |-> ack.seq])
           w == [u EXCEPT !.pump = [phase |-> "committing"], !.jobs = a]
<1>1. u \in Awake /\ Sighted(s, u)
  BY SettledCalm, CalmlyAwake, QuietlySighted
<1>2. SubmitAcked(s, ack) \in {EndPump(u), EndPump(r), EndPump(b), w}
  BY DEF SubmitAcked
<1> HIDE DEF u, a
<1>3. r \in Awake /\ b \in Awake
  BY <1>1, StatusCalm, CalmlyAwake DEF Statuses
<1>4. Sighted(u, r) /\ Sighted(u, b)
  BY <1>1, QuietlySighted
<1>5. w.revised = u.revised /\ w.resync = u.resync
  BY <1>1 DEF Awake, JournalSet
<1> HIDE DEF r, b, w
<1>6. /\ Sighted(u, EndPump(u)) /\ Sighted(u, EndPump(r)) /\ Sighted(u, EndPump(b))
      /\ Sighted(u, w)
  BY <1>1, <1>3, <1>4, <1>5, PumpSighted, SightedIfSame, SightedTwice
<1> QED
  BY <1>1, <1>2, <1>6, SightedTwice

(* A mutation had nothing to write, or its write failed. *)
LEMMA SkippedSighted ==
  ASSUME NEW s \in Awake, NEW job
  PROVE  Sighted(s, Skipped(s, job)) \/ (job.kind = "settle" /\ s.online)
<1> DEFINE r == [s EXCEPT !.status = "ready"]
<1>1. r \in Awake /\ Sighted(s, r)
  BY StatusCalm, CalmlyAwake, QuietlySighted DEF Statuses
<1>2. CASE ~(job.kind = "settle" /\ s.online)
  <2>1. Skipped(s, job) \in {EndPump(s), EndPump(r), EndResync(s), s}
    BY <1>2 DEF Skipped
  <2> HIDE DEF r
  <2>2. Sighted(s, EndPump(s)) /\ Sighted(s, EndPump(r)) /\ Sighted(s, s)
    BY <1>1, PumpSighted, SightedIfSame, SightedTwice
  <2> QED
    BY <2>1, <2>2, EndResyncSighted
<1> QED
  BY <1>2

(* Or its write failed. *)
LEMMA FailedSighted ==
  ASSUME NEW s \in Awake, NEW job
  PROVE  Sighted(s, Failed(s, job))
<1> DEFINE v == ScheduleRetry(s)
<1>1. v \in Awake /\ Sighted(s, v)
  BY ScheduleRetryCalm, CalmlyAwake, QuietlySighted
<1>2. Failed(s, job) \in {EndPump(v), EndResync(v), s}
  BY DEF Failed
<1> HIDE DEF v
<1>3. Sighted(s, EndPump(v)) /\ Sighted(s, EndResync(v)) /\ Sighted(s, s)
  BY <1>1, PumpSighted, EndResyncSighted, SightedIfSame, SightedTwice
<1> QED
  BY <1>2, <1>3

(* A written mutation resumes. *)
LEMMA ResumedSighted ==
  ASSUME NEW s \in Awake, NEW job \in JobSet, job.kind # "settle"
  PROVE  Sighted(s, Resumed(s, job))
<1> DEFINE d == s.deferred \cup {s.snap.next - 1}
           e == s.deferred \ {job.key}
           b == s.blocked /\ s.snap.entries # <<>>
           v == IF b THEN "blocked" ELSE IF s.online THEN "ready" ELSE "offline"
           t == [s EXCEPT !.deferred = d]
           u == [s EXCEPT !.deferred = e, !.blocked = FALSE, !.status = v]
           r == [s EXCEPT !.status = "ready"]
           w == ScheduleRetry(s)
           p == Pump(r)
<1>1. e \in SUBSET Nat /\ v \in Statuses \ {"closed"}
  BY DEF Awake, JournalSet, Statuses
<1>2. /\ job.kind = "enqueue" => Resumed(s, job) \in {t, Pump(s)}
      /\ job.kind = "cancel" => Resumed(s, job) \in {u, Pump(u)}
      /\ job.kind = "mark" => Resumed(s, job) \in {Ask(s), EndPump(s)}
      /\ job.kind = "commit" => Resumed(s, job) = EndPump(r)
      /\ job.kind = "rebase" => Resumed(s, job) \in {EndResync(w), EndResync(p)}
  BY DEF Resumed, AfterRebase
<1>3. Sighted(s, Ask(s))
  <2> DEFINE c == [phase |-> "asked", aborted |-> FALSE,
                   entry |-> Head(s.snap.entries), base |-> s.snap.seq]
             k == [s EXCEPT !.status = "sending", !.active = "pump", !.pump = c]
  <2>1. Ask(s) = k
    BY DEF Ask
  <2> HIDE DEF c
  <2>2. k.revised = s.revised /\ k.resync = s.resync
    BY DEF Awake, JournalSet
  <2> QED
    BY <2>1, <2>2, SightedIfSame
<1> HIDE DEF d, e, b, v
<1>4. t.revised = s.revised /\ t.resync = s.resync
  BY DEF Awake, JournalSet
<1>5. u \in Awake /\ u.revised = s.revised /\ u.resync = s.resync
  BY <1>1 DEF Awake, JournalSet
<1>6. r \in Awake /\ Sighted(s, r) /\ w \in Awake /\ Sighted(s, w)
  BY StatusCalm, ScheduleRetryCalm, CalmlyAwake, QuietlySighted DEF Statuses
<1> HIDE DEF t, u, r, w
<1>7. Sighted(s, t) /\ Sighted(s, u) /\ p \in Awake /\ Sighted(s, p)
  BY <1>4, <1>5, <1>6, SightedIfSame, PumpSighted, SightedTwice, PumpCalm, CalmlyAwake
<1> HIDE DEF p
<1>8. /\ Sighted(s, Pump(s)) /\ Sighted(s, Pump(u)) /\ Sighted(s, EndPump(s))
      /\ Sighted(s, EndPump(r)) /\ Sighted(s, EndResync(w)) /\ Sighted(s, EndResync(p))
  BY <1>5, <1>6, <1>7, PumpSighted, EndResyncSighted, SightedTwice
<1>9. job.kind \in {"mark", "enqueue", "cancel", "commit", "rebase"}
  BY DEF JobSet
<1> QED
  BY <1>2, <1>3, <1>7, <1>8, <1>9

-----------------------------------------------------------------------------
(* What a step that leaves the file alone keeps. *)

(* The mutations that wait were waiting, but for those that matter not and one. *)
Joins(job) ==
  \A i \in 1..Len(jn'.jobs) :
    \/ jn'.jobs[i] = job
    \/ jn'.jobs[i].kind \in {"mark", "settle"}
    \/ \E j \in 1..Len(jn.jobs) : jn'.jobs[i] = jn.jobs[j]

(* Where nothing of note joins the queue, none does. *)
LEMMA JoinsIfCalm ==
  ASSUME jn \in Awake, NEW s, s.jobs \in Seq(JobSet), Calmly(s, jn'), NEW job,
         \A i \in 1..Len(s.jobs) : \E j \in 1..Len(jn.jobs) : s.jobs[i] = jn.jobs[j]
  PROVE  Joins(job)
<1>1. Grown(s.jobs, jn'.jobs) /\ jn'.jobs \in Seq(JobSet)
  BY DEF Calmly, JournalSet
<1>2. ASSUME NEW i \in 1..Len(jn'.jobs)
      PROVE  \/ jn'.jobs[i].kind \in {"mark", "settle"}
             \/ \E j \in 1..Len(jn.jobs) : jn'.jobs[i] = jn.jobs[j]
  <2>1. CASE i \in 1..Len(s.jobs)
    BY <1>1, <2>1 DEF Grown
  <2>2. CASE i \notin 1..Len(s.jobs)
    <3>1. i \in (Len(s.jobs) + 1)..Len(jn'.jobs)
      BY <1>1, <2>2
    <3> QED
      BY <1>1, <3>1 DEF Grown
  <2> QED
    BY <2>1, <2>2
<1> QED
  BY <1>2 DEF Joins

(* So it is of a calm step, *)
LEMMA JoinsIfQuiet ==
  ASSUME jn \in Awake, Calmly(jn, jn'), NEW job
  PROVE  Joins(job)
<1>1. jn.jobs \in Seq(JobSet)
  BY DEF Awake, JournalSet
<1> QED
  BY <1>1, JoinsIfCalm

(* and of a calm step after the first mutation is done. *)
LEMMA JoinsIfDone ==
  ASSUME jn \in Awake, jn.jobs # <<>>, NEW s \in Awake, s.jobs = Rest.jobs,
         Calmly(s, jn'), NEW job
  PROVE  Joins(job)
<1>1. /\ s.jobs = Tail(jn.jobs) /\ Len(jn.jobs) \in Nat
      /\ Len(Tail(jn.jobs)) = Len(jn.jobs) - 1
      /\ \A i \in 1..(Len(jn.jobs) - 1) : Tail(jn.jobs)[i] = jn.jobs[i + 1]
  BY RestJournal
<1>2. s.jobs \in Seq(JobSet)
  BY DEF Awake, JournalSet
<1>3. ASSUME NEW i \in 1..Len(s.jobs)
      PROVE  \E j \in 1..Len(jn.jobs) : s.jobs[i] = jn.jobs[j]
  <2>1. i + 1 \in 1..Len(jn.jobs) /\ s.jobs[i] = jn.jobs[i + 1]
    BY <1>1
  <2> QED
    BY <2>1
<1> QED
  BY <1>2, <1>3, JoinsIfCalm

(* One mutation joins a queue that is otherwise the same. *)
LEMMA JoinsIfAppended ==
  ASSUME jn.jobs \in Seq(JobSet), NEW job \in JobSet, jn'.jobs = Append(jn.jobs, job)
  PROVE  Joins(job)
<1> DEFINE a == Append(jn.jobs, job)
<1>1. /\ Len(a) = Len(jn.jobs) + 1 /\ a[Len(jn.jobs) + 1] = job
      /\ Len(jn.jobs) \in Nat
      /\ \A i \in 1..Len(jn.jobs) : a[i] = jn.jobs[i]
  OBVIOUS
<1> HIDE DEF a
<1>2. ASSUME NEW i \in 1..Len(a)
      PROVE  a[i] = job \/ \E j \in 1..Len(jn.jobs) : a[i] = jn.jobs[j]
  <2>1. i \in 1..Len(jn.jobs) \/ i = Len(jn.jobs) + 1
    BY <1>1
  <2> QED
    BY <1>1, <2>1
<1>3. jn'.jobs = a
  BY DEF a
<1> QED
  BY <1>2, <1>3 DEF Joins

(* What they bring is in the log. *)
LEMMA JobsAheadStays ==
  ASSUME Types, Types', LogGrows, JobsAhead, NEW job, Joins(job), JobAheadNext(job)
  PROVE  JobsAhead'
<1>1. Len(slog) \in Nat /\ Len(slog') \in Nat /\ Len(slog) <= Len(slog')
      /\ jn.jobs \in Seq(JobSet)
  BY DEF Types, LogGrows, JournalSet
<1>2. ASSUME NEW j \in 1..Len(jn.jobs)
      PROVE  JobAheadNext(jn.jobs[j])
  <2>1. JobAhead(jn.jobs[j])
    BY DEF JobsAhead
  <2>2. jn.jobs[j] \in JobSet
    BY <1>1
  <2>3. jn.jobs[j].kind = "rebase" => jn.jobs[j].seq \in Nat
    BY <2>2 DEF JobSet
  <2>4. jn.jobs[j].kind = "commit" => OwnAtNext(jn.jobs[j].seq)
    BY <2>1, OwnGrows DEF JobAhead
  <2> QED
    BY <1>1, <2>1, <2>3, <2>4 DEF JobAhead, JobAheadNext
<1>3. ASSUME NEW i \in 1..Len(jn'.jobs)
      PROVE  JobAheadNext(jn'.jobs[i])
  <2>1. jn'.jobs[i].kind \in {"mark", "settle"} => JobAheadNext(jn'.jobs[i])
    BY DEF JobAheadNext
  <2> QED
    BY <1>2, <2>1 DEF Joins
<1> QED
  BY <1>3 DEF JobsAhead, JobAhead, JobAheadNext, OwnAt, OwnAtNext

(* So is what an answer brings. *)
LEMMA CallAheadStays ==
  ASSUME Types, Types', LogGrows, CallAhead, SameCall(jn.pump, jn'.pump)
  PROVE  CallAhead'
<1>1. ASSUME jn'.pump.phase = "answered", jn'.pump.ack.seq # 0
      PROVE  OwnAtNext(jn'.pump.ack.seq)
  <2>1. jn.pump.phase = "answered" /\ jn'.pump.ack = jn.pump.ack
    BY <1>1 DEF SameCall
  <2> QED
    BY <1>1, <2>1, OwnGrows DEF CallAhead
<1> QED
  BY <1>1 DEF CallAhead, OwnAt, OwnAtNext

(* And the head a resync brings. *)
LEMMA HeadAheadStays ==
  ASSUME Types, Types', LogGrows, HeadAhead, SameSight(jn.resync, jn'.resync)
  PROVE  HeadAhead'
<1>1. Len(slog) \in Nat /\ Len(slog') \in Nat /\ Len(slog) <= Len(slog')
      /\ jn.resync \in ResyncSet
  BY DEF Types, LogGrows, JournalSet
<1>2. jn.resync.phase = "answered" => jn.resync.head \in Nat
  BY <1>1 DEF ResyncSet
<1> QED
  BY <1>1, <1>2 DEF HeadAhead, SameSight

(* What is written stays the same, until it resolves. *)
SameWrite == jn'.written => jn.written /\ Job' = Job /\ jn'.snap = jn.snap

(* Only the log moves, if anything does. *)
LEMMA SnapAheadStays ==
  ASSUME Types, Types', LogGrows, FileAhead, SnapAhead, File' = File, SameWrite
  PROVE  SnapAhead'
<1>1. File \in SnapSet /\ File.seq \in Nat /\ jn.snap.seq \in Nat
  BY FileIsSnap DEF SnapSet, Types, JournalSet
<1>2. ASSUME jn'.written, Job'.kind # "rebase"
      PROVE  ClearNext(jn.snap.seq, File.seq)
  <2>1. Clear(jn.snap.seq, File.seq)
    BY <1>2 DEF SnapAhead, SameWrite
  <2> QED
    BY <1>1, <2>1, ClearGrows DEF FileAhead
<1> QED
  BY <1>2 DEF SnapAhead, SameWrite, Clear, ClearNext

(* The resync still knows all there is to rebase. *)
LEMMA SeenStays ==
  ASSUME Seen, Coped' => Coped, File' = File, Sighted(jn, jn'),
         NEW job, Joins(job), job.kind # "enqueue",
         job.kind = "rebase" => /\ jn.resync.phase = "answered"
                                /\ job.keys = jn.resync.keys /\ job.seq = jn.resync.head
  PROVE  Seen'
<1> SUFFICES ASSUME Coped', ~jn'.revised
             PROVE  (ResyncSees /\ \A i \in 1..Len(jn.jobs) : JobSees(jn.jobs[i]))'
  BY DEF Seen
<1>1. /\ ResyncSees /\ \A j \in 1..Len(jn.jobs) : JobSees(jn.jobs[j])
      /\ SameSight(jn.resync, jn'.resync)
  BY DEF Seen, Sighted
<1>2. Entries' = Entries /\ Places' = Places
  BY DEF Entries, Places
<1>3. Lacks(jn.jobs, {"enqueue"}) => Lacks(jn'.jobs, {"enqueue"})
  BY DEF Joins, Lacks
<1>4. ASSUME NEW keys, Shows(keys)
      PROVE  /\ \A i \in Places' : Entries'[i].key \in keys
             /\ Lacks(jn'.jobs, {"enqueue"})
  BY <1>2, <1>3, <1>4 DEF Shows
<1>5. ResyncSees'
  BY <1>1, <1>4 DEF ResyncSees, SameSight, Shows
<1>6. ASSUME NEW i \in 1..Len(jn'.jobs), jn'.jobs[i].kind = "rebase"
      PROVE  /\ \A k \in Places' : Entries'[k].key \in jn'.jobs[i].keys
             /\ Lacks(jn'.jobs, {"enqueue"})
             /\ File.seq <= jn'.jobs[i].seq
  <2>1. CASE jn'.jobs[i] = job
    <3>1. Shows(job.keys) /\ File.seq <= job.seq
      BY <1>1, <1>6, <2>1 DEF ResyncSees
    <3> QED
      BY <1>4, <2>1, <3>1
  <2>2. CASE \E j \in 1..Len(jn.jobs) : jn'.jobs[i] = jn.jobs[j]
    <3>1. Shows(jn'.jobs[i].keys) /\ File.seq <= jn'.jobs[i].seq
      BY <1>1, <1>6, <2>2 DEF JobSees
    <3> QED
      BY <1>4, <3>1
  <2> QED
    BY <1>6, <2>1, <2>2 DEF Joins
<1> QED
  BY <1>5, <1>6 DEF JobSees, Shows

(* What may be replayed is expressed on the log the file knows. *)
LEMMA FileClearStays ==
  ASSUME Types, Types', LogGrows, FileAhead, FileClear, File' = File, Coped' => Coped,
         PaceStep, RebaseDone' => RebaseDone, NEW job, Joins(job),
         job.kind = "enqueue" /\ Coped' /\ (Replaying' \/ RebaseDone')
           => ClearNext(job.on, File.seq)
  PROVE  FileClear'
<1> SUFFICES ASSUME Coped', Replaying' \/ RebaseDone'
             PROVE  Expressed'
  BY DEF FileClear
<1>1. Expressed
  <2>1. Sure'
    BY DEF Coped, Sure
  <2>2. Replaying \/ RebaseDone
    BY <2>1 DEF PaceStep, Rebasing, RebaseDone, ResumeMutation
  <2> QED
    BY <2>2 DEF FileClear
<1>2. /\ Entries \in Seq(EntrySet) /\ File.seq \in Nat /\ File.seq <= Len(slog)
      /\ jn.jobs \in Seq(JobSet)
  BY FileIsSnap DEF FileAhead, SnapSet, Types, JournalSet
<1>3. Entries' = Entries /\ Places' = Places
  BY DEF Entries, Places
<1>4. ASSUME NEW i \in Places
      PROVE  ClearNext(Entries[i].on, File.seq)
  <2>1. Entries[i] \in EntrySet
    BY <1>2 DEF Places
  <2>2. Entries[i].on \in Nat
    BY <2>1 DEF EntrySet
  <2> QED
    BY <1>1, <1>2, <2>2, ClearGrows DEF Expressed
<1>5. ASSUME NEW j \in 1..Len(jn.jobs), jn.jobs[j].kind = "enqueue"
      PROVE  ClearNext(jn.jobs[j].on, File.seq)
  <2>1. jn.jobs[j] \in JobSet
    BY <1>2
  <2>2. jn.jobs[j].on \in Nat
    BY <1>5, <2>1 DEF JobSet
  <2> QED
    BY <1>1, <1>2, <1>5, <2>2, ClearGrows DEF Expressed
<1>6. ASSUME NEW i \in 1..Len(jn'.jobs), jn'.jobs[i].kind = "enqueue"
      PROVE  ClearNext(jn'.jobs[i].on, File.seq)
  BY <1>5, <1>6 DEF Joins
<1> QED
  BY <1>3, <1>4, <1>6 DEF Expressed, Clear, ClearNext

(* What is on its way is expressed on its base. *)
LEMMA WireClearStays ==
  ASSUME Types, Types', LogGrows, FileAhead, NEW f, WireKeyed(f), WireClear,
         Coped' => Coped, wire' \subseteq wire
  PROVE  WireClear'
<1>1. File.seq \in Nat /\ Len(slog) \in Nat
  BY FileIsSnap DEF SnapSet, Types
<1>2. ASSUME Coped', NEW r \in wire'
      PROVE  ClearNext(r.on, r.base)
  <2>1. Clear(r.on, r.base) /\ r \in RequestSet /\ r.base <= File.seq
    BY <1>2 DEF WireClear, WireKeyed, Types
  <2>2. r.on \in Nat /\ r.base \in Nat
    BY <2>1 DEF RequestSet
  <2> QED
    BY <1>1, <2>1, <2>2, ClearGrows DEF FileAhead
<1> QED
  BY <1>2 DEF WireClear, Clear, ClearNext

(* The log is the same. *)
LEMMA LogStays ==
  ASSUME Types, slog' = slog
  PROVE  LogGrows
BY DEF LogGrows, Types

(* A step that writes nothing, asks for nothing and learns nothing of the server. *)
Idly ==
  /\ Coped' => Coped
  /\ File' = File /\ slog' = slog /\ wire' \subseteq wire
  /\ SameWrite /\ SameCall(jn.pump, jn'.pump) /\ Sighted(jn, jn')

(* Such a step keeps the invariant. *)
LEMMA StillClear ==
  ASSUME PlainInv, NEW f, KeyedInv(f), PlainInv', ClearInv, PaceStep, Idly,
         NEW job, Joins(job), JobAhead(job), job.kind # "enqueue",
         job.kind = "rebase" => /\ jn.resync.phase = "answered"
                                /\ job.keys = jn.resync.keys /\ job.seq = jn.resync.head
  PROVE  ClearInv'
<1>1. /\ Types /\ Types' /\ WireKeyed(f)
      /\ FileAhead /\ JobsAhead /\ CallAhead /\ HeadAhead /\ SnapAhead
      /\ Seen /\ FileClear /\ WireClear /\ LogClear
  BY DEF PlainInv, KeyedInv, ClearInv, AheadInv
<1>2. /\ Coped' => Coped
      /\ File' = File /\ slog' = slog /\ wire' \subseteq wire
      /\ SameWrite /\ SameCall(jn.pump, jn'.pump)
      /\ Sighted(jn, jn') /\ SameSight(jn.resync, jn'.resync) /\ jn'.revised = jn.revised
  BY DEF Idly, Sighted
<1>3. LogGrows
  BY <1>1, <1>2, LogStays
<1>4. FileAhead'
  BY <1>1, <1>2 DEF FileAhead
<1>5. JobAheadNext(job)
  BY <1>2 DEF JobAhead, JobAheadNext, OwnAt, OwnAtNext
<1>6. JobsAhead' /\ CallAhead' /\ HeadAhead' /\ SnapAhead'
  BY <1>1, <1>2, <1>3, <1>5, JobsAheadStays, CallAheadStays, HeadAheadStays, SnapAheadStays
<1>7. Seen'
  BY <1>1, <1>2, SeenStays
<1>8. RebaseDone' => RebaseDone
  BY <1>2 DEF RebaseDone, SameWrite
<1>9. FileClear'
  BY <1>1, <1>2, <1>3, <1>8, FileClearStays
<1>10. WireClear'
  BY <1>1, <1>2, <1>3, WireClearStays
<1>11. LogClear'
  BY <1>1, <1>2 DEF LogClear, Rebased
<1> QED
  BY <1>4, <1>6, <1>7, <1>9, <1>10, <1>11 DEF ClearInv, AheadInv

-----------------------------------------------------------------------------
(* The host's calls, the timer, and answers that are lost. *)

(* A step that is calm. *)
LEMMA QuietClear ==
  ASSUME PlainInv, NEW f, KeyedInv(f), PlainInv', ClearInv, PaceStep,
         Quiet, Coped' => Coped, Sighted(jn, jn')
  PROVE  ClearInv'
<1>1. jn \in Awake /\ Calmly(jn, jn') /\ WrittenDone
  BY OpenJournal DEF Quiet, PlainInv
<1>2. SameTurn
  BY <1>1, SameTurnIfCalm
<1>3. Idly
  <2>1. SameWrite
    BY <1>1, <1>2 DEF SameTurn, SameWrite, Calmly
  <2>2. File' = File
    BY DEF Quiet, File
  <2> QED
    BY <1>1, <2>1, <2>2 DEF Idly, Quiet, Calmly
<1> DEFINE job == [kind |-> "mark"]
<1>4. job.kind = "mark"
  OBVIOUS
<1> HIDE DEF job
<1>5. Joins(job)
  BY <1>1, JoinsIfQuiet
<1>6. JobAhead(job)
  BY <1>4 DEF JobAhead
<1> QED
  BY <1>3, <1>4, <1>5, <1>6, StillClear

(* A mutation is done, and nothing else is new. *)
LEMMA DoneClear ==
  ASSUME PlainInv, NEW f, KeyedInv(f), PlainInv', ClearInv, PaceStep,
         jn \in Awake, jn.jobs # <<>>, NEW s \in Awake, s.jobs = Rest.jobs,
         s.pump = jn.pump, s.resync = jn.resync, s.revised = jn.revised, ~s.written,
         Calmly(s, jn'), Sighted(s, jn'), Coped' => Coped,
         disk' = disk, slog' = slog, wire' \subseteq wire
  PROVE  ClearInv'
<1>1. ~jn'.written /\ SameCall(jn.pump, jn'.pump)
  BY DEF Calmly
<1>2. Sighted(jn, jn')
  BY SightedIfSame, SightedTwice
<1>3. Idly
  BY <1>1, <1>2 DEF Idly, SameWrite, File
<1> DEFINE job == [kind |-> "mark"]
<1>4. job.kind = "mark"
  OBVIOUS
<1> HIDE DEF job
<1>5. Joins(job)
  BY JoinsIfDone
<1>6. JobAhead(job)
  BY <1>4 DEF JobAhead
<1> QED
  BY <1>3, <1>4, <1>5, <1>6, StillClear

(* What the calls do to the resync. *)
LEMMA ConnectSighted ==
  ASSUME jn \in Awake, Connect \/ RetryDue \/ Disconnect
  PROVE  Sighted(jn, jn')
<1>1. CASE Connect
  <2> DEFINE s == [jn EXCEPT !.online = TRUE, !.retry = FALSE]
             t == [s EXCEPT !.reconnecting = TRUE]
  <2>1. jn' \in {t, Resynchronize(s)}
    BY <1>1 DEF Connect
  <2>2. s \in Awake /\ s.revised = jn.revised /\ s.resync = jn.resync
    BY DEF Awake, JournalSet
  <2> HIDE DEF s
  <2>3. t.revised = s.revised /\ t.resync = s.resync
    BY <2>2 DEF Awake, JournalSet
  <2> HIDE DEF t
  <2>4. Sighted(jn, s) /\ Sighted(s, t) /\ Sighted(s, Resynchronize(s))
    BY <2>2, <2>3, SightedIfSame, ResynchronizeSighted
  <2> QED
    BY <2>1, <2>4, SightedTwice
<1>2. CASE RetryDue
  <2> DEFINE s == [jn EXCEPT !.retry = FALSE]
  <2>1. jn' = Resynchronize(s)
    BY <1>2 DEF RetryDue
  <2>2. s \in Awake /\ s.revised = jn.revised /\ s.resync = jn.resync
    BY DEF Awake, JournalSet
  <2> HIDE DEF s
  <2>3. Sighted(jn, s) /\ Sighted(s, Resynchronize(s))
    BY <2>2, SightedIfSame, ResynchronizeSighted
  <2> QED
    BY <2>1, <2>3, SightedTwice
<1>3. CASE Disconnect
  <2> DEFINE s == Abort(jn)
             t == [s EXCEPT !.online = FALSE, !.active = "none", !.retry = FALSE,
                            !.status = "offline"]
  <2>1. jn' = t
    BY <1>3 DEF Disconnect
  <2>2. s \in Awake /\ Sighted(jn, s)
    BY AbortCalm, CalmlyAwake, AbortSighted
  <2> HIDE DEF s
  <2>3. t.revised = s.revised /\ t.resync = s.resync
    BY <2>2 DEF Awake, JournalSet
  <2> QED
    BY <2>1, <2>2, <2>3, SightedIfSame, SightedTwice
<1> QED
  BY <1>1, <1>2, <1>3

(* A resync that is refused or lost ends. *)
LEMMA ResyncEndsSighted ==
  ASSUME jn \in Awake, ResyncRefuses \/ ResyncLost
  PROVE  Sighted(jn, jn')
<1> DEFINE s == Settled(jn, "resync")
           b == [s EXCEPT !.status = "blocked"]
           v == ScheduleRetry(s)
<1>1. s \in Awake /\ Sighted(jn, s)
  BY SettledCalm, CalmlyAwake, QuietlySighted
<1>2. jn' \in {EndResync(b), EndResync(v), EndResync(s)}
  BY DEF ResyncRefuses, ResyncLost
<1> HIDE DEF s
<1>3. b \in Awake /\ Sighted(s, b) /\ v \in Awake /\ Sighted(s, v)
  BY <1>1, StatusCalm, ScheduleRetryCalm, CalmlyAwake, QuietlySighted DEF Statuses
<1> HIDE DEF b, v
<1>4. Sighted(s, EndResync(b)) /\ Sighted(s, EndResync(v)) /\ Sighted(s, EndResync(s))
  BY <1>1, <1>3, EndResyncSighted, SightedTwice
<1> QED
  BY <1>1, <1>2, <1>4, SightedTwice

(* The pump may begin. *)
LEMMA ReleaseSighted ==
  ASSUME jn \in Awake, NEW key, Release(key)
  PROVE  Sighted(jn, jn')
<1> DEFINE d == jn.deferred \ {key}
           t == [jn EXCEPT !.deferred = d]
<1>1. d \in SUBSET Nat
  BY DEF Awake, JournalSet
<1>2. jn' = Pump(t)
  BY DEF Release
<1> HIDE DEF d
<1>3. t \in Awake /\ t.revised = jn.revised /\ t.resync = jn.resync
  BY <1>1 DEF Awake, JournalSet
<1> HIDE DEF t
<1> QED
  BY <1>2, <1>3, PumpSighted, SightedIfSame, SightedTwice

(* They keep what is expressed. *)
LEMMA HostClear ==
  ASSUME PlainInv, Closed, NEW f, KeyedInv(f), PlainInv', ClearInv, PaceStep,
         \/ Connect \/ RetryDue \/ Disconnect \/ SubmitLost \/ ResyncRefuses \/ ResyncLost
         \/ \E key \in jn.deferred : Release(key)
  PROVE  ClearInv'
<1>1. Quiet
  BY ConnectQuiet, RetryDueQuiet, DisconnectQuiet, SubmitLostQuiet, ResyncRefusesQuiet,
     ResyncLostQuiet, ReleaseQuiet
<1>2. jn \in Awake
  BY <1>1, OpenJournal DEF Quiet
<1>3. Coped' => Coped
  BY DEF Connect, RetryDue, Disconnect, SubmitLost, ResyncRefuses, ResyncLost, Release,
         Noted, Coped
<1>4. Sighted(jn, jn')
  <2>1. SubmitLost => Sighted(jn, jn')
    BY <1>2, SubmitFailedSighted DEF SubmitLost
  <2> QED
    BY <1>2, <2>1, ConnectSighted, ResyncEndsSighted, ReleaseSighted
<1> QED
  BY <1>1, <1>3, <1>4, QuietClear

(* The process stops, or starts again. *)
LEMMA RestartClear ==
  ASSUME PlainInv, Closed, NEW f, KeyedInv(f), PlainInv', ClearInv, PaceStep, Open \/ Stop
  PROVE  ClearInv'
<1>1. /\ jn'.jobs = <<>> /\ jn'.written = FALSE /\ jn'.pump = Idle /\ jn'.resync = Idle
  <2>1. CASE Stop
    BY <2>1 DEF Stop, Unopened
  <2>2. CASE Open
    <3>1. /\ jn'.jobs = Unopened.jobs /\ jn'.written = Unopened.written
          /\ jn'.pump = Unopened.pump /\ jn'.resync = Unopened.resync
      BY <2>2, UnopenedIsJournal DEF Open, JournalSet
    <3> QED
      BY <3>1 DEF Unopened
  <2> QED
    BY <2>1, <2>2
<1>2. /\ Coped' = Coped /\ File' = File /\ slog' = slog /\ wire' = wire
  <2>1. CASE Stop
    BY <2>1 DEF Stop, File, Coped
  <2>2. CASE Open
    <3>1. disk' = File /\ slog' = slog /\ wire' = wire /\ mishaps' = mishaps
      BY <2>2 DEF Open
    <3>2. File \in SnapSet
      BY FileIsSnap DEF PlainInv
    <3> QED
      BY <3>1, <3>2, NothingIsNoFile DEF File, Coped
  <2> QED
    BY <2>1, <2>2
<1>3. 1..Len(jn'.jobs) = {}
  BY <1>1
<1>4. /\ jn'.pump.phase = "idle" /\ jn'.resync.phase = "idle"
  BY <1>1 DEF Idle
<1>5. /\ Types /\ Types' /\ WireKeyed(f)
      /\ FileAhead /\ FileClear /\ WireClear /\ LogClear
  BY DEF PlainInv, KeyedInv, ClearInv, AheadInv
<1>6. FileAhead'
  BY <1>2, <1>5 DEF FileAhead
<1>7. JobsAhead'
  BY <1>3, Zenon DEF JobsAhead
<1>8. CallAhead' /\ HeadAhead' /\ SnapAhead'
  BY <1>1, <1>4 DEF CallAhead, HeadAhead, SnapAhead
<1>9. Seen'
  <2>1. ResyncSees'
    BY <1>4 DEF ResyncSees
  <2> QED
    BY <1>3, <2>1, Zenon DEF Seen
<1>10. FileClear'
  <2>1. ~RebaseDone'
    BY <1>1 DEF RebaseDone
  <2>2. ~Replaying'
    <3>1. jn'.status \in {"closed", "offline"}
      <4>1. CASE Stop
        BY <4>1 DEF Stop, Unopened
      <4>2. CASE Open
        BY <4>2, UnopenedIsJournal DEF Open, JournalSet
      <4> QED
        BY <4>1, <4>2
    <3> QED
      BY <1>1, <1>4, <3>1 DEF Replaying, Replays, Live, Marked
  <2> QED
    BY <2>1, <2>2 DEF FileClear
<1>11. WireClear' /\ LogClear'
  BY <1>2, <1>5 DEF WireClear, LogClear, Rebased, Clear
<1> QED
  BY <1>6, <1>7, <1>8, <1>9, <1>10, <1>11 DEF ClearInv, AheadInv

(* enqueue(): a resync under way will have to go round again. *)
LEMMA EnqueueClear ==
  ASSUME PlainInv, NEW f, KeyedInv(f), PlainInv', ClearInv, PaceInv, PaceStep,
         NEW defer \in BOOLEAN, Enqueue(defer)
  PROVE  ClearInv'
<1> DEFINE job == [kind |-> "enqueue", id |-> Len(fate) + 1, on |-> jn.snap.seq,
                   defer |-> defer]
           a == Append(jn.jobs, job)
<1>1. IsOpen /\ jn \in Awake /\ fate \in Seq(Fates) /\ WrittenDone
  BY OpenJournal DEF Enqueue, PlainInv, Types
<1>2. /\ job \in JobSet /\ job.kind = "enqueue" /\ job.on = jn.snap.seq
      /\ jn.jobs \in Seq(JobSet)
  BY <1>1 DEF Awake, JournalSet, SnapSet, JobSet
<1>3. /\ jn' = [jn EXCEPT !.revised = TRUE, !.jobs = a]
      /\ disk' = disk /\ slog' = slog /\ wire' = wire /\ mishaps' = mishaps
  BY DEF Enqueue
<1> HIDE DEF job
<1>4. a \in Seq(JobSet) /\ Len(jn.jobs) <= Len(a) /\ \A i \in 1..Len(jn.jobs) : a[i] = jn.jobs[i]
  BY <1>2
<1>5. Joins(job)
  <2> HIDE DEF a
  <2>1. jn'.jobs = a
    BY <1>1, <1>3 DEF Awake, JournalSet
  <2> QED
    BY <1>2, <2>1, JoinsIfAppended DEF a
<1> HIDE DEF a
<1>6. /\ jn'.jobs = a /\ jn'.revised = TRUE /\ jn'.written = jn.written
      /\ jn'.snap = jn.snap /\ jn'.pump = jn.pump /\ jn'.resync = jn.resync
  BY <1>1, <1>3 DEF Awake, JournalSet
<1>7. /\ Types /\ Types' /\ WireKeyed(f) /\ MemoryKeyed(f) /\ LogGrows
      /\ FileAhead /\ JobsAhead /\ CallAhead /\ HeadAhead /\ SnapAhead
      /\ Seen /\ FileClear /\ WireClear /\ LogClear
  BY <1>3, LogStays DEF PlainInv, KeyedInv, ClearInv, AheadInv
<1>8. (Coped' <=> Coped) /\ File' = File
  BY <1>3 DEF Coped, File
<1>9. SameWrite
  <2>1. SameTurn
    BY <1>1, <1>4, <1>2, <1>6, SameTurnIfGrown
  <2> QED
    BY <1>6, <2>1 DEF SameWrite, SameTurn
<1>10. FileAhead'
  BY <1>3, <1>7, <1>8 DEF FileAhead
<1>11. JobAheadNext(job)
  BY <1>2 DEF JobAheadNext
<1>12. SameCall(jn.pump, jn'.pump) /\ SameSight(jn.resync, jn'.resync)
  BY <1>6 DEF SameCall, SameSight
<1>13. JobsAhead' /\ CallAhead' /\ HeadAhead' /\ SnapAhead'
  BY <1>5, <1>7, <1>8, <1>9, <1>11, <1>12, JobsAheadStays, CallAheadStays, HeadAheadStays,
     SnapAheadStays
<1>14. Seen'
  BY <1>6 DEF Seen
<1>15. ~RebaseDone'
  BY <1>6 DEF RebaseDone
<1>16. ASSUME Coped', Replaying' \/ RebaseDone'
       PROVE  ClearNext(job.on, File.seq)
  <2>1. Sure' /\ Sure /\ Replaying'
    BY <1>8, <1>15, <1>16 DEF Coped, Sure
  <2>2. ~ResumeMutation
    <3>1. budget["edits"] \in Nat /\ budget \in [BoundNames -> Nat]
      BY DEF PlainInv, WithinBounds, BoundNames
    <3>2. budget'["edits"] = budget["edits"] - 1
      BY <3>1 DEF Enqueue, Spend, BoundNames
    <3>3. budget' # budget
      BY <3>1, <3>2
    <3> QED
      BY <3>3 DEF ResumeMutation
  <2>3. Replaying
    BY <2>1, <2>2 DEF PaceStep, Rebasing
  <2>4. Clear(jn.snap.seq, File.seq)
    <3>1. CASE ~jn.written
      <4>1. File = jn.snap /\ File.seq \in Nat
        BY <1>1, <1>7, <3>1, FileIsSnap DEF MemoryKeyed, File, SnapSet
      <4> QED
        BY <4>1, ClearNone
    <3>2. CASE jn.written /\ Job.kind # "rebase"
      BY <1>7, <3>2 DEF SnapAhead
    <3>3. CASE jn.written /\ Job.kind = "rebase"
      <4>1. jn.resync.phase = "committing"
        <5>1. jn.jobs # <<>> /\ TurnsIn(jn)
          BY <1>1, <3>3 DEF WrittenDone, PaceInv
        <5> QED
          BY <1>1, <3>3, <5>1, RestPaced DEF Fits
      <4>2. ~Replays(jn) /\ ~Marked
        BY <2>1, <4>1, NothingReplays
      <4> QED
        BY <2>3, <4>2 DEF Replaying
    <3> QED
      BY <3>1, <3>2, <3>3
  <2> QED
    BY <1>2, <1>3, <2>4 DEF Clear, ClearNext
<1>17. FileClear'
  BY <1>5, <1>7, <1>8, <1>15, <1>16, FileClearStays
<1>18. WireClear'
  BY <1>3, <1>7, <1>8, WireClearStays
<1>19. LogClear'
  BY <1>3, <1>7, <1>8 DEF LogClear, Rebased
<1> QED
  BY <1>10, <1>13, <1>14, <1>17, <1>18, <1>19 DEF ClearInv, AheadInv

(* cancel(). *)
LEMMA CancelClear ==
  ASSUME PlainInv, Closed, NEW f, KeyedInv(f), PlainInv', ClearInv, PaceStep,
         NEW key \in KeysOf(jn.snap), Cancel(key)
  PROVE  ClearInv'
<1> DEFINE s == IF HeadKey(jn) = key THEN Abort(jn) ELSE jn
           job == [kind |-> "cancel", key |-> key, id |-> IdOf(jn.snap, key)]
           a == Append(s.jobs, job)
<1>1. IsOpen
  <2>1. CASE ~IsOpen
    <3>1. jn.snap.entries = <<>>
      BY <2>1 DEF Closed, Unopened, Empty
    <3>2. 1..Len(jn.snap.entries) = {}
      BY <3>1
    <3> QED
      BY <3>2, Zenon DEF KeysOf
  <2> QED
    BY <2>1
<1>2. jn \in Awake /\ WrittenDone
  BY <1>1, OpenJournal DEF PlainInv
<1>3. PICK i \in 1..Len(jn.snap.entries) : jn.snap.entries[i].key = key
  BY DEF KeysOf
<1>4. /\ PlaceOf(jn.snap, key) \in 1..Len(jn.snap.entries)
      /\ jn.snap.entries[PlaceOf(jn.snap, key)].key = key
  BY <1>3 DEF PlaceOf
<1>5. jn.snap.entries[PlaceOf(jn.snap, key)] \in EntrySet
  BY <1>2, <1>4 DEF Awake, JournalSet, SnapSet
<1>6. job \in JobSet /\ job.kind = "cancel"
  BY <1>4, <1>5 DEF JobSet, EntrySet, IdOf
<1>7. /\ jn' = [s EXCEPT !.jobs = a]
      /\ disk' = disk /\ slog' = slog /\ wire' = wire /\ (Coped' => Coped)
  BY DEF Cancel, Coped
<1>8. /\ s \in Awake /\ s.snap = jn.snap /\ s.written = jn.written /\ s.jobs = jn.jobs
      /\ SameCall(jn.pump, s.pump) /\ Sighted(jn, s)
  <2>1. Calmly(jn, Abort(jn)) /\ Sighted(jn, Abort(jn)) /\ Abort(jn).jobs = jn.jobs
    BY <1>2, AbortCalm, AbortSighted, AbortPaced
  <2>2. Calmly(jn, jn) /\ Sighted(jn, jn)
    BY <1>2, CalmlyIfSame, SightedIfSame
  <2> QED
    BY <2>1, <2>2, CalmlyAwake DEF Calmly
<1> HIDE DEF s, job
<1>9. /\ jn.jobs \in Seq(JobSet) /\ a = Append(jn.jobs, job) /\ a \in Seq(JobSet)
      /\ Len(jn.jobs) <= Len(a) /\ \A j \in 1..Len(jn.jobs) : a[j] = jn.jobs[j]
  BY <1>2, <1>6, <1>8 DEF Awake, JournalSet
<1> HIDE DEF a
<1>10. /\ jn'.jobs = a /\ jn'.written = s.written /\ jn'.snap = s.snap /\ jn'.pump = s.pump
       /\ jn'.revised = s.revised /\ jn'.resync = s.resync
  BY <1>7, <1>8 DEF Awake, JournalSet
<1>11. SameTurn
  BY <1>2, <1>8, <1>9, <1>10, SameTurnIfGrown
<1>12. Idly
  <2>1. SameWrite
    BY <1>8, <1>10, <1>11 DEF SameWrite, SameTurn
  <2>2. Sighted(jn, jn')
    BY <1>8, <1>10, SightedIfSame, SightedTwice
  <2> QED
    BY <1>7, <1>8, <1>10, <2>1, <2>2 DEF Idly, File
<1>13. Joins(job)
  BY <1>6, <1>9, <1>10, JoinsIfAppended
<1>14. JobAhead(job)
  BY <1>6 DEF JobAhead
<1> QED
  BY <1>6, <1>12, <1>13, <1>14, StillClear

-----------------------------------------------------------------------------
(* The mutation whose turn it is. *)

(* It has nothing to write: a resync that starts sees all the file holds. *)
LEMMA SkipMutationClear ==
  ASSUME PlainInv, Closed, NEW f, KeyedInv(f), PlainInv', ClearInv, PaceInv, PaceStep,
         SkipMutation
  PROVE  ClearInv'
<1>1. /\ jn.jobs # <<>> /\ ~jn.written /\ jn' = Skipped(Rest, Job)
      /\ disk' = disk /\ slog' = slog /\ wire' = wire /\ (Coped' => Coped)
  BY DEF SkipMutation, Coped
<1>2. IsOpen /\ jn \in Awake /\ TurnsIn(jn)
  BY <1>1, OpenIfBusy, OpenJournal DEF PaceInv
<1> DEFINE s == Rest
<1>3. /\ s \in Awake /\ s.snap = jn.snap /\ s.pump = jn.pump /\ s.resync = jn.resync
      /\ s.revised = jn.revised /\ ~s.written /\ s.jobs = Rest.jobs
      /\ Job.kind \in ResyncJobs => Lacks(s.jobs, ResyncJobs)
  BY <1>1, <1>2, RestPaced, RestJournal
<1>4. Calmly(s, jn')
  BY <1>1, <1>3, SkippedCalm
<1>5. CASE Sighted(s, jn')
  <2> HIDE DEF s
  <2> QED
    BY <1>1, <1>2, <1>3, <1>4, <1>5, DoneClear
<1>6. CASE ~Sighted(s, jn')
  <2>1. Job.kind = "settle" /\ s.online
    BY <1>1, <1>3, <1>6, SkippedSighted
  <2> DEFINE keys == KeysOf(s.snap)
             c == [phase |-> "asked", aborted |-> FALSE, keys |-> keys]
             t == [s EXCEPT !.active = "resync", !.revised = FALSE, !.resync = c]
             job == [kind |-> "mark"]
  <2>2. jn' = t
    BY <1>1, <2>1 DEF Skipped
  <2>3. Coped' => ~\E i \in 1..Len(s.jobs) : s.jobs[i].kind = "enqueue"
    BY <2>1 DEF SkipMutation, Coped
  <2>4. c.phase = "asked" /\ c.keys = keys /\ job.kind = "mark"
    OBVIOUS
  <2>5. Joins(job)
    BY <1>2, <1>1, <1>3, <1>4, JoinsIfDone
  <2> HIDE DEF s, c, job
  <2>6. /\ jn'.jobs = s.jobs /\ jn'.written = s.written /\ jn'.pump = s.pump /\ jn'.resync = c
        /\ jn'.snap = s.snap
    BY <1>3, <2>2 DEF Awake, JournalSet
  <2>7. /\ Types /\ Types' /\ WireKeyed(f) /\ MemoryKeyed(f) /\ LogGrows
        /\ FileAhead /\ JobsAhead /\ CallAhead /\ HeadAhead /\ SnapAhead
        /\ Seen /\ FileClear /\ WireClear /\ LogClear
    BY <1>1, LogStays DEF PlainInv, KeyedInv, ClearInv, AheadInv
  <2>8. File' = File /\ File = s.snap
    BY <1>1, <1>2, <1>3, <2>7, FileIsSnap DEF File, MemoryKeyed
  <2>9. FileAhead'
    BY <1>1, <2>7, <2>8 DEF FileAhead
  <2>10. JobAheadNext(job)
    BY <2>4 DEF JobAheadNext
  <2>11. SameCall(jn.pump, jn'.pump) /\ SameWrite /\ ~RebaseDone'
    BY <1>3, <2>6 DEF SameCall, SameWrite, RebaseDone
  <2>12. HeadAhead'
    BY <2>4, <2>6 DEF HeadAhead
  <2>13. JobsAhead' /\ CallAhead' /\ SnapAhead'
    BY <2>5, <2>7, <2>8, <2>10, <2>11, JobsAheadStays, CallAheadStays, SnapAheadStays
  <2>14. Seen'
    <3>1. Lacks(jn'.jobs, ResyncJobs)
      BY <1>3, <2>1, <2>6 DEF ResyncJobs
    <3>2. \A i \in 1..Len(jn'.jobs) : jn'.jobs[i].kind # "rebase"
      BY <3>1 DEF Lacks, ResyncJobs
    <3>3. ASSUME Coped'
          PROVE  Lacks(jn'.jobs, {"enqueue"})
      BY <2>3, <2>6, <3>3 DEF Lacks
    <3>4. \A i \in Places' : Entries'[i].key \in keys
      BY <2>8 DEF KeysOf, Places, Entries
    <3>5. Coped' => ResyncSees'
      BY <2>4, <2>6, <3>3, <3>4 DEF ResyncSees, Shows
    <3> QED
      BY <3>2, <3>5 DEF Seen, JobSees
  <2>15. FileClear'
    BY <1>1, <2>4, <2>5, <2>7, <2>8, <2>11, FileClearStays
  <2>16. WireClear'
    BY <1>1, <2>7, WireClearStays
  <2>17. LogClear'
    BY <1>1, <2>7 DEF LogClear, Rebased
  <2> QED
    BY <2>9, <2>12, <2>13, <2>14, <2>15, <2>16, <2>17 DEF ClearInv, AheadInv
<1> QED
  BY <1>5, <1>6

(* Its write failed. *)
LEMMA FailToWriteClear ==
  ASSUME PlainInv, Closed, NEW f, KeyedInv(f), PlainInv', ClearInv, PaceInv, PaceStep,
         FailToWrite
  PROVE  ClearInv'
<1>1. /\ jn.jobs # <<>> /\ jn' = Failed(Rest, Job)
      /\ disk' = disk /\ slog' = slog /\ wire' = wire /\ (Coped' => Coped)
  BY DEF FailToWrite, Coped
<1>2. IsOpen /\ jn \in Awake /\ TurnsIn(jn)
  BY <1>1, OpenIfBusy, OpenJournal DEF PaceInv
<1> DEFINE s == Rest
<1>3. /\ s \in Awake /\ s.pump = jn.pump /\ s.resync = jn.resync
      /\ s.revised = jn.revised /\ ~s.written /\ s.jobs = Rest.jobs
  BY <1>1, <1>2, RestPaced
<1>4. Calmly(s, jn') /\ Sighted(s, jn')
  BY <1>1, <1>3, FailedCalm, FailedSighted
<1> HIDE DEF s
<1> QED
  BY <1>1, <1>2, <1>3, <1>4, DoneClear

(* Its write resolves: what is sent is expressed on the log that the file knows. *)
LEMMA ResumeMutationClear ==
  ASSUME PlainInv, Closed, NEW f, KeyedInv(f), PlainInv', ClearInv, PaceInv, PaceStep,
         ResumeMutation
  PROVE  ClearInv'
<1> DEFINE s == [Rest EXCEPT !.snap = disk]
<1>1. /\ jn.jobs # <<>> /\ jn.written /\ jn' = Resumed(s, Job)
      /\ disk' = disk /\ slog' = slog /\ (Coped' => Coped)
      /\ wire' = IF jn'.pump.phase = "asked" /\ jn.pump.phase # "asked"
                 THEN wire \cup {Request(jn'.pump)} ELSE wire
  BY DEF ResumeMutation, Noted, Coped
<1>2. IsOpen /\ jn \in Awake /\ TurnsIn(jn) /\ WrittenDone
  BY <1>1, OpenIfBusy, OpenJournal DEF PaceInv, PlainInv
<1>3. /\ Types /\ Types' /\ WireKeyed(f) /\ MemoryKeyed(f) /\ LogGrows
      /\ FileAhead /\ JobsAhead /\ CallAhead /\ HeadAhead /\ SnapAhead
      /\ Seen /\ FileClear /\ WireClear /\ LogClear
  BY <1>1, LogStays DEF PlainInv, KeyedInv, ClearInv, AheadInv
<1>4. disk \in SnapSet /\ File = disk /\ Entries = disk.entries /\ File' = File
  BY <1>1, <1>2, <1>3 DEF Types, MemoryKeyed, File, Entries
<1>5. /\ Rest \in Awake /\ Rest.pump = jn.pump /\ Rest.resync = jn.resync
      /\ Rest.revised = jn.revised /\ ~Rest.written /\ Job \in JobSet
  BY <1>1, <1>2, RestPaced
<1>6. /\ s \in Awake /\ s.snap = disk /\ ~s.written /\ s.pump = jn.pump
      /\ s.resync = jn.resync /\ s.revised = jn.revised /\ s.jobs = Rest.jobs
  BY <1>4, <1>5 DEF Awake, JournalSet
<1> HIDE DEF s
<1>7. Job.kind # "settle"
  BY <1>1, <1>2 DEF WrittenDone
<1>8. Sighted(s, jn')
  BY <1>1, <1>5, <1>6, <1>7, ResumedSighted
<1>9. \/ Calmly(s, jn')
      \/ Job.kind = "mark" /\ jn' = Ask(s)
  BY <1>1, <1>5, <1>6, <1>7, ResumedSteps
<1>10. CASE Calmly(s, jn')
  <2>1. wire' = wire
    BY <1>1, <1>6, <1>10 DEF Calmly, SameCall
  <2> QED
    BY <1>1, <1>2, <1>6, <1>8, <1>10, <2>1, DoneClear
<1>11. CASE Job.kind = "mark" /\ jn' = Ask(s)
  <2> DEFINE job == [kind |-> "mark"]
  <2>1. Entries # <<>> /\ s.snap.entries # <<>>
    BY <1>1, <1>2, <1>4, <1>6, <1>11 DEF WrittenDone
  <2>2. /\ jn' \in Awake /\ jn'.written = s.written /\ jn'.jobs = s.jobs
        /\ jn'.pump.phase = "asked" /\ jn'.pump.entry = Entries[1]
        /\ jn'.pump.base = File.seq
    BY <1>4, <1>6, <1>11, <2>1, AskSteps
  <2>3. job.kind = "mark"
    OBVIOUS
  <2> HIDE DEF job
  <2>4. Joins(job)
    <3>1. /\ s.jobs = Tail(jn.jobs) /\ Len(jn.jobs) \in Nat
          /\ Len(Tail(jn.jobs)) = Len(jn.jobs) - 1
          /\ \A i \in 1..(Len(jn.jobs) - 1) : Tail(jn.jobs)[i] = jn.jobs[i + 1]
      BY <1>1, <1>2, <1>6, RestJournal
    <3>2. ASSUME NEW i \in 1..Len(jn'.jobs)
          PROVE  \E j \in 1..Len(jn.jobs) : jn'.jobs[i] = jn.jobs[j]
      <4>1. i + 1 \in 1..Len(jn.jobs) /\ jn'.jobs[i] = jn.jobs[i + 1]
        BY <2>2, <3>1
      <4> QED
        BY <4>1
    <3> QED
      BY <3>2 DEF Joins
  <2>5. Sighted(jn, jn')
    BY <1>6, <1>8, SightedIfSame, SightedTwice
  <2>6. FileAhead'
    BY <1>1, <1>3, <1>4 DEF FileAhead
  <2>7. JobAheadNext(job)
    BY <2>3 DEF JobAheadNext
  <2>8. SameWrite /\ ~RebaseDone' /\ SameSight(jn.resync, jn'.resync)
    BY <1>6, <2>2, <2>5 DEF SameWrite, RebaseDone, Sighted
  <2>9. CallAhead'
    BY <2>2 DEF CallAhead
  <2>10. JobsAhead' /\ HeadAhead' /\ SnapAhead'
    BY <1>3, <1>4, <2>4, <2>7, <2>8, JobsAheadStays, HeadAheadStays, SnapAheadStays
  <2>11. Seen'
    BY <1>1, <1>3, <1>4, <2>3, <2>4, <2>5, SeenStays
  <2>12. FileClear'
    BY <1>1, <1>3, <1>4, <2>3, <2>4, <2>8, FileClearStays
  <2>13. LogClear'
    BY <1>1, <1>3 DEF LogClear, Rebased
  <2>14. WireClear'
    <3>1. Coped => Clear(Entries[1].on, File.seq)
      <4>1. Entries \in Seq(EntrySet)
        BY <1>3, FileIsSnap
      <4>2. 1 \in Places
        BY <2>1, <4>1 DEF Places
      <4>3. Replaying
        BY <1>1, <1>11 DEF Replaying, Marked
      <4> QED
        BY <1>3, <4>2, <4>3 DEF FileClear, Expressed
    <3>2. Request(jn'.pump).on = Entries[1].on /\ Request(jn'.pump).base = File.seq
      BY <2>2 DEF Request
    <3>3. ASSUME NEW r \in wire'
          PROVE  r \in wire \/ r = Request(jn'.pump)
      BY <1>1, <3>3
    <3>4. ASSUME Coped', NEW r \in wire'
          PROVE  Clear(r.on, r.base)
      <4>1. CASE r \in wire
        BY <1>1, <1>3, <3>4, <4>1 DEF WireClear
      <4>2. CASE r = Request(jn'.pump)
        BY <1>1, <3>1, <3>2, <3>4, <4>2
      <4> QED
        BY <3>3, <4>1, <4>2
    <3> QED
      BY <1>1, <3>4 DEF WireClear, Clear
  <2> QED
    BY <2>6, <2>9, <2>10, <2>11, <2>12, <2>13, <2>14 DEF ClearInv, AheadInv
<1> QED
  BY <1>9, <1>10, <1>11

(* What the file holds after a write: entries it held, those that are rebased
   and one that joins. *)
WrittenFile ==
  /\ File.seq <= File'.seq /\ File'.seq \in Nat
  /\ Job.kind \notin {"commit", "rebase"} => File'.seq = File.seq
  /\ Job.kind \in {"commit", "rebase"} => File'.seq = Later(File.seq, Job.seq)
  /\ \A i \in Places' :
       \/ /\ Job.kind = "enqueue" /\ Entries'[i].on = Job.on
       \/ \E j \in Places :
            /\ Entries'[i].key = Entries[j].key
            /\ Entries'[i].on = IF Job.kind = "rebase" /\ Entries[j].key \in Job.keys
                                THEN Job.seq ELSE Entries[j].on

(* That is what every mutation writes. *)
LEMMA WritesFile ==
  ASSUME PlainInv, NEW f \in Names, KeyedInv(f), WriteMutation
  PROVE  WrittenFile
<1>1. /\ File \in SnapSet /\ Entries \in Seq(EntrySet) /\ Len(Entries) \in Nat
      /\ Places = 1..Len(Entries) /\ Job \in JobSet /\ Applies(jn, Job)
      /\ disk' = Writes(File, Job)
  BY WriteSteps
<1>2. File.seq \in Nat /\ Job.kind \in {"mark", "enqueue", "cancel", "commit", "rebase"}
  BY <1>1 DEF JobSet, SnapSet, Applies
<1>3. Types'
  BY WriteMutationKeeps DEF PlainInv
<1>4. disk' # Nothing /\ File' = disk' /\ Entries' = disk'.entries /\ Places' = 1..Len(Entries')
  <2>1. disk' # Nothing
    <3>1. IsOpen'
      BY WriteSteps DEF Awake, IsOpen
    <3>2. \E g \in Names : KeyedInv(g)'
      BY WriteMutationKeeps
    <3> QED
      BY <3>1, <3>2 DEF KeyedInv, MemoryKeyed
  <2> QED
    BY <2>1 DEF File, Entries, Places
<1>5. CASE Job.kind = "mark"
  <2>1. disk' = File
    BY <1>1, <1>5 DEF Writes, Mark
  <2> QED
    BY <1>2, <1>4, <1>5, <2>1 DEF WrittenFile, Entries, Places
<1>6. CASE Job.kind = "enqueue"
  <2> DEFINE e == [key |-> File.next, id |-> Job.id, on |-> Job.on]
             a == Append(Entries, e)
             n == File.next + 1
  <2>1. Entries' = a /\ e.on = Job.on
    BY <1>6, EnqueueWritten
  <2>2. e \in EntrySet
    BY <1>1, <1>6 DEF EntrySet, SnapSet, JobSet
  <2>3. disk' = [File EXCEPT !.entries = a, !.next = n]
    BY <1>1, <1>6 DEF Writes, Add, Entries
  <2> HIDE DEF e, n
  <2>4. /\ Len(a) = Len(Entries) + 1 /\ a[Len(Entries) + 1] = e
        /\ \A j \in Places : a[j] = Entries[j]
    BY <1>1, <2>2
  <2> HIDE DEF a
  <2>5. disk'.seq = File.seq
    BY <1>1, <2>3 DEF SnapSet
  <2>6. ASSUME NEW i \in Places'
        PROVE  Entries'[i].on = Job.on \/ \E j \in Places : Entries'[i] = Entries[j]
    <3>1. i \in Places \/ i = Len(Entries) + 1
      BY <1>1, <1>4, <2>1, <2>4
    <3> QED
      BY <2>1, <2>4, <3>1
  <2>7. ASSUME NEW i \in Places', Entries'[i].on # Job.on
        PROVE  \E j \in Places : /\ Entries'[i].key = Entries[j].key
                                 /\ Entries'[i].on = Entries[j].on
    BY <2>6, <2>7
  <2> QED
    BY <1>2, <1>4, <1>6, <2>5, <2>7 DEF WrittenFile
<1>7. CASE Job.kind = "cancel"
  <2> DEFINE p == PlaceOf(File, Job.key)
             a == RemoveAt(Entries, p)
  <2>1. Entries' = a /\ p \in Places
    BY <1>7, CancelWritten
  <2>2. disk' = [File EXCEPT !.entries = a]
    BY <1>1, <1>7 DEF Writes, Entries
  <2> HIDE DEF p
  <2>3. /\ Len(a) = Len(Entries) - 1
        /\ \A i \in 1..(Len(Entries) - 1) : a[i] = IF i < p THEN Entries[i] ELSE Entries[i + 1]
    BY <1>1, <2>1, RemovedAt
  <2> HIDE DEF a
  <2>4. disk'.seq = File.seq
    BY <1>1, <2>2 DEF SnapSet
  <2>5. ASSUME NEW i \in Places'
        PROVE  \E j \in Places : Entries'[i] = Entries[j]
    <3>1. i \in Places /\ i + 1 \in Places /\ Entries'[i] \in {Entries[i], Entries[i + 1]}
      BY <1>1, <1>4, <2>1, <2>3
    <3> QED
      BY <3>1
  <2>6. ASSUME NEW i \in Places'
        PROVE  \E j \in Places : /\ Entries'[i].key = Entries[j].key
                                 /\ Entries'[i].on = Entries[j].on
    BY <2>5
  <2> QED
    BY <1>2, <1>4, <1>7, <2>4, <2>6 DEF WrittenFile
<1>8. CASE Job.kind = "commit"
  <2> DEFINE a == Tail(Entries)
             q == Later(File.seq, Job.seq)
  <2>1. Entries' = a /\ Entries # <<>>
    BY <1>8, CommitWritten
  <2>2. disk' = [File EXCEPT !.entries = a, !.seq = q]
    BY <1>1, <1>8 DEF Writes, Entries
  <2>3. /\ Len(a) = Len(Entries) - 1
        /\ \A i \in 1..(Len(Entries) - 1) : a[i] = Entries[i + 1]
    BY <1>1, <2>1
  <2>4. q \in Nat /\ q >= File.seq
    BY <1>1, <1>2, <1>8 DEF Later, JobSet
  <2> HIDE DEF a, q
  <2>5. disk'.seq = q
    BY <1>1, <2>2 DEF SnapSet
  <2>6. ASSUME NEW i \in Places'
        PROVE  \E j \in Places : Entries'[i] = Entries[j]
    <3>1. i + 1 \in Places /\ Entries'[i] = Entries[i + 1]
      BY <1>1, <1>4, <2>1, <2>3
    <3> QED
      BY <3>1
  <2>7. ASSUME NEW i \in Places'
        PROVE  \E j \in Places : /\ Entries'[i].key = Entries[j].key
                                 /\ Entries'[i].on = Entries[j].on
    BY <2>6
  <2> QED
    BY <1>2, <1>4, <1>8, <2>4, <2>5, <2>7 DEF WrittenFile, q
<1>9. CASE Job.kind = "rebase"
  <2> DEFINE a == [i \in Places |-> IF Entries[i].key \in Job.keys
                                    THEN [Entries[i] EXCEPT !.on = Job.seq] ELSE Entries[i]]
             q == Later(File.seq, Job.seq)
  <2>1. Rebase(File, Job) = [File EXCEPT !.seq = q, !.entries = a]
    <3>1. DOMAIN File.entries = Places
      BY <1>1 DEF Entries, Places
    <3> QED
      BY <3>1 DEF Rebase, Entries
  <2>2. disk' = [File EXCEPT !.seq = q, !.entries = a]
    BY <1>1, <1>9, <2>1 DEF Writes
  <2>3. q \in Nat /\ q >= File.seq
    BY <1>1, <1>2, <1>9 DEF Later, JobSet
  <2>4. \A i \in Places : Entries[i] \in EntrySet
    BY <1>1
  <2>5. \A e \in EntrySet : /\ [e EXCEPT !.on = Job.seq].key = e.key
                            /\ [e EXCEPT !.on = Job.seq].on = Job.seq
    BY DEF EntrySet
  <2>6. /\ DOMAIN a = Places
        /\ \A i \in Places : /\ a[i].key = Entries[i].key
                             /\ a[i].on = IF Entries[i].key \in Job.keys
                                          THEN Job.seq ELSE Entries[i].on
    BY <2>4, <2>5
  <2> HIDE DEF a, q
  <2>7. disk'.seq = q /\ disk'.entries = a
    BY <1>1, <2>2 DEF SnapSet
  <2>8. Places' = Places
    <3>1. Entries' = a /\ Entries' \in Seq(EntrySet)
      <4>1. disk' \in SnapSet
        BY <1>3, <1>4 DEF Types
      <4> QED
        BY <1>4, <2>7, <4>1 DEF SnapSet
    <3>2. DOMAIN Entries' = 1..Len(Entries')
      BY <3>1
    <3> QED
      BY <1>4, <2>6, <3>1, <3>2
  <2> QED
    BY <1>2, <1>4, <1>9, <2>3, <2>6, <2>7, <2>8 DEF WrittenFile, q
<1> QED
  BY <1>2, <1>5, <1>6, <1>7, <1>8, <1>9

(* Its write is done: the file follows the log, past the journal's own entry, or to
   where the resync has seen everything. *)
LEMMA WriteMutationClear ==
  ASSUME PlainInv, NEW f \in Names, KeyedInv(f), PlainInv', ClearInv, PaceInv, PaceStep,
         WriteMutation
  PROVE  ClearInv'
<1>1. /\ IsOpen /\ jn \in Awake /\ ~jn.written /\ File = jn.snap /\ jn.jobs # <<>>
      /\ Job = jn.jobs[1] /\ Job \in JobSet
      /\ jn'.snap = jn.snap /\ jn'.jobs = jn.jobs /\ jn'.pump = jn.pump
      /\ jn'.written = TRUE /\ Job' = Job /\ slog' = slog /\ wire' = wire
      /\ Entries \in Seq(EntrySet)
  BY WriteSteps
<1>2. WrittenFile /\ (Coped' <=> Coped)
  BY WritesFile DEF WriteMutation, Coped
<1>3. jn'.revised = jn.revised /\ jn'.resync = jn.resync
  <2> DEFINE b == (Job.kind = "cancel" /\ jn.status = "blocked")
  <2>1. jn' = [jn EXCEPT !.written = TRUE, !.blocked = b]
    BY DEF WriteMutation
  <2> HIDE DEF b
  <2> QED
    BY <1>1, <2>1 DEF Awake, JournalSet
<1>4. /\ Types /\ Types' /\ WireKeyed(f) /\ LogGrows
      /\ FileAhead /\ JobsAhead /\ CallAhead /\ HeadAhead
      /\ Seen /\ FileClear /\ WireClear /\ LogClear
  BY <1>1, LogStays DEF PlainInv, KeyedInv, ClearInv, AheadInv
<1>5. /\ jn.jobs \in Seq(JobSet) /\ Len(jn.jobs) \in Nat /\ 1 \in 1..Len(jn.jobs)
      /\ File.seq \in Nat /\ File'.seq \in Nat /\ Len(slog) \in Nat
  BY <1>1, <1>2, <1>4, FileIsSnap DEF Types, JournalSet, SnapSet, WrittenFile
<1>6. Job.kind \in {"commit", "rebase"} => Job.seq \in Nat
  BY <1>1 DEF JobSet
<1>7. JobAhead(Job)
  BY <1>1, <1>4, <1>5 DEF JobsAhead
<1>8. Job.kind # "rebase" => Clear(File.seq, File'.seq)
  <2>1. CASE Job.kind = "commit"
    <3>1. Job.seq \in 1..Len(slog) /\ slog[Job.seq].key # 0 /\ Job.seq <= File.seq + 1
      BY <1>4, <1>7, <2>1 DEF JobAhead, OwnAt, FileAhead
    <3>2. File'.seq = Later(File.seq, Job.seq)
      BY <1>2, <2>1 DEF WrittenFile
    <3>3. \A k \in (File.seq + 1)..File'.seq : k = Job.seq
      BY <1>5, <1>6, <2>1, <3>1, <3>2 DEF Later
    <3> QED
      BY <3>1, <3>3 DEF Clear
  <2>2. CASE Job.kind \notin {"commit", "rebase"}
    <3>1. File'.seq = File.seq
      BY <1>2, <2>2 DEF WrittenFile
    <3> QED
      BY <1>5, <3>1, ClearNone
  <2> QED
    BY <2>1, <2>2
<1>9. FileAhead'
  <2>1. File'.seq <= Len(slog)
    <3>1. CASE Job.kind \in {"commit", "rebase"}
      <4>1. Job.seq <= Len(slog) /\ File.seq <= Len(slog)
        BY <1>4, <1>5, <1>7, <3>1 DEF JobAhead, OwnAt, FileAhead
      <4> QED
        BY <1>2, <1>5, <1>6, <3>1, <4>1 DEF WrittenFile, Later
    <3>2. CASE Job.kind \notin {"commit", "rebase"}
      BY <1>2, <1>4, <3>2 DEF WrittenFile, FileAhead
    <3> QED
      BY <3>1, <3>2
  <2>2. File.seq <= File'.seq
    BY <1>2 DEF WrittenFile
  <2>3. ASSUME NEW n \in 1..Len(slog), slog[n].key # 0
        PROVE  n <= File'.seq + 1
    <3>1. n <= File.seq + 1
      BY <1>4, <2>3 DEF FileAhead
    <3> QED
      BY <1>5, <2>2, <3>1
  <2> QED
    BY <1>1, <2>1, <2>3 DEF FileAhead
<1>10. JobsAhead' /\ CallAhead' /\ HeadAhead'
  BY <1>1, <1>3, <1>4 DEF JobsAhead, JobAhead, CallAhead, HeadAhead, OwnAt
<1>11. SnapAhead'
  BY <1>1, <1>8 DEF SnapAhead, Clear
<1>12. WireClear' /\ LogClear'
  BY <1>1, <1>2, <1>4 DEF WireClear, LogClear, Rebased, Clear
<1>13. /\ TurnsIn(jn) /\ Fits(Job.kind, jn.pump.phase, jn.resync.phase)
       /\ \A i \in 1..Len(jn.jobs) : Fits(jn.jobs[i].kind, jn.pump.phase, jn.resync.phase)
  BY <1>1, RestPaced DEF PaceInv, TurnsIn, Turns
<1>14. Seen'
  <2> SUFFICES ASSUME Coped', ~jn'.revised
               PROVE  (ResyncSees /\ \A i \in 1..Len(jn.jobs) : JobSees(jn.jobs[i]))'
    BY DEF Seen
  <2>1. Sure /\ ResyncSees /\ \A i \in 1..Len(jn.jobs) : JobSees(jn.jobs[i])
    BY <1>2, <1>3, <1>4 DEF Seen, Coped, Sure
  <2>2. ASSUME NEW keys, Shows(keys)
        PROVE  (\A i \in Places' : Entries'[i].key \in keys) /\ Lacks(jn'.jobs, {"enqueue"})
    <3>1. Job.kind # "enqueue"
      BY <1>1, <1>5, <2>2 DEF Shows, Lacks
    <3>2. \A i \in Places' : \E j \in Places : Entries'[i].key = Entries[j].key
      BY <1>2, <3>1 DEF WrittenFile
    <3> QED
      BY <1>1, <2>2, <3>2 DEF Shows
  <2>3. jn.resync.phase # "idle" => Job.kind # "commit"
    BY <1>13, <2>1 DEF PaceInv, Steady, Replays, Live, Fits
  <2>4. jn.resync.phase \in {"asked", "answered"} => File'.seq = File.seq
    <3>1. jn.resync.phase \in {"asked", "answered"} => Job.kind # "rebase"
      BY <1>13 DEF Fits
    <3> QED
      BY <1>2, <2>3, <3>1 DEF WrittenFile
  <2>5. ResyncSees'
    BY <1>3, <2>1, <2>2, <2>4 DEF ResyncSees, Shows
  <2>6. ASSUME NEW i \in 1..Len(jn.jobs), jn.jobs[i].kind = "rebase"
        PROVE  /\ \A k \in Places' : Entries'[k].key \in jn.jobs[i].keys
               /\ Lacks(jn'.jobs, {"enqueue"})
               /\ File'.seq <= jn.jobs[i].seq
    <3>1. Shows(jn.jobs[i].keys) /\ File.seq <= jn.jobs[i].seq
      BY <2>1, <2>6 DEF JobSees
    <3>2. jn.resync.phase = "committing"
      BY <1>13, <2>6 DEF Fits
    <3>3. CASE Job.kind = "rebase"
      <4>1. i = 1
        <5>1. 1 < i => jn.jobs[i].kind \notin ResyncJobs
          BY <1>1, <1>5, <1>13, <3>3 DEF TurnsIn, Turns, ResyncJobs
        <5> QED
          BY <1>5, <2>6, <5>1 DEF ResyncJobs
      <4>2. File'.seq = Later(File.seq, Job.seq) /\ jn.jobs[i] = Job
        BY <1>1, <1>2, <3>3, <4>1 DEF WrittenFile
      <4>3. File'.seq <= jn.jobs[i].seq
        BY <1>5, <1>6, <3>1, <3>3, <4>2 DEF Later
      <4> QED
        BY <2>2, <3>1, <4>3
    <3>4. CASE Job.kind # "rebase"
      <4>1. File'.seq = File.seq
        BY <1>2, <2>3, <3>2, <3>4 DEF WrittenFile
      <4> QED
        BY <2>2, <3>1, <4>1
    <3> QED
      BY <3>3, <3>4
  <2> QED
    BY <1>1, <2>5, <2>6 DEF JobSees, Shows
<1>15. FileClear'
  <2> SUFFICES ASSUME Coped', Replaying' \/ RebaseDone'
               PROVE  Expressed'
    BY DEF FileClear
  <2>1. Sure /\ Sure'
    BY <1>2 DEF Coped, Sure
  <2>2. Replaying' => Replaying
    BY <1>1, <2>1 DEF PaceStep, Rebasing, ResumeMutation
  <2>3. CASE Job.kind = "rebase"
    <3>1. ~Replaying'
      <4>1. jn.resync.phase # "idle" /\ jn.resync.phase # "settling"
        BY <1>13, <2>3 DEF Fits
      <4>2. ~Replays(jn) /\ ~Marked
        BY <2>1, <4>1, NothingReplays
      <4> QED
        BY <2>2, <4>2 DEF Replaying
    <3>2. ~jn.revised
      BY <1>3, <3>1 DEF RebaseDone
    <3>3. JobSees(Job)
      BY <1>1, <1>2, <1>4, <1>5, <3>2 DEF Seen
    <3>4. Shows(Job.keys) /\ File'.seq = Job.seq
      BY <1>2, <1>5, <1>6, <2>3, <3>3 DEF JobSees, WrittenFile, Later
    <3>5. \A i \in Places' : Entries'[i].on = File'.seq
      BY <1>2, <2>3, <3>4 DEF WrittenFile, Shows
    <3>6. \A i \in Places' : ClearNext(Entries'[i].on, File'.seq)
      BY <1>5, <3>5, ClearNone
    <3>7. \A i \in 1..Len(jn'.jobs) : jn'.jobs[i].kind # "enqueue"
      BY <1>1, <3>4 DEF Shows, Lacks
    <3> QED
      BY <3>6, <3>7 DEF Expressed, Clear, ClearNext
  <2>4. CASE Job.kind # "rebase"
    <3>1. Replaying
      BY <1>1, <2>2, <2>4 DEF RebaseDone
    <3>2. Expressed
      BY <1>2, <1>4, <3>1 DEF FileClear
    <3>3. Clear(File.seq, File'.seq)
      BY <1>8, <2>4
    <3>4. ASSUME NEW i \in 1..Len(jn.jobs), jn.jobs[i].kind = "enqueue"
          PROVE  ClearNext(jn.jobs[i].on, File'.seq)
      <4>1. jn.jobs[i] \in JobSet
        BY <1>5
      <4>2. jn.jobs[i].on \in Nat
        BY <3>4, <4>1 DEF JobSet
      <4>3. Clear(jn.jobs[i].on, File.seq)
        BY <3>2, <3>4 DEF Expressed
      <4>4. Clear(jn.jobs[i].on, File'.seq)
        BY <1>5, <3>3, <4>2, <4>3, ClearJoined
      <4> QED
        BY <1>1, <4>4 DEF Clear, ClearNext
    <3>5. ASSUME NEW j \in Places
          PROVE  ClearNext(Entries[j].on, File'.seq)
      <4>1. Entries[j] \in EntrySet
        BY <1>1 DEF Places
      <4>2. Entries[j].on \in Nat
        BY <4>1 DEF EntrySet
      <4>3. Clear(Entries[j].on, File.seq)
        BY <3>2 DEF Expressed
      <4>4. Clear(Entries[j].on, File'.seq)
        BY <1>5, <3>3, <4>2, <4>3, ClearJoined
      <4> QED
        BY <1>1, <4>4 DEF Clear, ClearNext
    <3>6. ASSUME NEW i \in Places'
          PROVE  ClearNext(Entries'[i].on, File'.seq)
      <4>1. CASE Job.kind = "enqueue" /\ Entries'[i].on = Job.on
        BY <1>1, <1>5, <3>4, <4>1
      <4>2. CASE ~(Job.kind = "enqueue" /\ Entries'[i].on = Job.on)
        <5>1. \E j \in Places : Entries'[i].on = Entries[j].on
          BY <1>2, <2>4, <4>2 DEF WrittenFile
        <5> QED
          BY <3>5, <5>1
      <4> QED
        BY <4>1, <4>2
    <3> QED
      BY <1>1, <3>4, <3>6 DEF Expressed, Clear, ClearNext
  <2> QED
    BY <2>3, <2>4
<1> QED
  BY <1>9, <1>10, <1>11, <1>12, <1>14, <1>15 DEF ClearInv, AheadInv

-----------------------------------------------------------------------------
(* The server, and its answers. *)

(* An entry is logged: the journal's own, only where the file has seen the rest. *)
LEMMA EntryLogged ==
  ASSUME Types, FileAhead, LogClear, NEW e \in EntrySet, slog' = Append(slog, e),
         File' = File, Coped' => Coped,
         Coped => Clear(e.on, Len(slog)), e.key # 0 => Len(slog) <= File.seq
  PROVE  LogGrows /\ FileAhead' /\ LogClear' /\ (e.key # 0 => OwnAtNext(Len(slog) + 1))
<1>1. slog \in Seq(EntrySet) /\ Len(slog) \in Nat /\ File.seq \in Nat /\ e.on \in Nat
  BY FileIsSnap DEF Types, SnapSet, EntrySet
<1>2. /\ Len(slog') = Len(slog) + 1 /\ slog'[Len(slog) + 1] = e
      /\ \A p \in 1..Len(slog) : slog'[p] = slog[p]
  BY <1>1
<1>3. LogGrows
  BY <1>1, <1>2 DEF LogGrows
<1>4. FileAhead'
  <2>1. ASSUME NEW n \in 1..Len(slog'), slog'[n].key # 0
        PROVE  n <= File.seq + 1
    <3>1. n \in 1..Len(slog) \/ n = Len(slog) + 1
      BY <1>1, <1>2
    <3> QED
      BY <1>1, <1>2, <2>1, <3>1 DEF FileAhead
  <2>2. File.seq <= Len(slog')
    BY <1>1, <1>2 DEF FileAhead
  <2> QED
    BY <2>1, <2>2 DEF FileAhead
<1>5. LogClear'
  <2> SUFFICES ASSUME Coped' PROVE Rebased'
    BY DEF LogClear
  <2>1. Rebased /\ Clear(e.on, Len(slog))
    BY DEF LogClear
  <2>2. ASSUME NEW n \in 1..Len(slog'), NEW k \in (slog'[n].on + 1)..(n - 1)
        PROVE  slog'[k].key # 0
    <3>1. CASE n \in 1..Len(slog)
      <4>1. slog[n] \in EntrySet
        BY <1>1, <3>1
      <4>2. slog[n].on \in Nat
        BY <4>1 DEF EntrySet
      <4>3. k \in (slog[n].on + 1)..(n - 1) /\ k \in 1..Len(slog)
        BY <1>1, <1>2, <2>2, <3>1, <4>2
      <4> QED
        BY <1>2, <2>1, <3>1, <4>3 DEF Rebased
    <3>2. CASE n = Len(slog) + 1
      <4>1. k \in (e.on + 1)..Len(slog) /\ k \in 1..Len(slog)
        BY <1>1, <1>2, <2>2, <3>2
      <4> QED
        BY <1>2, <2>1, <4>1 DEF Clear
    <3> QED
      <4>1. n \in 1..Len(slog) \/ n = Len(slog) + 1
        BY <1>1, <1>2
      <4> QED
        BY <3>1, <3>2, <4>1
  <2> QED
    BY <2>2 DEF Rebased
<1>6. e.key # 0 => OwnAtNext(Len(slog) + 1)
  BY <1>1, <1>2 DEF OwnAtNext
<1> QED
  BY <1>3, <1>4, <1>5, <1>6

(* The journal learns no more of it than an answer. *)
LEMMA ServedClear ==
  ASSUME PlainInv, NEW f, KeyedInv(f), PlainInv', ClearInv, PaceStep,
         jn'.jobs = jn.jobs, jn'.written = jn.written, jn'.snap = jn.snap,
         jn'.revised = jn.revised, jn'.resync = jn.resync,
         File' = File, wire' \subseteq wire, Coped' => Coped,
         LogGrows, FileAhead', CallAhead', LogClear'
  PROVE  ClearInv'
<1>1. /\ Types /\ Types' /\ WireKeyed(f)
      /\ FileAhead /\ JobsAhead /\ CallAhead /\ HeadAhead /\ SnapAhead
      /\ Seen /\ FileClear /\ WireClear /\ LogClear
  BY DEF PlainInv, KeyedInv, ClearInv, AheadInv
<1> DEFINE job == [kind |-> "mark"]
<1>2. job.kind = "mark"
  OBVIOUS
<1> HIDE DEF job
<1>3. Joins(job) /\ JobAheadNext(job)
  BY <1>2 DEF Joins, JobAheadNext
<1>4. Sighted(jn, jn') /\ SameSight(jn.resync, jn'.resync)
  BY DEF Sighted, SameSight
<1>5. SameWrite /\ (RebaseDone' => RebaseDone)
  BY DEF SameWrite, RebaseDone, Job
<1>6. JobsAhead' /\ HeadAhead' /\ SnapAhead'
  BY <1>1, <1>3, <1>4, <1>5, JobsAheadStays, HeadAheadStays, SnapAheadStays
<1>7. Seen'
  BY <1>1, <1>2, <1>3, <1>4, SeenStays
<1>8. FileClear'
  BY <1>1, <1>2, <1>3, <1>5, FileClearStays
<1>9. WireClear'
  BY <1>1, WireClearStays
<1> QED
  BY <1>6, <1>7, <1>8, <1>9 DEF ClearInv, AheadInv

(* Another client's entry is logged. *)
LEMMA ServeOtherClear ==
  ASSUME PlainInv, NEW f, KeyedInv(f), PlainInv', ClearInv, PaceStep, ServeOther
  PROVE  ClearInv'
<1> DEFINE e == [key |-> 0, id |-> 0, on |-> Len(slog)]
<1>1. /\ Types /\ Types' /\ FileAhead /\ CallAhead /\ LogClear
  BY DEF PlainInv, ClearInv, AheadInv
<1>2. Len(slog) \in Nat
  BY <1>1 DEF Types
<1>3. e \in EntrySet /\ e.key = 0 /\ e.on = Len(slog)
  BY <1>2 DEF EntrySet
<1>4. /\ slog' = Append(slog, e) /\ jn' = jn /\ wire' = wire
      /\ disk' = disk /\ mishaps' = mishaps
  BY DEF ServeOther
<1> HIDE DEF e
<1>5. File' = File /\ (Coped' => Coped)
  BY <1>4 DEF File, Coped
<1>6. Clear(e.on, Len(slog))
  BY <1>2, <1>3, ClearNone
<1>7. LogGrows /\ FileAhead' /\ LogClear'
  BY <1>1, <1>3, <1>4, <1>5, <1>6, EntryLogged
<1>8. SameCall(jn.pump, jn'.pump)
  BY <1>4 DEF SameCall
<1>9. CallAhead'
  BY <1>1, <1>7, <1>8, CallAheadStays
<1> QED
  BY <1>4, <1>5, <1>7, <1>9, ServedClear

(* A request reaches the server, which takes it on the head it was based on. *)
LEMMA ServeSubmitClear ==
  ASSUME PlainInv, Closed, NEW f, KeyedInv(f), PlainInv', ClearInv, PaceStep,
         NEW r \in wire, ServeSubmit(r)
  PROVE  ClearInv'
<1> DEFINE e == [key |-> r.key, id |-> r.id, on |-> r.on]
           fits == r.base = Len(slog)
           ack == [seq |-> IF Position(r.key) # {} THEN CHOOSE n \in Position(r.key) : TRUE
                           ELSE IF fits THEN Len(slog) + 1 ELSE 0,
                   dedup |-> Position(r.key) # {}]
           c == [phase |-> "answered", aborted |-> jn.pump.aborted,
                 entry |-> jn.pump.entry, base |-> jn.pump.base, ack |-> ack]
           awaited == /\ jn.pump.phase = "asked"
                      /\ jn.pump.entry.key = r.key /\ jn.pump.base = r.base
           logs == Position(r.key) = {} /\ fits
<1>1. /\ Types /\ Types' /\ FileAhead /\ CallAhead /\ LogClear /\ WireClear /\ WireKeyed(f)
  BY DEF PlainInv, KeyedInv, ClearInv, AheadInv
<1>2. slog \in Seq(EntrySet) /\ Len(slog) \in Nat /\ r \in RequestSet /\ jn \in JournalSet
      /\ File \in SnapSet
  BY <1>1, FileIsSnap DEF Types
<1>3. r.key \in Nat \ {0} /\ r.base <= File.seq
  <2>1. r.key \in UsedKeys /\ r.base <= File.seq
    BY <1>1 DEF WireKeyed, Keyed
  <2> QED
    BY <1>2, <2>1 DEF UsedKeys, SnapSet
<1>4. e \in EntrySet /\ e.key = r.key /\ e.on = r.on
  BY <1>2 DEF RequestSet, EntrySet
<1>5. /\ slog' = IF logs THEN Append(slog, e) ELSE slog
      /\ jn' = IF awaited THEN [jn EXCEPT !.pump = c] ELSE jn
      /\ disk' = disk /\ mishaps' = mishaps /\ wire' \subseteq wire
  BY DEF ServeSubmit
<1>6. File' = File /\ (Coped' <=> Coped)
  BY <1>5 DEF File, Coped
<1>7. LogGrows /\ FileAhead' /\ LogClear' /\ (logs => OwnAtNext(Len(slog) + 1))
  <2> HIDE DEF e
  <2>1. CASE logs
    <3>1. Coped => Clear(e.on, Len(slog))
      BY <1>1, <1>4, <2>1 DEF WireClear
    <3> QED
      BY <1>1, <1>2, <1>3, <1>4, <1>5, <1>6, <2>1, <3>1, EntryLogged
  <2>2. CASE ~logs
    <3>1. slog' = slog
      BY <1>5, <2>2
    <3> QED
      BY <1>1, <1>6, <2>2, <3>1, LogStays DEF FileAhead, LogClear, Rebased
  <2> QED
    BY <2>1, <2>2
<1>8. ack.seq # 0 => OwnAtNext(ack.seq)
  <2>1. CASE Position(r.key) # {}
    <3>1. ack.seq \in Position(r.key)
      BY <2>1
    <3>2. OwnAt(ack.seq)
      BY <1>3, <3>1 DEF Position, OwnAt
    <3> QED
      BY <1>1, <1>7, <3>2, OwnGrows
  <2>2. CASE Position(r.key) = {}
    <3>1. ack.seq = IF fits THEN Len(slog) + 1 ELSE 0
      BY <2>2
    <3> QED
      BY <1>7, <2>2, <3>1
  <2> QED
    BY <2>1, <2>2
<1>9. c.phase = "answered" /\ c.ack = ack
  OBVIOUS
<1> HIDE DEF c
<1>10. /\ jn'.jobs = jn.jobs /\ jn'.written = jn.written /\ jn'.snap = jn.snap
       /\ jn'.revised = jn.revised /\ jn'.resync = jn.resync
       /\ jn'.pump = IF awaited THEN c ELSE jn.pump
  BY <1>2, <1>5 DEF JournalSet
<1> HIDE DEF ack, e
<1>11. CallAhead'
  <2>1. CASE awaited
    BY <1>8, <1>9, <1>10, <2>1 DEF CallAhead, OwnAt, OwnAtNext
  <2>2. CASE ~awaited
    <3>1. SameCall(jn.pump, jn'.pump)
      BY <1>10, <2>2 DEF SameCall
    <3> QED
      BY <1>1, <1>7, <3>1, CallAheadStays
  <2> QED
    BY <2>1, <2>2
<1> QED
  BY <1>5, <1>6, <1>7, <1>10, <1>11, ServedClear

(* Its answer to a submission returns. *)
LEMMA SubmitReturnsClear ==
  ASSUME PlainInv, Closed, NEW f, KeyedInv(f), PlainInv', ClearInv, PaceStep, SubmitReturns
  PROVE  ClearInv'
<1> DEFINE ack == jn.pump.ack
<1>1. jn \in Awake /\ WrittenDone /\ WithinBounds /\ jn.pump.phase = "answered"
  BY OpenIfBusy, OpenJournal DEF SubmitReturns, PlainInv
<1>2. /\ disk' = disk /\ slog' = slog /\ wire' = wire /\ fate' = fate /\ budget' = budget
      /\ (Coped' => Coped)
      /\ jn' = IF ack.seq = 0 THEN SubmitFailed(jn) ELSE SubmitAcked(jn, ack)
  BY DEF SubmitReturns, Coped
<1>3. Sighted(jn, jn')
  BY <1>1, <1>2, SubmitFailedSighted, SubmitAckedSighted
<1>4. CASE Calmly(jn, jn')
  <2>1. Quiet
    BY <1>1, <1>2, <1>4 DEF Quiet, Awake, IsOpen, WithinBounds
  <2> QED
    BY <1>2, <1>3, <2>1, QuietClear
<1>5. CASE ~Calmly(jn, jn')
  <2>1. ack.seq # 0 /\ jn' = SubmitAcked(jn, ack)
    BY <1>1, <1>2, <1>5, SubmitFailedCalm
  <2>2. ~Calmly(jn, SubmitAcked(jn, ack))
    BY <1>5, <2>1
  <2>3. ack \in AckSet /\ jn.pump.entry \in EntrySet
    <3>1. jn.pump \in [phase : {"answered"}, aborted : BOOLEAN, entry : EntrySet,
                       base : Nat, ack : AckSet]
      BY <1>1 DEF Awake, JournalSet, PumpSet
    <3> QED
      BY <3>1
  <2>4. OwnAt(ack.seq)
    BY <1>1, <2>1 DEF ClearInv, AheadInv, CallAhead
  <2> HIDE DEF ack
  <2>0. jn \in Awake
    BY <1>1
  <2>5. PICK u : /\ Calmly(jn, u) /\ u.pump = jn.pump /\ u.jobs = jn.jobs
                 /\ SubmitAcked(jn, ack) =
                      [u EXCEPT !.pump = [phase |-> "committing"],
                         !.jobs = Append(@, [kind |-> "commit", key |-> jn.pump.entry.key,
                                             id |-> jn.pump.entry.id, seq |-> ack.seq])]
    BY <2>0, <2>2, SubmitAckedSteps
  <2> DEFINE job == [kind |-> "commit", key |-> jn.pump.entry.key,
                     id |-> jn.pump.entry.id, seq |-> ack.seq]
             a == Append(jn.jobs, job)
             c == [phase |-> "committing"]
  <2>6. jn' = [u EXCEPT !.pump = c, !.jobs = a]
    BY <2>1, <2>5
  <2>7. u \in JournalSet /\ u.written = jn.written /\ u.snap = jn.snap
        /\ jn.jobs \in Seq(JobSet)
    BY <1>1, <2>5 DEF Calmly, Awake, JournalSet
  <2>8. job \in JobSet /\ job.kind = "commit" /\ job.seq = ack.seq
    BY <2>3 DEF JobSet, AckSet, EntrySet
  <2>9. c.phase = "committing"
    OBVIOUS
  <2> HIDE DEF c, job
  <2>10. /\ a \in Seq(JobSet) /\ Len(jn.jobs) <= Len(a)
         /\ \A i \in 1..Len(jn.jobs) : a[i] = jn.jobs[i]
    BY <2>7, <2>8
  <2> HIDE DEF a
  <2>11. jn'.jobs = a /\ jn'.pump = c /\ jn'.written = u.written /\ jn'.snap = u.snap
    BY <2>6, <2>7 DEF JournalSet
  <2>12. SameTurn
    BY <1>1, <2>7, <2>10, <2>11, SameTurnIfGrown
  <2>13. Idly
    BY <1>2, <1>3, <2>7, <2>9, <2>11, <2>12
    DEF Idly, SameWrite, SameTurn, SameCall, File
  <2>14. Joins(job)
    <3>1. jn'.jobs = Append(jn.jobs, job)
      BY <2>11 DEF a
    <3> QED
      BY <2>7, <2>8, <3>1, JoinsIfAppended
  <2>15. JobAhead(job)
    BY <2>4, <2>8 DEF JobAhead
  <2> QED
    BY <2>8, <2>13, <2>14, <2>15, StillClear
<1> QED
  BY <1>4, <1>5

(* The host answers a resync: the file is not past the head it brings. *)
LEMMA ServeResyncClear ==
  ASSUME PlainInv, Closed, NEW f, KeyedInv(f), PlainInv', ClearInv, PaceStep, ServeResync
  PROVE  ClearInv'
<1> DEFINE c == [phase |-> "answered", aborted |-> jn.resync.aborted,
                 keys |-> jn.resync.keys, head |-> Len(slog)]
           job == [kind |-> "mark"]
<1>1. jn \in Awake
  BY OpenIfBusy, OpenJournal DEF ServeResync
<1>2. /\ jn' = [jn EXCEPT !.resync = c] /\ jn.resync.phase = "asked"
      /\ disk' = disk /\ slog' = slog /\ wire' = wire /\ mishaps' = mishaps
  BY DEF ServeResync
<1>3. c.phase = "answered" /\ c.keys = jn.resync.keys /\ c.head = Len(slog)
  OBVIOUS
<1>4. job.kind = "mark"
  OBVIOUS
<1> HIDE DEF c, job
<1>5. /\ jn'.jobs = jn.jobs /\ jn'.written = jn.written /\ jn'.snap = jn.snap
      /\ jn'.revised = jn.revised /\ jn'.resync = c /\ jn'.pump = jn.pump
  BY <1>1, <1>2 DEF Awake, JournalSet
<1>6. /\ Types /\ Types' /\ WireKeyed(f) /\ LogGrows
      /\ FileAhead /\ JobsAhead /\ CallAhead /\ SnapAhead
      /\ Seen /\ FileClear /\ WireClear /\ LogClear
  BY <1>2, LogStays DEF PlainInv, KeyedInv, ClearInv, AheadInv
<1>7. File' = File /\ (Coped' <=> Coped)
  BY <1>2 DEF File, Coped
<1>8. Joins(job) /\ JobAheadNext(job)
  BY <1>4, <1>5 DEF Joins, JobAheadNext
<1>9. SameWrite /\ (RebaseDone' => RebaseDone) /\ SameCall(jn.pump, jn'.pump)
  BY <1>5 DEF SameWrite, RebaseDone, Job, SameCall
<1>10. JobsAhead' /\ CallAhead' /\ SnapAhead'
  BY <1>6, <1>7, <1>8, <1>9, JobsAheadStays, CallAheadStays, SnapAheadStays
<1>11. FileAhead' /\ HeadAhead'
  <2>1. Len(slog) \in Nat
    BY <1>6 DEF Types
  <2> QED
    BY <1>2, <1>3, <1>5, <1>6, <1>7, <2>1 DEF FileAhead, HeadAhead
<1>12. Seen'
  <2> SUFFICES ASSUME Coped', ~jn'.revised
               PROVE  (ResyncSees /\ \A i \in 1..Len(jn.jobs) : JobSees(jn.jobs[i]))'
    BY DEF Seen
  <2>1. ResyncSees /\ \A i \in 1..Len(jn.jobs) : JobSees(jn.jobs[i])
    BY <1>5, <1>6, <1>7 DEF Seen
  <2>2. Entries' = Entries /\ Places' = Places
    BY <1>7 DEF Entries, Places
  <2>3. ResyncSees'
    BY <1>2, <1>3, <1>5, <1>6, <1>7, <2>1, <2>2 DEF ResyncSees, Shows, FileAhead
  <2> QED
    BY <1>5, <1>7, <2>1, <2>2, <2>3 DEF JobSees, Shows
<1>13. FileClear'
  BY <1>4, <1>6, <1>7, <1>8, <1>9, FileClearStays
<1>14. WireClear'
  BY <1>2, <1>6, <1>7, WireClearStays
<1>15. LogClear'
  BY <1>2, <1>6, <1>7 DEF LogClear, Rebased
<1> QED
  BY <1>10, <1>11, <1>12, <1>13, <1>14, <1>15 DEF ClearInv, AheadInv

(* Its answer returns. *)
LEMMA ResyncReturnsClear ==
  ASSUME PlainInv, Closed, NEW f, KeyedInv(f), PlainInv', ClearInv, PaceStep, ResyncReturns
  PROVE  ClearInv'
<1> DEFINE s == Settled(jn, "resync")
<1>1. jn \in Awake /\ WrittenDone /\ WithinBounds /\ jn.resync.phase = "answered"
  BY OpenIfBusy, OpenJournal DEF ResyncReturns, PlainInv
<1>2. /\ disk' = disk /\ slog' = slog /\ wire' = wire /\ fate' = fate /\ budget' = budget
      /\ (Coped' => Coped)
  BY DEF ResyncReturns, Coped
<1>3. s \in Awake /\ Calmly(jn, s) /\ Sighted(jn, s) /\ s.jobs = jn.jobs
  BY <1>1, SettledCalm, SettledPaced, CalmlyAwake, QuietlySighted
<1>4. CASE ~jn.online \/ jn.resync.aborted
  <2>1. jn' = EndResync(s)
    BY <1>4 DEF ResyncReturns
  <2> HIDE DEF s
  <2>2. Calmly(jn, jn') /\ Sighted(jn, jn')
    BY <1>1, <1>3, <2>1, EndResyncCalm, EndResyncSighted, CalmlyTwice, SightedTwice
  <2>3. Quiet
    BY <1>1, <1>2, <2>2 DEF Quiet, Awake, IsOpen, WithinBounds
  <2> QED
    BY <1>2, <2>2, <2>3, QuietClear
<1>5. CASE ~(~jn.online \/ jn.resync.aborted)
  <2> DEFINE job == [kind |-> "rebase", seq |-> jn.resync.head, keys |-> jn.resync.keys]
             a == Append(s.jobs, job)
             c == [phase |-> "committing"]
  <2>1. jn' = [s EXCEPT !.resync = c, !.jobs = a]
    BY <1>5 DEF ResyncReturns
  <2>2. /\ job \in JobSet /\ job.kind = "rebase" /\ job.keys = jn.resync.keys
        /\ job.seq = jn.resync.head
    <3>1. jn.resync \in [phase : {"answered"}, aborted : BOOLEAN, keys : SUBSET Nat,
                         head : Nat]
      BY <1>1 DEF Awake, JournalSet, ResyncSet
    <3> QED
      BY <3>1 DEF JobSet
  <2>3. c.phase = "committing"
    OBVIOUS
  <2> HIDE DEF s, job, c
  <2>4. /\ jn.jobs \in Seq(JobSet) /\ a = Append(jn.jobs, job) /\ a \in Seq(JobSet)
        /\ Len(jn.jobs) <= Len(a) /\ \A i \in 1..Len(jn.jobs) : a[i] = jn.jobs[i]
    BY <1>1, <1>3, <2>2 DEF Awake, JournalSet
  <2> HIDE DEF a
  <2>5. /\ jn'.jobs = a /\ jn'.pump = s.pump /\ jn'.written = s.written /\ jn'.snap = s.snap
        /\ jn'.revised = s.revised /\ jn'.resync = c
    BY <1>3, <2>1 DEF Awake, JournalSet
  <2>6. s.written = jn.written /\ s.snap = jn.snap /\ SameCall(jn.pump, s.pump)
        /\ s.revised = jn.revised
    BY <1>3 DEF Calmly, Sighted
  <2>7. SameTurn
    BY <1>1, <2>4, <2>5, <2>6, SameTurnIfGrown
  <2>8. Sighted(jn, jn')
    BY <2>3, <2>5, <2>6 DEF Sighted, SameSight
  <2>9. Idly
    BY <1>2, <2>5, <2>6, <2>7, <2>8 DEF Idly, SameWrite, SameTurn, File
  <2>10. Joins(job)
    BY <2>2, <2>4, <2>5, JoinsIfAppended
  <2>11. JobAhead(job)
    BY <1>1, <2>2 DEF JobAhead, ClearInv, AheadInv, HeadAhead
  <2> QED
    BY <1>1, <2>2, <2>9, <2>10, <2>11, StillClear
<1> QED
  BY <1>4, <1>5

-----------------------------------------------------------------------------
(* Every step keeps what is expressed. *)
LEMMA StepClear ==
  ASSUME OutboxInv, PaceInv, ClearInv, [JournalNext]_jvars, OutboxInv'
  PROVE  ClearInv'
<1>1. PlainInv /\ PlainInv' /\ PaceStep
  BY StepPaced DEF OutboxInv
<1>2. PICK f \in Names : KeyedInv(f)
  BY DEF OutboxInv
<1>3. Closed
  BY <1>2 DEF KeyedInv, MemoryKeyed, Closed
<1>4. CASE Open \/ Stop
  BY <1>1, <1>2, <1>3, <1>4, RestartClear
<1>5. CASE \/ Connect \/ RetryDue \/ Disconnect \/ SubmitLost \/ ResyncRefuses \/ ResyncLost
           \/ \E key \in jn.deferred : Release(key)
  BY <1>1, <1>2, <1>3, <1>5, HostClear
<1>6. CASE \E defer \in BOOLEAN : Enqueue(defer)
  BY <1>1, <1>2, <1>6, EnqueueClear
<1>7. CASE \E key \in KeysOf(jn.snap) : Cancel(key)
  BY <1>1, <1>2, <1>3, <1>7, CancelClear
<1>8. CASE SkipMutation
  BY <1>1, <1>2, <1>3, <1>8, SkipMutationClear
<1>9. CASE WriteMutation
  BY <1>1, <1>2, <1>9, WriteMutationClear
<1>10. CASE FailToWrite
  BY <1>1, <1>2, <1>3, <1>10, FailToWriteClear
<1>11. CASE ResumeMutation
  BY <1>1, <1>2, <1>3, <1>11, ResumeMutationClear
<1>12. CASE ServeOther
  BY <1>1, <1>2, <1>12, ServeOtherClear
<1>13. CASE \E r \in wire : ServeSubmit(r)
  BY <1>1, <1>2, <1>3, <1>13, ServeSubmitClear
<1>14. CASE SubmitReturns
  BY <1>1, <1>2, <1>3, <1>14, SubmitReturnsClear
<1>15. CASE ServeResync
  BY <1>1, <1>2, <1>3, <1>15, ServeResyncClear
<1>16. CASE ResyncReturns
  BY <1>1, <1>2, <1>3, <1>16, ResyncReturnsClear
<1>17. CASE UNCHANGED jvars
  <2>1. /\ disk' = disk /\ jn' = jn /\ wire' = wire /\ slog' = slog /\ mishaps' = mishaps
    BY <1>17 DEF jvars
  <2>2. /\ File' = File /\ (Coped' => Coped) /\ LogGrows
    BY <1>1, <2>1, LogStays DEF File, Coped, PlainInv
  <2>3. FileAhead' /\ CallAhead' /\ LogClear'
    BY <2>1, <2>2 DEF ClearInv, AheadInv, FileAhead, CallAhead, OwnAt, LogClear, Rebased
  <2> QED
    BY <1>1, <1>2, <2>1, <2>2, <2>3, ServedClear
<1> QED
  BY <1>4, <1>5, <1>6, <1>7, <1>8, <1>9, <1>10, <1>11, <1>12, <1>13, <1>14, <1>15, <1>16,
     <1>17 DEF JournalNext

(* The log begins empty. *)
LEMMA InitClear == JournalInit => ClearInv
<1> SUFFICES ASSUME JournalInit PROVE ClearInv
  OBVIOUS
<1>1. /\ jn.jobs = <<>> /\ jn.written = FALSE /\ jn.pump.phase = "idle"
      /\ jn.resync.phase = "idle" /\ jn.status = "closed" /\ slog = <<>> /\ wire = {}
      /\ File.seq = 0
  BY DEF JournalInit, Unopened, Idle, File, Empty
<1>2. 1..Len(jn.jobs) = {} /\ 1..Len(slog) = {} /\ Len(slog) = 0
  BY <1>1
<1>3. FileAhead
  BY <1>1, <1>2 DEF FileAhead
<1>4. JobsAhead /\ LogClear /\ WireClear
  BY <1>1, <1>2, Zenon DEF JobsAhead, LogClear, Rebased, WireClear
<1>5. CallAhead /\ HeadAhead /\ SnapAhead /\ ResyncSees
  BY <1>1 DEF CallAhead, HeadAhead, SnapAhead, ResyncSees
<1>6. Seen
  BY <1>2, <1>5, Zenon DEF Seen
<1>7. FileClear
  BY <1>1 DEF FileClear, Replaying, Replays, Live, Marked, RebaseDone
<1> QED
  BY <1>3, <1>4, <1>5, <1>6, <1>7 DEF ClearInv, AheadInv

(* The file is one submission behind the log at most, counting only the journal's own;
   a resync that need not go round again knows every submission there is to rebase;
   and what may be replayed is expressed on the log up to where the file knows it, as
   what is on its way is up to its base (runResynchronize, enqueue, runPump). *)
THEOREM ClearInductive == JournalSpec => []ClearInv
<1>1. OutboxInv /\ OutboxInv' /\ PaceInv /\ ClearInv /\ [JournalNext]_jvars => ClearInv'
  BY StepClear
<1> QED
  BY <1>1, InitClear, OutboxInductive, PaceInductive, PTL DEF JournalSpec

(* What is logged was expressed on the log before it, for any number of submissions and
   of entries of others, and whatever is lost, fails or stops, unless an edit was made
   in the moment a resync does not see, or a cancellation or a late answer lets a
   submission overtake it. *)
THEOREM AlwaysRebasedUnlessUnseen == JournalSpec => []RebasedUnlessUnseen
<1>1. ClearInv => RebasedUnlessUnseen
  BY DEF ClearInv, LogClear, Coped, RebasedUnlessUnseen
<1> QED
  BY <1>1, ClearInductive, PTL

=============================================================================
