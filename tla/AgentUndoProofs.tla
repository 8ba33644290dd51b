-------------------------- MODULE AgentUndoProofs --------------------------
(***************************************************************************)
(* Safety of two components that change one artifact among other writers:  *)
(* agent sessions, for any contents, keys and bounds, and collaborative    *)
(* undo, for any cells and bounds.                                         *)
(*                                                                         *)
(* Agent sessions: that a key is written under once needs to know which    *)
(* call holds it (KeyInv), and that a value is replaced only by its        *)
(* successor needs that calls run one after the other (SerialInv).         *)
(*                                                                         *)
(* Undo: that the sheet follows the log needs what the log, the outbox,    *)
(* the tail and the plan under way know of each other (LogInv, BoxInv,     *)
(* TailInv, RunInv), which of the client's batches are past (PastInv) and, *)
(* cell by cell, that the sheet is the log with them on top (SheetInv).    *)
(***************************************************************************)
EXTENDS AgentSession, UndoJournal, TLAPS, SequenceTheorems

-----------------------------------------------------------------------------
(***************************************************************************)
(* Agent sessions                                                          *)
(***************************************************************************)

Phases == {"waiting", "validated", "confirming", "writing", "checking",
           "verifying", "done", "failed"}
Looked == {"confirming", "writing", "checking"}

CallSet ==
  [request : Requests, key : AgentKeys, phase : Phases,
   identity : Contents \cup {Unread}, shown : Contents \cup {Unread}]

TypeInv ==
  /\ content \in Contents
  /\ calls \in Seq(CallSet)
  /\ DOMAIN commits \subseteq AgentKeys
  /\ kind \in ArtifactKinds
  /\ writes \in Seq([n : Nat, on : Contents])

(* A call that may still write, or has written, holds its key. *)
Wrote(i) == \E w \in 1..Len(writes) : writes[w].n = i

KeyInv ==
  \A i \in 1..Len(calls) :
    calls[i].phase # "failed" \/ Wrote(i) =>
      calls[i].key \in DOMAIN commits /\ commits[calls[i].key] = i

(* A call writes once, late, and on what was planned and shown. *)
WriteInv ==
  \A w \in 1..Len(writes) :
    /\ writes[w].n \in 1..Len(calls)
    /\ calls[writes[w].n].phase \in {"checking", "verifying", "done", "failed"}
    /\ writes[w].on = calls[writes[w].n].request.base
    /\ NeedsConfirmation(calls[writes[w].n]) =>
         calls[writes[w].n].shown = writes[w].on
    /\ \A v \in 1..Len(writes) : writes[v].n = writes[w].n => v = w

ReviewInv ==
  \A i \in 1..Len(calls) :
    /\ calls[i].phase \in Looked => calls[i].identity = calls[i].request.base
    /\ calls[i].phase = "writing" /\ NeedsConfirmation(calls[i]) =>
         calls[i].shown = calls[i].identity

SerialInv ==
  \A i \in 1..Len(calls) : calls[i].phase \notin {"waiting", "failed"} => Turn(i)

(* Nothing replaces a value between the last look and the adoption. *)
ValueInv ==
  kind = "value" =>
    \A i \in 1..Len(calls) :
      calls[i].phase \in Looked => calls[i].identity = content

IInv == TypeInv /\ KeyInv /\ WriteInv /\ ReviewInv /\ SerialInv /\ ValueInv

-----------------------------------------------------------------------------
(* What a step of one call changes. *)

(* Call i moves on; the others stay as they are. *)
Moves(i) ==
  /\ calls' \in Seq(CallSet)
  /\ Len(calls') = Len(calls)
  /\ \A k \in 1..Len(calls) : k # i => calls'[k] = calls[k]
  /\ calls'[i].request = calls[i].request
  /\ calls'[i].key = calls[i].key

LEMMA CallFields ==
  ASSUME TypeInv, NEW i \in 1..Len(calls)
  PROVE  calls[i] \in CallSet
BY DEF TypeInv

LEMMA ToMoves ==
  ASSUME TypeInv, NEW i \in 1..Len(calls), NEW phase \in Phases, To(i, phase)
  PROVE  /\ Moves(i)
         /\ calls'[i].phase = phase
         /\ calls'[i].identity = calls[i].identity
         /\ calls'[i].shown = calls[i].shown
<1> DEFINE call == [calls[i] EXCEPT !.phase = phase]
<1>1. call \in CallSet
  BY CallFields DEF CallSet
<1>2. calls' = [calls EXCEPT ![i] = call]
  BY DEF To, TypeInv
<1>3. /\ call.request = calls[i].request /\ call.key = calls[i].key
      /\ call.phase = phase
      /\ call.identity = calls[i].identity /\ call.shown = calls[i].shown
  BY CallFields DEF CallSet
<1> HIDE DEF call
<1>4. /\ calls' \in Seq(CallSet) /\ Len(calls') = Len(calls) /\ calls'[i] = call
      /\ \A k \in 1..Len(calls) : k # i => calls'[k] = calls[k]
  BY <1>1, <1>2 DEF TypeInv
<1> QED
  BY <1>3, <1>4 DEF Moves

(* A call that fails before its write frees its key, and only its own. *)
Running == {"waiting", "validated", "confirming", "writing", "checking"}

LEMMA FailMoves ==
  ASSUME IInv, NEW i \in 1..Len(calls), calls[i].phase \in Running, Fail(i)
  PROVE  /\ Moves(i)
         /\ calls'[i].phase = "failed"
         /\ UNCHANGED <<content, kind, writes>>
         /\ DOMAIN commits' \subseteq AgentKeys
         /\ KeyInv'
<1>1. /\ Moves(i) /\ calls'[i].phase = "failed"
      /\ UNCHANGED <<content, kind, writes>>
  BY ToMoves DEF IInv, Fail, Phases
<1>2. CASE calls[i].phase \in {"writing", "checking"}
  <2>1. commits' = commits
    BY <1>2 DEF Fail, Forget
  <2>2. calls[i].phase # "failed"
    BY <1>2
  <2> QED
    BY <1>1, <2>1, <2>2 DEF IInv, TypeInv, KeyInv, Moves, Wrote
<1>3. CASE calls[i].phase \notin {"writing", "checking"}
  <2>1. commits' = [k \in DOMAIN commits \ {calls[i].key} |-> commits[k]]
    BY <1>3 DEF Fail, Forget
  <2>2. ~Wrote(i)
    BY <1>3 DEF IInv, WriteInv, Wrote, Running
  <2>3. calls[i].key \in DOMAIN commits /\ commits[calls[i].key] = i
    BY DEF IInv, KeyInv, Running
  <2>4. ASSUME NEW k \in 1..Len(calls), calls'[k].phase # "failed" \/ Wrote(k)'
        PROVE  calls'[k].key \in DOMAIN commits' /\ commits'[calls'[k].key] = k
    <3>1. k # i
      BY <1>1, <2>2, <2>4 DEF Wrote
    <3>2. calls'[k] = calls[k] /\ (calls[k].phase # "failed" \/ Wrote(k))
      BY <1>1, <2>4, <3>1 DEF Moves, Wrote
    <3>3. calls[k].key \in DOMAIN commits /\ commits[calls[k].key] = k
      BY <3>2 DEF IInv, KeyInv
    <3> QED
      BY <2>1, <2>3, <3>1, <3>2, <3>3
  <2> QED
    BY <1>1, <2>1, <2>4 DEF IInv, TypeInv, KeyInv, Moves
<1> QED
  BY <1>1, <1>2, <1>3

LEMMA LookMoves ==
  ASSUME TypeInv, NEW i \in 1..Len(calls), RequireCurrent(i), Current(i)
  PROVE  /\ Moves(i)
         /\ calls'[i].phase =
              IF NeedsConfirmation(calls[i]) THEN "confirming" ELSE "writing"
         /\ calls'[i].identity = content
         /\ content = calls[i].request.base
         /\ UNCHANGED <<content, commits, kind, writes>>
<1> DEFINE phase == IF NeedsConfirmation(calls[i]) THEN "confirming" ELSE "writing"
           call == [calls[i] EXCEPT !.identity = content, !.phase = phase]
<1>1. calls[i] \in CallSet /\ content \in Contents /\ phase \in Phases
  BY CallFields DEF TypeInv, Phases
<1>2. calls' = [calls EXCEPT ![i] = call]
  BY DEF RequireCurrent, TypeInv
<1> HIDE DEF phase
<1>3. /\ call \in CallSet
      /\ call.request = calls[i].request /\ call.key = calls[i].key
      /\ call.phase = phase /\ call.identity = content
  BY <1>1 DEF CallSet
<1> HIDE DEF call
<1>4. /\ calls' \in Seq(CallSet) /\ Len(calls') = Len(calls) /\ calls'[i] = call
      /\ \A k \in 1..Len(calls) : k # i => calls'[k] = calls[k]
  BY <1>2, <1>3 DEF TypeInv
<1> QED
  BY <1>3, <1>4 DEF Moves, RequireCurrent, Current, phase

LEMMA ConfirmMoves ==
  ASSUME TypeInv, NEW i \in 1..Len(calls), Confirm(i)
  PROVE  /\ Moves(i)
         /\ calls'[i].phase = "writing"
         /\ calls'[i].identity = calls[i].identity
         /\ calls'[i].shown = calls[i].identity
         /\ UNCHANGED <<content, commits, kind, writes>>
<1> DEFINE call == [calls[i] EXCEPT !.shown = calls[i].identity, !.phase = "writing"]
<1>1. calls' = [calls EXCEPT ![i] = call]
  BY DEF Confirm, TypeInv
<1>2. /\ call \in CallSet
      /\ call.request = calls[i].request /\ call.key = calls[i].key
      /\ call.phase = "writing" /\ call.identity = calls[i].identity
      /\ call.shown = calls[i].identity
  BY CallFields DEF CallSet, Phases
<1> HIDE DEF call
<1>3. /\ calls' \in Seq(CallSet) /\ Len(calls') = Len(calls) /\ calls'[i] = call
      /\ \A k \in 1..Len(calls) : k # i => calls'[k] = calls[k]
  BY <1>1, <1>2 DEF TypeInv
<1> QED
  BY <1>2, <1>3 DEF Moves, Confirm

-----------------------------------------------------------------------------
(* What every step of a call keeps. *)

LEMMA SerialKept ==
  ASSUME IInv, NEW i \in 1..Len(calls), Moves(i),
         calls[i].phase \in Running \cup {"verifying"},
         calls'[i].phase = "failed" \/ Turn(i)
  PROVE  SerialInv'
<1>1. SUFFICES ASSUME NEW k \in 1..Len(calls),
                      calls'[k].phase \notin {"waiting", "failed"},
                      NEW j \in 1..(k - 1)
               PROVE  Settled(calls'[j])
  BY DEF SerialInv, Turn, Moves
<1>2. j \in 1..Len(calls) /\ j # k
  BY DEF IInv, TypeInv
<1>3. CASE k = i
  BY <1>1, <1>2, <1>3 DEF Moves, Turn
<1>4. CASE k # i
  <2>1. calls'[k] = calls[k]
    BY <1>4 DEF Moves
  <2>2. Turn(k)
    BY <1>1, <2>1 DEF IInv, SerialInv
  <2>3. Settled(calls[j])
    BY <2>2 DEF Turn
  <2>4. j # i
    BY <2>3 DEF Settled, Running
  <2> QED
    BY <1>2, <2>3, <2>4 DEF Moves
<1> QED
  BY <1>3, <1>4

LEMMA WritesKept ==
  ASSUME IInv, NEW i \in 1..Len(calls), Moves(i), UNCHANGED writes,
         calls[i].phase \in {"checking", "verifying"} =>
           /\ calls'[i].phase \in {"verifying", "done", "failed"}
           /\ calls'[i].shown = calls[i].shown,
         calls[i].phase \in Running \cup {"verifying"}
  PROVE  WriteInv'
<1>1. SUFFICES ASSUME NEW w \in 1..Len(writes)
               PROVE  /\ calls'[writes[w].n].phase \in
                           {"checking", "verifying", "done", "failed"}
                      /\ writes[w].on = calls'[writes[w].n].request.base
                      /\ NeedsConfirmation(calls'[writes[w].n]) =>
                           calls'[writes[w].n].shown = writes[w].on
  BY DEF IInv, WriteInv, Moves
<1> DEFINE n == writes[w].n
<1>2. /\ n \in 1..Len(calls)
      /\ calls[n].phase \in {"checking", "verifying", "done", "failed"}
      /\ writes[w].on = calls[n].request.base
      /\ NeedsConfirmation(calls[n]) => calls[n].shown = writes[w].on
  BY DEF IInv, WriteInv
<1>3. CASE n = i
  <2>1. calls[i].phase \in {"checking", "verifying"}
    BY <1>2, <1>3 DEF Running
  <2> QED
    BY <1>2, <1>3, <2>1 DEF Moves, NeedsConfirmation
<1>4. CASE n # i
  BY <1>2, <1>4 DEF Moves
<1> QED
  BY <1>3, <1>4

LEMMA KeysKept ==
  ASSUME IInv, NEW i \in 1..Len(calls), Moves(i), UNCHANGED <<commits, writes>>,
         calls[i].phase # "failed"
  PROVE  KeyInv'
BY DEF IInv, KeyInv, Wrote, Moves

(* What was looked up stays so for the calls that do not move. *)
LEMMA ReviewKept ==
  ASSUME IInv, NEW i \in 1..Len(calls), Moves(i),
         /\ calls'[i].phase \in Looked => calls'[i].identity = calls'[i].request.base
         /\ calls'[i].phase = "writing" /\ NeedsConfirmation(calls'[i]) =>
              calls'[i].shown = calls'[i].identity
  PROVE  ReviewInv'
BY DEF IInv, ReviewInv, Moves

LEMMA ValueKept ==
  ASSUME IInv, NEW i \in 1..Len(calls), Moves(i), UNCHANGED <<content, kind>>,
         kind = "value" /\ calls'[i].phase \in Looked => calls'[i].identity = content
  PROVE  ValueInv'
BY DEF IInv, ValueInv, Moves

-----------------------------------------------------------------------------
(* The steps. *)

LEMMA InitIInv == AgentInit => IInv
<1> SUFFICES ASSUME AgentInit PROVE IInv
  OBVIOUS
<1>1. TypeInv
  BY DEF AgentInit, TypeInv
<1>2. Len(calls) = 0 /\ Len(writes) = 0
  BY DEF AgentInit
<1> QED
  BY <1>1, <1>2 DEF IInv, KeyInv, WriteInv, ReviewInv, SerialInv, ValueInv

LEMMA FailStep ==
  ASSUME IInv, NEW i \in 1..Len(calls), calls[i].phase \in Running, Fail(i)
  PROVE  IInv'
<1>1. /\ Moves(i) /\ calls'[i].phase = "failed"
      /\ UNCHANGED <<content, kind, writes>>
      /\ DOMAIN commits' \subseteq AgentKeys
      /\ KeyInv'
  BY FailMoves
<1>2. calls'[i].shown = calls[i].shown
  BY ToMoves DEF IInv, Fail, Phases
<1>3. TypeInv'
  BY <1>1 DEF IInv, TypeInv, Moves
<1>4. WriteInv'
  BY <1>1, <1>2, WritesKept
<1>5. ReviewInv' /\ SerialInv' /\ ValueInv'
  BY <1>1, ReviewKept, SerialKept, ValueKept DEF Looked
<1> QED
  BY <1>1, <1>3, <1>4, <1>5 DEF IInv

(* A step that moves a call on and touches nothing else but maybe what it shows. *)
LEMMA OnwardStep ==
  ASSUME IInv, NEW i \in 1..Len(calls), Moves(i),
         UNCHANGED <<content, commits, kind, writes>>,
         calls[i].phase \in Running \cup {"verifying"}, Turn(i),
         calls[i].phase \in {"checking", "verifying"} =>
           /\ calls'[i].phase \in {"verifying", "done"}
           /\ calls'[i].shown = calls[i].shown,
         /\ calls'[i].phase \in Looked => calls'[i].identity = calls'[i].request.base
         /\ calls'[i].phase = "writing" /\ NeedsConfirmation(calls'[i]) =>
              calls'[i].shown = calls'[i].identity
         /\ kind = "value" /\ calls'[i].phase \in Looked => calls'[i].identity = content
  PROVE  IInv'
<1>1. TypeInv'
  BY DEF IInv, TypeInv, Moves
<1>2. KeyInv' /\ WriteInv'
  BY KeysKept, WritesKept DEF Running
<1>3. ReviewInv' /\ SerialInv' /\ ValueInv'
  BY ReviewKept, SerialKept, ValueKept
<1> QED
  BY <1>1, <1>2, <1>3 DEF IInv

LEMMA BeginStep ==
  ASSUME IInv, NEW i \in 1..Len(calls), Begin(i)
  PROVE  IInv'
<1>1. calls[i].phase = "waiting" /\ Turn(i)
  BY DEF Begin
<1>2. CASE Fail(i)
  BY <1>1, <1>2, FailStep DEF Running
<1>3. CASE ~Fail(i)
  <2>1. To(i, "validated") /\ UNCHANGED <<content, commits, kind, writes>>
    BY <1>3 DEF Begin
  <2>2. Moves(i) /\ calls'[i].phase = "validated"
    BY <2>1, ToMoves DEF IInv, Phases
  <2> QED
    BY <1>1, <2>1, <2>2, OnwardStep DEF Running, Looked
<1> QED
  BY <1>2, <1>3

LEMMA LookStep ==
  ASSUME IInv, NEW i \in 1..Len(calls), RequireCurrent(i)
  PROVE  IInv'
<1>1. calls[i].phase = "validated" /\ Turn(i)
  BY DEF RequireCurrent, IInv, SerialInv
<1>2. CASE Current(i)
  <2>1. /\ Moves(i)
        /\ calls'[i].phase =
             IF NeedsConfirmation(calls[i]) THEN "confirming" ELSE "writing"
        /\ calls'[i].identity = content
        /\ content = calls[i].request.base
        /\ UNCHANGED <<content, commits, kind, writes>>
    BY <1>2, LookMoves DEF IInv
  <2>2. calls'[i].phase = "writing" => ~NeedsConfirmation(calls'[i])
    BY <2>1 DEF Moves, NeedsConfirmation
  <2> QED
    BY <1>1, <2>1, <2>2, OnwardStep DEF Running, Moves
<1>3. CASE ~Current(i)
  BY <1>1, <1>3, FailStep DEF RequireCurrent, Running
<1> QED
  BY <1>2, <1>3

LEMMA ConfirmStep ==
  ASSUME IInv, NEW i \in 1..Len(calls), Confirm(i)
  PROVE  IInv'
<1>1. calls[i].phase = "confirming" /\ Turn(i)
  BY DEF Confirm, IInv, SerialInv
<1>2. /\ Moves(i) /\ calls'[i].phase = "writing"
      /\ calls'[i].identity = calls[i].identity
      /\ calls'[i].shown = calls[i].identity
      /\ UNCHANGED <<content, commits, kind, writes>>
  BY ConfirmMoves DEF IInv
<1>3. /\ calls[i].identity = calls[i].request.base
      /\ kind = "value" => calls[i].identity = content
  BY <1>1 DEF IInv, ReviewInv, ValueInv, Looked
<1> QED
  BY <1>1, <1>2, <1>3, OnwardStep DEF Running, Moves

(* Nobody is between its look and its adoption while i is. *)
LEMMA OneLooks ==
  ASSUME IInv, NEW i \in 1..Len(calls), calls[i].phase \in Looked,
         NEW k \in 1..Len(calls), calls[k].phase \in Looked
  PROVE  k = i
<1>1. Turn(i) /\ Turn(k)
  BY DEF IInv, SerialInv, Looked
<1>2. ~Settled(calls[i]) /\ ~Settled(calls[k])
  BY DEF Settled, Looked
<1>3. i \notin 1..(k - 1) /\ k \notin 1..(i - 1)
  BY <1>1, <1>2 DEF Turn
<1> QED
  BY <1>3 DEF IInv, TypeInv

LEMMA WriteStep ==
  ASSUME IInv, NEW i \in 1..Len(calls), Write(i)
  PROVE  IInv'
<1>1. calls[i].phase = "writing" /\ Turn(i)
  BY DEF Write, IInv, SerialInv
<1>2. CASE content # calls[i].identity
  BY <1>1, <1>2, FailStep DEF Write, Running
<1>3. CASE content = calls[i].identity
  <2>1. /\ content' = IF kind = "host" THEN calls[i].request.to ELSE content
        /\ writes' = Append(writes, [n |-> i, on |-> content])
        /\ UNCHANGED <<commits, kind>>
        /\ To(i, "checking")
    BY <1>3 DEF Write
  <2>2. /\ Moves(i) /\ calls'[i].phase = "checking"
        /\ calls'[i].identity = calls[i].identity
        /\ calls'[i].shown = calls[i].shown
    BY <2>1, ToMoves DEF IInv, Phases
  <2>3. /\ calls[i].identity = calls[i].request.base
        /\ NeedsConfirmation(calls[i]) => calls[i].shown = calls[i].identity
    BY <1>1 DEF IInv, ReviewInv, Looked
  <2>4. /\ Len(writes') = Len(writes) + 1
        /\ writes'[Len(writes) + 1] = [n |-> i, on |-> content]
        /\ \A w \in 1..Len(writes) : writes'[w] = writes[w]
        /\ writes' \in Seq([n : Nat, on : Contents])
        /\ Len(writes) \in Nat
    BY <2>1 DEF IInv, TypeInv
  <2>5. TypeInv'
    <3>1. calls[i].request.to \in Contents
      BY CallFields DEF IInv, CallSet, Requests
    <3> QED
      BY <2>1, <2>2, <2>4, <3>1 DEF IInv, TypeInv, Moves
  <2>6. KeyInv'
    <3>1. ASSUME NEW k \in 1..Len(calls), k # i, Wrote(k)'
          PROVE  Wrote(k)
      <4>1. PICK w \in 1..Len(writes') : writes'[w].n = k
        BY <3>1 DEF Wrote
      <4>2. w # Len(writes) + 1
        BY <2>4, <3>1, <4>1
      <4> QED
        BY <2>4, <4>1, <4>2 DEF Wrote
    <3>2. calls[i].phase # "failed"
      BY <1>1
    <3> QED
      BY <2>1, <2>2, <3>1, <3>2 DEF IInv, KeyInv, Moves
  <2>7. WriteInv'
    <3>1. ASSUME NEW w \in 1..Len(writes)
          PROVE  writes[w].n \in 1..Len(calls) /\ writes[w].n # i
      BY <1>1 DEF IInv, WriteInv
    <3>2. ASSUME NEW w \in 1..Len(writes)
          PROVE  calls'[writes[w].n] = calls[writes[w].n]
      BY <2>2, <3>1 DEF Moves
    <3>3. ASSUME NEW w \in 1..Len(writes')
          PROVE  /\ writes'[w].n \in 1..Len(calls')
                 /\ calls'[writes'[w].n].phase \in
                      {"checking", "verifying", "done", "failed"}
                 /\ writes'[w].on = calls'[writes'[w].n].request.base
                 /\ NeedsConfirmation(calls'[writes'[w].n]) =>
                      calls'[writes'[w].n].shown = writes'[w].on
      <4>1. CASE w = Len(writes) + 1
        BY <1>3, <2>2, <2>3, <2>4, <4>1 DEF Moves, NeedsConfirmation
      <4>2. CASE w \in 1..Len(writes)
        <5>1. writes'[w] = writes[w] /\ writes[w].n \in 1..Len(calls')
          BY <2>2, <2>4, <3>1, <4>2 DEF Moves
        <5>2. calls'[writes'[w].n] = calls[writes[w].n]
          BY <3>2, <4>2, <5>1
        <5> QED
          BY <4>2, <5>1, <5>2 DEF IInv, WriteInv, NeedsConfirmation
      <4> QED
        BY <2>4, <4>1, <4>2
    <3>4. ASSUME NEW v \in 1..Len(writes'), NEW w \in 1..Len(writes'),
                 writes'[v].n = writes'[w].n
          PROVE  v = w
      <4>1. CASE v \in 1..Len(writes) /\ w \in 1..Len(writes)
        BY <2>4, <3>4, <4>1 DEF IInv, WriteInv
      <4>2. CASE v = Len(writes) + 1 \/ w = Len(writes) + 1
        BY <2>4, <3>1, <3>4, <4>2, SMTT(30)
      <4> QED
        BY <2>4, <4>1, <4>2
    <3> QED
      BY <3>3, <3>4 DEF WriteInv, NeedsConfirmation
  <2>8. ReviewInv' /\ SerialInv'
    BY <1>1, <2>2, <2>3, ReviewKept, SerialKept DEF Moves, Running
  <2>9. ValueInv'
    <3>1. CASE kind = "value"
      BY <1>3, <2>1, <2>2, <3>1, ValueKept
    <3>2. CASE kind # "value"
      BY <2>1, <3>2 DEF ValueInv
    <3> QED
      BY <3>1, <3>2
  <2> QED
    BY <2>5, <2>6, <2>7, <2>8, <2>9 DEF IInv
<1> QED
  BY <1>2, <1>3

LEMMA CheckStep ==
  ASSUME IInv, NEW i \in 1..Len(calls), Check(i)
  PROVE  IInv'
<1>1. calls[i].phase = "checking" /\ Turn(i)
  BY DEF Check, IInv, SerialInv
<1>2. CASE Fail(i)
  BY <1>1, <1>2, FailStep DEF Running
<1>3. CASE ~Fail(i)
  <2>1. /\ content' = Observed(i) /\ UNCHANGED <<commits, kind, writes>>
        /\ To(i, "verifying")
    BY <1>3 DEF Check
  <2>2. /\ Moves(i) /\ calls'[i].phase = "verifying"
        /\ calls'[i].shown = calls[i].shown
    BY <2>1, ToMoves DEF IInv, Phases
  <2>3. TypeInv'
    <3>1. calls[i].request.to \in Contents
      BY CallFields DEF IInv, CallSet, Requests
    <3> QED
      BY <2>1, <2>2, <3>1 DEF IInv, TypeInv, Moves, Observed
  <2>4. KeyInv' /\ WriteInv'
    BY <1>1, <2>1, <2>2, KeysKept, WritesKept DEF Running
  <2>5. ReviewInv' /\ SerialInv'
    BY <1>1, <2>2, ReviewKept, SerialKept DEF Running, Looked
  <2>6. ASSUME NEW k \in 1..Len(calls) PROVE calls'[k].phase \notin Looked
    <3>1. CASE k = i
      BY <2>2, <3>1 DEF Looked
    <3>2. CASE k # i
      BY <1>1, <2>2, <3>2, OneLooks DEF Moves, Looked
    <3> QED
      BY <3>1, <3>2
  <2>7. ValueInv'
    BY <2>2, <2>6 DEF ValueInv, Moves
  <2> QED
    BY <2>3, <2>4, <2>5, <2>7 DEF IInv
<1> QED
  BY <1>2, <1>3

LEMMA VerifiedStep ==
  ASSUME IInv, NEW i \in 1..Len(calls), Verified(i)
  PROVE  IInv'
<1>1. /\ calls[i].phase = "verifying" /\ Turn(i)
      /\ UNCHANGED <<content, commits, kind, writes>>
  BY DEF Verified, IInv, SerialInv
<1>2. Moves(i) /\ calls'[i].phase = "done" /\ calls'[i].shown = calls[i].shown
  BY ToMoves DEF Verified, IInv, Phases
<1> QED
  BY <1>1, <1>2, OnwardStep DEF Looked

LEMMA OtherStep ==
  ASSUME IInv, NEW to \in Contents, OtherWrites(to)
  PROVE  IInv'
<1>1. kind = "host" /\ content' = to /\ UNCHANGED <<calls, commits, kind, writes>>
  BY DEF OtherWrites
<1> QED
  BY <1>1 DEF IInv, TypeInv, KeyInv, Wrote, WriteInv, ReviewInv, SerialInv, Turn, ValueInv

LEMMA CallStep ==
  ASSUME IInv, NEW request \in Requests, NEW key \in AgentKeys, Call(request, key)
  PROVE  IInv'
<1> DEFINE n == Len(calls) + 1
           call == [request |-> request, key |-> key, phase |-> "waiting",
                    identity |-> Unread, shown |-> Unread]
<1>1. /\ key \notin DOMAIN commits
      /\ calls' = Append(calls, call)
      /\ commits' = [k \in DOMAIN commits \cup {key} |->
                       IF k = key THEN n ELSE commits[k]]
      /\ UNCHANGED <<content, kind, writes>>
  BY DEF Call
<1>2. /\ call \in CallSet /\ call.key = key /\ call.phase = "waiting"
  BY DEF CallSet, Phases
<1> HIDE DEF call
<1>3. /\ calls' \in Seq(CallSet) /\ Len(calls') = n /\ calls'[n] = call
      /\ Len(calls) \in Nat
      /\ \A k \in 1..Len(calls) : k # n /\ calls'[k] = calls[k]
      /\ 1..Len(calls') = 1..Len(calls) \cup {n}
  BY <1>1, <1>2 DEF IInv, TypeInv
<1>4. TypeInv'
  BY <1>1, <1>3 DEF IInv, TypeInv
<1>5. KeyInv'
  <2>1. ASSUME NEW k \in 1..Len(calls), calls'[k].phase # "failed" \/ Wrote(k)'
        PROVE  calls'[k].key \in DOMAIN commits' /\ commits'[calls'[k].key] = k
    <3>1. calls[k].key \in DOMAIN commits /\ commits[calls[k].key] = k
      BY <1>1, <1>3, <2>1 DEF IInv, KeyInv, Wrote
    <3> QED
      BY <1>1, <1>3, <3>1
  <2>2. calls'[n].key \in DOMAIN commits' /\ commits'[calls'[n].key] = n
    BY <1>1, <1>2, <1>3
  <2> QED
    BY <1>3, <2>1, <2>2 DEF KeyInv
<1>6. WriteInv'
  BY <1>1, <1>3 DEF IInv, WriteInv
<1>7. ReviewInv' /\ ValueInv'
  BY <1>1, <1>2, <1>3 DEF IInv, ReviewInv, ValueInv, Looked
<1>8. SerialInv'
  <2>1. ASSUME NEW k \in 1..Len(calls), calls[k].phase \notin {"waiting", "failed"},
               NEW j \in 1..(k - 1)
        PROVE  Settled(calls'[j])
    BY <1>3, <2>1 DEF IInv, SerialInv, Turn
  <2> QED
    BY <1>2, <1>3, <2>1 DEF SerialInv, Turn
<1> QED
  BY <1>4, <1>5, <1>6, <1>7, <1>8 DEF IInv

-----------------------------------------------------------------------------
LEMMA IInvStep == IInv /\ [AgentNext]_avars => IInv'
<1> SUFFICES ASSUME IInv, [AgentNext]_avars PROVE IInv'
  OBVIOUS
<1>1. ASSUME NEW request \in Requests, NEW key \in AgentKeys, Call(request, key)
      PROVE  IInv'
  BY <1>1, CallStep
<1>2. ASSUME NEW i \in 1..Len(calls), Steps(i)
      PROVE  IInv'
  <2>1. CASE Deny(i)
    BY <2>1, FailStep DEF Deny, Running
  <2> QED
    BY <1>2, <2>1, BeginStep, LookStep, ConfirmStep, WriteStep, CheckStep, VerifiedStep
       DEF Steps
<1>3. ASSUME NEW i \in 1..Len(calls), CallFails(i)
      PROVE  IInv'
  BY <1>3, FailStep DEF CallFails, Running
<1>4. ASSUME NEW to \in Contents, OtherWrites(to)
      PROVE  IInv'
  BY <1>4, OtherStep
<1>5. CASE UNCHANGED avars
  BY <1>5 DEF avars, IInv, TypeInv, KeyInv, Wrote, WriteInv, ReviewInv, SerialInv,
              Turn, ValueInv
<1> QED
  BY <1>1, <1>2, <1>3, <1>4, <1>5 DEF AgentNext

(* IInv holds in every reachable state of every session. *)
THEOREM SessionInductive == AgentSpec => []IInv
BY InitIInv, IInvStep, PTL DEF AgentSpec

(* Under one key at most one write is made, whatever failed and was repeated
   (commit, restore). *)
THEOREM KeyWritesOnce == AgentSpec => []WrittenOnce
<1>1. IInv => WrittenOnce
  <2> SUFFICES ASSUME IInv, NEW i \in 1..Len(writes), NEW k \in 1..Len(writes),
                      calls[writes[i].n].key = calls[writes[k].n].key
               PROVE  i = k
    BY DEF WrittenOnce
  <2>1. /\ writes[i].n \in 1..Len(calls) /\ writes[k].n \in 1..Len(calls)
        /\ Wrote(writes[i].n) /\ Wrote(writes[k].n)
    BY DEF IInv, WriteInv, Wrote
  <2>2. writes[i].n = writes[k].n
    BY <2>1 DEF IInv, KeyInv
  <2> QED
    BY <2>2 DEF IInv, WriteInv
<1> QED
  BY SessionInductive, <1>1, PTL

(* What is written is written on the revision that was planned on and shown,
   whoever writes in between (#requireCurrent, #confirmMutation). *)
THEOREM WritesAsReviewed == AgentSpec => []WrittenAsReviewed
<1>1. IInv => WrittenAsReviewed
  BY DEF IInv, WriteInv, WrittenAsReviewed
<1> QED
  BY SessionInductive, <1>1, PTL

(* A value is replaced only by one that was made of it (#serialize). *)
THEOREM AlwaysAdoptsSuccessor == AgentSpec => AdoptsSuccessor
<1>1. IInv /\ [AgentNext]_avars =>
        [\A i \in 1..Len(calls) :
           Check(i) /\ kind = "value" /\ calls'[i].phase = "verifying" =>
             calls[i].identity = content]_avars
  BY DEF IInv, ValueInv, Looked, Check
<1> QED
  BY SessionInductive, <1>1, PTL DEF AgentSpec, AdoptsSuccessor

-----------------------------------------------------------------------------
(***************************************************************************)
(* Collaborative undo                                                      *)
(***************************************************************************)

Playing == INSTANCE Folding WITH Op <- Played
Acking == INSTANCE Folding WITH Op <- IfAck
Recording == INSTANCE Folding WITH Op <- IfRecord
Keeping == INSTANCE Folding WITH Op <- IfAhead
Dropping == INSTANCE Folding WITH Op <- IfNotPlanned
Unlogging == INSTANCE Folding WITH Op <- IfUnlogged

-----------------------------------------------------------------------------
(* These are folds, as Folding has them. *)
LEMMA PlayedIsFold ==
  ASSUME NEW d, NEW s
  PROVE  FoldLeft(Played, d, s) = Playing!Folded(d, s)
BY DEF Playing!Folded, FoldLeft, MapThenFoldSet, Playing!FoldLeft,
       Playing!MapThenFoldSet, Playing!Max, Max

LEMMA AckIsFold ==
  ASSUME NEW d, NEW s
  PROVE  FoldLeft(IfAck, d, s) = Acking!Folded(d, s)
BY DEF Acking!Folded, FoldLeft, MapThenFoldSet, Acking!FoldLeft,
       Acking!MapThenFoldSet, Acking!Max, Max

LEMMA RecordIsFold ==
  ASSUME NEW d, NEW s
  PROVE  FoldLeft(IfRecord, d, s) = Recording!Folded(d, s)
BY DEF Recording!Folded, FoldLeft, MapThenFoldSet, Recording!FoldLeft,
       Recording!MapThenFoldSet, Recording!Max, Max

LEMMA AheadIsFold ==
  ASSUME NEW d, NEW s
  PROVE  FoldLeft(IfAhead, d, s) = Keeping!Folded(d, s)
BY DEF Keeping!Folded, FoldLeft, MapThenFoldSet, Keeping!FoldLeft,
       Keeping!MapThenFoldSet, Keeping!Max, Max

LEMMA NotPlannedIsFold ==
  ASSUME NEW d, NEW s
  PROVE  FoldLeft(IfNotPlanned, d, s) = Dropping!Folded(d, s)
BY DEF Dropping!Folded, FoldLeft, MapThenFoldSet, Dropping!FoldLeft,
       Dropping!MapThenFoldSet, Dropping!Max, Max

LEMMA UnloggedIsFold ==
  ASSUME NEW d, NEW s
  PROVE  FoldLeft(IfUnlogged, d, s) = Unlogging!Folded(d, s)
BY DEF Unlogging!Folded, FoldLeft, MapThenFoldSet, Unlogging!FoldLeft,
       Unlogging!MapThenFoldSet, Unlogging!Max, Max

-----------------------------------------------------------------------------
(* Playing batches onto a sheet. *)
Play(sheet, batches) == FoldLeft(Played, sheet, batches)
Cells(batches) == UNION {DOMAIN batches[i].ops : i \in DOMAIN batches}

LEMMA PlayNothing ==
  ASSUME NEW d
  PROVE  Play(d, <<>>) = d
BY PlayedIsFold, Playing!FoldEmpty DEF Play

LEMMA PlayMore ==
  ASSUME NEW S, NEW s \in Seq(S), NEW x \in S, NEW d
  PROVE  Play(d, Append(s, x)) = Over(Play(d, s), x.ops)
<1>1. Playing!Folded(d, Append(s, x)) = Played(Playing!Folded(d, s), x)
  BY Playing!FoldAppend
<1>2. Play(d, Append(s, x)) = Played(Play(d, s), x)
  BY <1>1, PlayedIsFold DEF Play
<1> QED
  BY <1>2 DEF Played

LEMMA PlayBoth ==
  ASSUME NEW S, NEW s \in Seq(S), NEW t \in Seq(S), NEW d
  PROVE  Play(d, s \o t) = Play(Play(d, s), t)
BY PlayedIsFold, Playing!FoldConcat DEF Play

LEMMA PlayFirst ==
  ASSUME NEW S, NEW s \in Seq(S), s # <<>>, NEW d
  PROVE  Play(d, s) = Play(Over(d, Head(s).ops), Tail(s))
<1>1. Playing!Folded(d, s) = Playing!Folded(Played(d, Head(s)), Tail(s))
  BY Playing!FoldHead
<1>2. Play(d, s) = Play(Played(d, Head(s)), Tail(s))
  BY <1>1, PlayedIsFold DEF Play
<1> QED
  BY <1>2 DEF Played

LEMMA PlaySame ==
  ASSUME NEW n \in Nat, NEW s, NEW r, NEW d, DOMAIN s = 1..n, DOMAIN r = 1..n,
         \A k \in 1..n : s[k].ops = r[k].ops
  PROVE  Play(d, s) = Play(d, r)
<1>1. \A k \in 1..n : \A x : Played(x, s[k]) = Played(x, r[k])
  BY DEF Played
<1>2. Playing!Folded(d, s) = Playing!Folded(d, r)
  BY <1>1, Playing!FoldSame
<1> QED
  BY <1>2, PlayedIsFold DEF Play

(* What is written first is covered by what is written later. *)
LEMMA OverUnder ==
  ASSUME NEW d, NEW ops, NEW later, NEW covered
  PROVE  Over(Over(d, Outside(ops, covered)), later)
           = Over(Over(d, later), Outside(ops, covered \cup DOMAIN later))
<1>1. ASSUME NEW cell \in UndoCells
      PROVE  Over(Over(d, Outside(ops, covered)), later)[cell]
               = Over(Over(d, later), Outside(ops, covered \cup DOMAIN later))[cell]
  BY DEF Over, Outside
<1> QED
  BY <1>1 DEF Over

LEMMA OverFree ==
  ASSUME NEW d, NEW ops, NEW covered, covered \cap DOMAIN ops = {}
  PROVE  Over(d, Outside(ops, covered)) = Over(d, ops)
BY DEF Over, Outside

LEMMA PlayUnder ==
  ASSUME NEW S, NEW s \in Seq(S), NEW d, NEW ops
  PROVE  Play(Over(d, ops), s) = Over(Play(d, s), Outside(ops, Cells(s)))
<1> DEFINE n == Len(s)
           under(k) == UNION {DOMAIN s[i].ops : i \in 1..k}
<1>1. n \in Nat /\ DOMAIN s = 1..n /\ under(n) = Cells(s)
  BY DEF Cells
<1>2. under(0) = {}
  OBVIOUS
<1>3. ASSUME NEW k \in Nat PROVE under(k + 1) = under(k) \cup DOMAIN s[k + 1].ops
  <2>1. 1..(k + 1) = 1..k \cup {k + 1}
    OBVIOUS
  <2> QED
    BY <2>1, Zenon
<1> HIDE DEF n, under
<1>4. PICK b : Playing!IsChain(b, n, Over(d, ops), s) /\ Play(Over(d, ops), s) = b[n]
  BY <1>1, PlayedIsFold, Playing!FoldChain DEF Play
<1>5. PICK c : Playing!IsChain(c, n, d, s) /\ Play(d, s) = c[n]
  BY <1>1, PlayedIsFold, Playing!FoldChain DEF Play
<1> DEFINE I == {k \in 0..n : b[k] = Over(c[k], Outside(ops, under(k)))}
<1>6. 0 \in I
  <2>1. b[0] = Over(d, ops) /\ c[0] = d
    BY <1>4, <1>5 DEF Playing!IsChain
  <2>2. Over(d, Outside(ops, {})) = Over(d, ops)
    BY OverFree
  <2>3. b[0] = Over(c[0], Outside(ops, under(0)))
    BY <1>2, <2>1, <2>2
  <2>4. 0 \in 0..n
    BY <1>1
  <2> QED
    BY <2>3, <2>4
<1>7. ASSUME NEW k \in 0..(n - 1), k \in I PROVE k + 1 \in I
  <2>1. b[k + 1] = Over(b[k], s[k + 1].ops) /\ c[k + 1] = Over(c[k], s[k + 1].ops)
    BY <1>4, <1>5 DEF Playing!IsChain, Played
  <2>2. b[k] = Over(c[k], Outside(ops, under(k)))
    BY <1>7
  <2>3. Over(Over(c[k], Outside(ops, under(k))), s[k + 1].ops)
          = Over(Over(c[k], s[k + 1].ops),
                 Outside(ops, under(k) \cup DOMAIN s[k + 1].ops))
    BY OverUnder
  <2>4. under(k + 1) = under(k) \cup DOMAIN s[k + 1].ops
    BY <1>3
  <2>5. b[k + 1] = Over(c[k + 1], Outside(ops, under(k + 1)))
    BY <2>1, <2>2, <2>3, <2>4
  <2>6. k + 1 \in 0..n
    BY <1>1
  <2> QED
    BY <2>5, <2>6
<1>8. 0..n \subseteq I
  <2> HIDE DEF I
  <2> QED
    BY <1>1, <1>6, <1>7, Playing!Induction
<1>9. b[n] = Over(c[n], Outside(ops, under(n)))
  BY <1>1, <1>8
<1> QED
  BY <1>1, <1>4, <1>5, <1>9

-----------------------------------------------------------------------------
(* What waits in the tail. *)
AcksOf(tail) == FoldLeft(IfAck, <<>>, tail)
RecordsOf(tail) == FoldLeft(IfRecord, <<>>, tail)

LEMMA NoTail == AcksOf(<<>>) = <<>> /\ RecordsOf(<<>>) = <<>>
BY AckIsFold, RecordIsFold, Acking!FoldEmpty, Recording!FoldEmpty DEF AcksOf, RecordsOf

LEMMA AcksSplit ==
  ASSUME NEW S, NEW s \in Seq(S), NEW T,
         \A x \in S : x.op = "ack" => x.batch \in T, NEW d \in Seq(T)
  PROVE  /\ AcksOf(s) \in Seq(T)
         /\ FoldLeft(IfAck, d, s) = d \o AcksOf(s)
<1>1. \A x \in S : IfAck(<<>>, x) \in Seq(T)
  BY DEF IfAck
<1>2. ASSUME NEW x \in S, NEW q \in Seq(T) PROVE IfAck(q, x) = q \o IfAck(<<>>, x)
  <2>1. q \o <<>> = q
    OBVIOUS
  <2>2. x.op = "ack" => Append(q, x.batch) = q \o Append(<<>>, x.batch)
    OBVIOUS
  <2> QED
    BY <2>1, <2>2 DEF IfAck
<1>3. Acking!Folded(<<>>, s) \in Seq(T) /\ Acking!Folded(d, s) = d \o Acking!Folded(<<>>, s)
  BY <1>1, <1>2, Acking!FoldOnto
<1> QED
  BY <1>3, AckIsFold DEF AcksOf

LEMMA RecordsSplit ==
  ASSUME NEW S, NEW s \in Seq(S), NEW T,
         \A x \in S : x.op = "record" => x.batch \in T, NEW d \in Seq(T)
  PROVE  /\ RecordsOf(s) \in Seq(T)
         /\ FoldLeft(IfRecord, d, s) = d \o RecordsOf(s)
<1>1. \A x \in S : IfRecord(<<>>, x) \in Seq(T)
  BY DEF IfRecord
<1>2. ASSUME NEW x \in S, NEW q \in Seq(T) PROVE IfRecord(q, x) = q \o IfRecord(<<>>, x)
  <2>1. q \o <<>> = q
    OBVIOUS
  <2>2. x.op = "record" => Append(q, x.batch) = q \o Append(<<>>, x.batch)
    OBVIOUS
  <2> QED
    BY <2>1, <2>2 DEF IfRecord
<1>3. Recording!Folded(<<>>, s) \in Seq(T) /\ Recording!Folded(d, s) = d \o Recording!Folded(<<>>, s)
  BY <1>1, <1>2, Recording!FoldOnto
<1> QED
  BY <1>3, RecordIsFold DEF RecordsOf

-----------------------------------------------------------------------------
(* The invariant. *)
Sequence(s) == s \in Seq(Range(s))

(* Every entry the journal accepted has its own key; another client's has none. *)
LogInv ==
  /\ Sequence(serverLog)
  /\ fed \in 0..Len(serverLog)
  /\ keys \in Nat
  /\ \A n \in 1..Len(serverLog) : serverLog[n].key \in 0..keys
  /\ \A n, m \in 1..Len(serverLog) :
       serverLog[n].key = serverLog[m].key /\ serverLog[n].key # 0 => n = m

IsEntry(w) ==
  w = [key |-> w.key, id |-> w.id, kind |-> w.kind, ops |-> w.ops,
       held |-> w.held, tracked |-> w.tracked]

BoxInv ==
  /\ Sequence(outbox)
  /\ \A i \in 1..Len(outbox) : IsEntry(outbox[i])
  /\ \A i \in 1..Len(outbox) : outbox[i].key \in 1..keys
  /\ \A i, j \in 1..Len(outbox) : outbox[i].key = outbox[j].key => i = j
  /\ \A i \in 1..Len(outbox) : \A n \in 1..Len(serverLog) :
       serverLog[n].key = outbox[i].key => serverLog[n].ops = outbox[i].ops

IsCoord(s) ==
  s = [undo |-> s.undo, redo |-> s.redo, seq |-> s.seq, status |-> s.status,
       pending |-> s.pending, tail |-> s.tail, run |-> s.run]

(* What waits is what the server has, and no acknowledgement comes twice. *)
Due(o, log, box) ==
  /\ o.op = "ack" =>
       /\ o.seq \in 1..Len(log)
       /\ o.batch.key # 0
       /\ log[o.seq].key = o.batch.key
       /\ log[o.seq].ops = o.batch.ops
       /\ \A j \in 1..Len(box) : box[j].key # o.batch.key
  /\ o.op = "remote" =>
       /\ o.seq \in 1..Len(log)
       /\ log[o.seq].key = 0
       /\ o.batch = log[o.seq]

Waits(tail, log, box) ==
  /\ Sequence(tail)
  /\ \A i \in 1..Len(tail) : Due(tail[i], log, box)
  /\ \A i, j \in 1..Len(tail) :
       /\ tail[i].op = "ack" /\ tail[j].op = "ack"
       /\ tail[i].batch.key = tail[j].batch.key
       => i = j

TailInv ==
  /\ IsCoord(coord)
  /\ coord.seq \in 0..Len(serverLog)
  /\ Waits(coord.tail, serverLog, outbox)

(* What is planned and not executed is stored last, and held back. *)
Held(run, log, box) ==
  /\ "phase" \in DOMAIN run
  /\ run.phase \in {"kept", "refused"} =>
       /\ {"key", "ops"} \subseteq DOMAIN run
       /\ box # <<>>
       /\ box[Len(box)].key = run.key
       /\ box[Len(box)].ops = run.ops
       /\ box[Len(box)].held
       /\ \A n \in 1..Len(log) : log[n].key # run.key

RunInv == Held(coord.run, serverLog, outbox)

JournalInv == LogInv /\ BoxInv /\ TailInv /\ RunInv

(* What is outbound is past what was taken in, and acknowledged to somebody. *)
Past(tail, log, box, seq) ==
  /\ \A i \in 1..Len(tail) : tail[i].op = "ack" => tail[i].seq > seq
  /\ \A i \in 1..Len(box) :
       /\ box[i].tracked
       /\ \A n \in 1..Len(log) : log[n].key = box[i].key => n > seq

PastInv == Past(coord.tail, serverLog, outbox, coord.seq)

(* The stored batches that the host has executed. *)
Executed(run, box) == IF run.phase \in {"kept", "refused"} THEN Front(box) ELSE box

Sheet(tail, log, box, seq) ==
  Play(Play(Play(Play(Blank, SubSeq(log, 1, seq)), AcksOf(tail)), box), RecordsOf(tail))

SheetInv ==
  doc = Sheet(coord.tail, serverLog, Executed(coord.run, outbox), coord.seq)

Coped ==
  mishaps \cap {"edit overwritten", "unsaved", "restarted with entries",
                "withdrawn", "reset over edits"} = {}

UndoInv ==
  JournalInv /\ (Coped /\ coord.status = "active" => PastInv /\ SheetInv)


-----------------------------------------------------------------------------
(* What the coordinator's helpers leave alone. *)
Alike(s, t) ==
  IsCoord(t) /\ t.seq = s.seq /\ t.status = s.status /\ t.tail = s.tail /\ t.run = s.run

LEMMA StacksKeep ==
  ASSUME NEW s, NEW p, NEW q, IsCoord(s)
  PROVE  Alike(s, [s EXCEPT !.undo = p, !.redo = q])
<1> DEFINE t == [s EXCEPT !.undo = p]
<1>1. [s EXCEPT !.undo = p, !.redo = q] = [t EXCEPT !.redo = q]
  OBVIOUS
<1>2. IsCoord(t) /\ Alike(s, t)
  BY DEF IsCoord, Alike
<1> HIDE DEF t
<1>3. Alike(t, [t EXCEPT !.redo = q])
  BY <1>2 DEF IsCoord, Alike
<1> QED
  BY <1>1, <1>2, <1>3 DEF Alike

LEMMA RecordKeeps ==
  ASSUME NEW s, NEW entry, IsCoord(s)
  PROVE  Alike(s, Record(s, entry))
<1> DEFINE p == Append(s.undo, entry)
<1>1. Record(s, entry) = [s EXCEPT !.undo = p, !.redo = <<>>]
  BY DEF Record
<1> HIDE DEF p
<1>2. Alike(s, [s EXCEPT !.undo = p, !.redo = <<>>])
  BY StacksKeep
<1> QED
  BY <1>1, <1>2, Zenon

LEMMA CommitKeeps ==
  ASSUME NEW s, NEW direction, IsCoord(s)
  PROVE  Alike(s, Commit(s, direction))
BY DEF IsCoord, Alike, Commit

LEMMA RebaseKeeps ==
  ASSUME NEW s, NEW ops, IsCoord(s)
  PROVE  Alike(s, RebaseRemote(s, ops))
<1> DEFINE rebased(stack) ==
             [i \in DOMAIN stack |->
                RebaseEntry(stack[i], ops, stack[i].id \in DOMAIN s.pending)]
           p == rebased(s.undo)
           q == rebased(s.redo)
<1>1. RebaseRemote(s, ops) = [s EXCEPT !.undo = p, !.redo = q]
  BY DEF RebaseRemote
<1> HIDE DEF p, q
<1>2. Alike(s, [s EXCEPT !.undo = p, !.redo = q])
  BY StacksKeep
<1> QED
  BY <1>1, <1>2, Zenon

LEMMA TrackKeeps ==
  ASSUME NEW s, NEW id, IsCoord(s)
  PROVE  Alike(s, Track(s, id))
<1>1. \A p : Alike(s, [s EXCEPT !.pending = p])
  BY DEF IsCoord, Alike
<1> QED
  BY <1>1 DEF Track

LEMMA UntrackKeeps ==
  ASSUME NEW s, NEW id, IsCoord(s)
  PROVE  Alike(s, Untrack(s, id))
<1>1. \A p : Alike(s, [s EXCEPT !.pending = p])
  BY DEF IsCoord, Alike
<1> QED
  BY <1>1 DEF Untrack

LEMMA BlockKeeps ==
  ASSUME NEW s, IsCoord(s)
  PROVE  /\ IsCoord(Block(s)) /\ Block(s).status = "blocked"
         /\ Block(s).seq = s.seq /\ Block(s).tail = s.tail /\ Block(s).run = s.run
BY DEF IsCoord, Block

LEMMA QueuedKeeps ==
  ASSUME NEW s, NEW op, IsCoord(s)
  PROVE  /\ IsCoord(Queued(s, op)) /\ Queued(s, op).tail = Append(s.tail, op)
         /\ Queued(s, op).seq = s.seq /\ Queued(s, op).status = s.status
         /\ Queued(s, op).run = s.run
<1> DEFINE q == Append(s.tail, op)
<1>1. Queued(s, op) = [s EXCEPT !.tail = q]
  BY DEF Queued
<1> HIDE DEF q
<1>2. /\ IsCoord([s EXCEPT !.tail = q]) /\ [s EXCEPT !.tail = q].tail = q
      /\ [s EXCEPT !.tail = q].seq = s.seq /\ [s EXCEPT !.tail = q].status = s.status
      /\ [s EXCEPT !.tail = q].run = s.run
  BY DEF IsCoord
<1>3. /\ IsCoord(Queued(s, op)) /\ Queued(s, op).tail = q
      /\ Queued(s, op).seq = s.seq /\ Queued(s, op).status = s.status
      /\ Queued(s, op).run = s.run
  BY <1>1, <1>2
<1> QED
  BY <1>3 DEF q

LEMMA DequeuedKeeps ==
  ASSUME IsCoord(coord)
  PROVE  /\ IsCoord(Dequeued) /\ Dequeued.tail = Tail(coord.tail)
         /\ Dequeued.seq = coord.seq /\ Dequeued.status = coord.status
         /\ Dequeued.run = coord.run
<1> DEFINE q == Tail(coord.tail)
<1>1. Dequeued = [coord EXCEPT !.tail = q]
  BY DEF Dequeued
<1> HIDE DEF q
<1>2. /\ IsCoord(Dequeued) /\ Dequeued.tail = q
      /\ Dequeued.seq = coord.seq /\ Dequeued.status = coord.status
      /\ Dequeued.run = coord.run
  BY <1>1 DEF IsCoord
<1> QED
  BY <1>2 DEF q

LEMMA FreshIs ==
  ASSUME NEW seq
  PROVE  /\ IsCoord(Fresh(seq)) /\ Fresh(seq).tail = <<>> /\ Fresh(seq).seq = seq
         /\ Fresh(seq).status = "active" /\ Fresh(seq).run = Resting
BY DEF IsCoord, Fresh

(* After an acknowledgement the coordinator is one further, or blocked. *)
LEMMA AcknowledgeIs ==
  ASSUME NEW s, NEW id, NEW seq \in Nat, IsCoord(s), s.seq \in Nat
  PROVE  LET t == Acknowledge(s, id, seq)
         IN  /\ IsCoord(t) /\ t.tail = s.tail /\ t.run = s.run
             /\ \/ t.status = "blocked" /\ t.seq = s.seq
                \/ t.status = s.status /\ seq = s.seq + 1 /\ t.seq = seq
                \/ t.status = s.status /\ seq <= s.seq /\ t.seq = s.seq
<1> DEFINE u == Untrack(s, id)
<1>1. IsCoord(u) /\ u.seq = s.seq /\ u.status = s.status /\ u.tail = s.tail /\ u.run = s.run
  BY UntrackKeeps DEF Alike
<1> HIDE DEF u
<1>2. CASE seq > s.seq + 1
  <2>1. Acknowledge(s, id, seq) = Block(u)
    BY <1>2 DEF Acknowledge, u
  <2> QED
    BY <1>1, <2>1, BlockKeeps
<1>3. CASE seq = s.seq + 1
  <2>1. Acknowledge(s, id, seq) = [u EXCEPT !.seq = seq]
    BY <1>3 DEF Acknowledge, u
  <2> QED
    BY <1>1, <1>3, <2>1 DEF IsCoord
<1>4. CASE seq <= s.seq
  <2>1. Acknowledge(s, id, seq) = u
    BY <1>4 DEF Acknowledge, u
  <2> QED
    BY <1>1, <1>4, <2>1
<1> QED
  BY <1>2, <1>3, <1>4

-----------------------------------------------------------------------------
(* Sequences of whatever they hold. *)
LEMMA SequenceFacts ==
  ASSUME NEW s, Sequence(s), NEW x
  PROVE  /\ Sequence(Append(s, x))
         /\ Len(Append(s, x)) = Len(s) + 1 /\ Append(s, x)[Len(s) + 1] = x
         /\ \A i \in 1..Len(s) : Append(s, x)[i] = s[i]
         /\ Len(s) \in Nat /\ DOMAIN s = 1..Len(s)
         /\ s # <<>> =>
              /\ Sequence(Tail(s)) /\ Len(Tail(s)) = Len(s) - 1 /\ Head(s) = s[1]
              /\ \A i \in 1..Len(Tail(s)) : Tail(s)[i] = s[i + 1] /\ i + 1 \in 1..Len(s)
              /\ Len(s) >= 1
<1> DEFINE S == Range(s) \cup {x}
<1>1. s \in Seq(S) /\ x \in S
  BY DEF Sequence
<1> HIDE DEF S
<1>2. /\ Append(s, x) \in Seq(S) /\ Len(Append(s, x)) = Len(s) + 1
      /\ Append(s, x)[Len(s) + 1] = x
      /\ \A i \in 1..Len(s) : Append(s, x)[i] = s[i]
      /\ Len(s) \in Nat /\ DOMAIN s = 1..Len(s)
      /\ s # <<>> =>
           /\ Tail(s) \in Seq(S) /\ Len(Tail(s)) = Len(s) - 1 /\ Head(s) = s[1]
           /\ \A i \in 1..Len(Tail(s)) : Tail(s)[i] = s[i + 1] /\ i + 1 \in 1..Len(s)
           /\ Len(s) >= 1
  BY <1>1
<1>3. ASSUME NEW q \in Seq(S) PROVE Sequence(q)
  BY DEF Sequence, Range
<1> QED
  BY <1>2, <1>3

LEMMA EmptySequence == Sequence(<<>>) /\ Len(<<>>) = 0
BY DEF Sequence, Range

Batches(tail) == {tail[i].batch : i \in 1..Len(tail)}

LEMMA TailBatches ==
  ASSUME NEW tail, Sequence(tail)
  PROVE  AcksOf(tail) \in Seq(Batches(tail)) /\ RecordsOf(tail) \in Seq(Batches(tail))
<1> DEFINE S == Range(tail)
           T == Batches(tail)
<1>1. tail \in Seq(S) /\ <<>> \in Seq(T)
  BY DEF Sequence
<1>2. \A x \in S : x.batch \in T
  <2>1. DOMAIN tail = 1..Len(tail)
    BY SequenceFacts
  <2> QED
    BY <2>1 DEF Range, Batches
<1> HIDE DEF S, T
<1>3. AcksOf(tail) \in Seq(T)
  BY <1>1, <1>2, AcksSplit
<1>4. RecordsOf(tail) \in Seq(T)
  BY <1>1, <1>2, RecordsSplit
<1> QED
  BY <1>3, <1>4 DEF T

(* One more waits. *)
LEMMA QueueSplit ==
  ASSUME NEW tail, Sequence(tail), NEW o
  PROVE  /\ AcksOf(Append(tail, o)) =
              IF o.op = "ack" THEN Append(AcksOf(tail), o.batch) ELSE AcksOf(tail)
         /\ RecordsOf(Append(tail, o)) =
              IF o.op = "record" THEN Append(RecordsOf(tail), o.batch) ELSE RecordsOf(tail)
<1> DEFINE S == Range(tail) \cup {o}
<1>1. tail \in Seq(S) /\ o \in S
  BY DEF Sequence
<1> HIDE DEF S
<1>2. Acking!Folded(<<>>, Append(tail, o)) = IfAck(Acking!Folded(<<>>, tail), o)
  BY <1>1, Acking!FoldAppend
<1>3. Recording!Folded(<<>>, Append(tail, o)) = IfRecord(Recording!Folded(<<>>, tail), o)
  BY <1>1, Recording!FoldAppend
<1>4. AcksOf(Append(tail, o)) = IfAck(AcksOf(tail), o)
  BY <1>2, AckIsFold DEF AcksOf
<1>5. RecordsOf(Append(tail, o)) = IfRecord(RecordsOf(tail), o)
  BY <1>3, RecordIsFold DEF RecordsOf
<1> QED
  BY <1>4, <1>5 DEF IfAck, IfRecord

(* The first of what waits. *)
LEMMA TailSplit ==
  ASSUME NEW tail, Sequence(tail), tail # <<>>
  PROVE  /\ AcksOf(tail) = IF Head(tail).op = "ack"
                           THEN <<Head(tail).batch>> \o AcksOf(Tail(tail))
                           ELSE AcksOf(Tail(tail))
         /\ RecordsOf(tail) = IF Head(tail).op = "record"
                              THEN <<Head(tail).batch>> \o RecordsOf(Tail(tail))
                              ELSE RecordsOf(Tail(tail))
<1> DEFINE S == Range(tail)
           T == Batches(tail)
           o == Head(tail)
           r == Tail(tail)
<1>1. tail \in Seq(S) /\ o \in S /\ r \in Seq(S)
  BY DEF Sequence
<1>2. \A x \in S : x.batch \in T
  <2>1. DOMAIN tail = 1..Len(tail)
    BY SequenceFacts
  <2> QED
    BY <2>1 DEF Range, Batches
<1>3. <<>> \in Seq(T)
  OBVIOUS
<1>4. <<o.batch>> \in Seq(T)
  BY <1>1, <1>2
<1>5. Acking!Folded(<<>>, tail) = Acking!Folded(IfAck(<<>>, o), r)
  BY <1>1, Acking!FoldHead
<1>6. Recording!Folded(<<>>, tail) = Recording!Folded(IfRecord(<<>>, o), r)
  BY <1>1, Recording!FoldHead
<1> HIDE DEF S, T, o, r
<1>7. AcksOf(tail) = FoldLeft(IfAck, IfAck(<<>>, o), r)
  BY <1>5, AckIsFold DEF AcksOf
<1>8. RecordsOf(tail) = FoldLeft(IfRecord, IfRecord(<<>>, o), r)
  BY <1>6, RecordIsFold DEF RecordsOf
<1>9. FoldLeft(IfAck, <<o.batch>>, r) = <<o.batch>> \o AcksOf(r)
  BY <1>1, <1>2, <1>4, AcksSplit
<1>10. FoldLeft(IfRecord, <<o.batch>>, r) = <<o.batch>> \o RecordsOf(r)
  BY <1>1, <1>2, <1>4, RecordsSplit
<1>11. Append(<<>>, o.batch) = <<o.batch>>
  OBVIOUS
<1>12. AcksOf(tail) = IF o.op = "ack" THEN <<o.batch>> \o AcksOf(r) ELSE AcksOf(r)
  BY <1>7, <1>9, <1>11 DEF IfAck, AcksOf
<1>13. RecordsOf(tail) = IF o.op = "record" THEN <<o.batch>> \o RecordsOf(r) ELSE RecordsOf(r)
  BY <1>8, <1>10, <1>11 DEF IfRecord, RecordsOf
<1> QED
  BY <1>12, <1>13 DEF o, r

LEMMA PlayCons ==
  ASSUME NEW S, NEW s \in Seq(S), NEW x, NEW d
  PROVE  Play(d, <<x>> \o s) = Play(Over(d, x.ops), s)
<1> DEFINE T == S \cup {x}
           r == <<x>> \o s
<1>1. r \in Seq(T) /\ r # <<>> /\ Head(r) = x /\ Tail(r) = s
  OBVIOUS
<1> HIDE DEF T, r
<1>2. Play(d, r) = Play(Over(d, Head(r).ops), Tail(r))
  BY <1>1, PlayFirst
<1> QED
  BY <1>1, <1>2 DEF r

(* A shorter tail is no worse, and neither is a longer log. *)
LEMMA WaitsTail ==
  ASSUME NEW tail, NEW log, NEW box, Waits(tail, log, box), tail # <<>>
  PROVE  Waits(Tail(tail), log, box) /\ Due(Head(tail), log, box)
<1>1. Sequence(tail)
  BY DEF Waits
<1>2. /\ Sequence(Tail(tail)) /\ Len(Tail(tail)) = Len(tail) - 1 /\ Head(tail) = tail[1]
      /\ \A i \in 1..Len(Tail(tail)) : Tail(tail)[i] = tail[i + 1] /\ i + 1 \in 1..Len(tail)
      /\ Len(tail) >= 1 /\ Len(tail) \in Nat
  BY <1>1, SequenceFacts
<1>3. \A i \in 1..Len(Tail(tail)) : Due(Tail(tail)[i], log, box)
  BY <1>2 DEF Waits
<1>4. Due(Head(tail), log, box)
  BY <1>2 DEF Waits
<1>5. ASSUME NEW i \in 1..Len(Tail(tail)), NEW j \in 1..Len(Tail(tail)),
             Tail(tail)[i].op = "ack", Tail(tail)[j].op = "ack",
             Tail(tail)[i].batch.key = Tail(tail)[j].batch.key
      PROVE  i = j
  <2>1. i + 1 = j + 1
    BY <1>2, <1>5 DEF Waits
  <2> QED
    BY <1>2, <2>1
<1> QED
  BY <1>2, <1>3, <1>4, <1>5 DEF Waits

LEMMA WaitsMore ==
  ASSUME NEW tail, NEW log, NEW box, Waits(tail, log, box), NEW o, Due(o, log, box),
         o.op = "ack" =>
           \A i \in 1..Len(tail) : tail[i].op = "ack" => tail[i].batch.key # o.batch.key
  PROVE  Waits(Append(tail, o), log, box)
<1> DEFINE r == Append(tail, o)
<1>1. Sequence(tail)
  BY DEF Waits
<1>2. /\ Sequence(r) /\ Len(r) = Len(tail) + 1 /\ r[Len(tail) + 1] = o
      /\ \A i \in 1..Len(tail) : r[i] = tail[i]
      /\ Len(tail) \in Nat
  BY <1>1, SequenceFacts
<1> HIDE DEF r
<1>3. \A i \in 1..Len(r) : i \in 1..Len(tail) \/ i = Len(tail) + 1
  BY <1>2
<1>4. \A i \in 1..Len(r) : Due(r[i], log, box)
  BY <1>2, <1>3 DEF Waits
<1>5. ASSUME NEW i \in 1..Len(r), NEW j \in 1..Len(r),
             r[i].op = "ack", r[j].op = "ack", r[i].batch.key = r[j].batch.key
      PROVE  i = j
  BY <1>2, <1>3, <1>5 DEF Waits
<1> QED
  BY <1>2, <1>4, <1>5 DEF Waits, r

LEMMA WaitsLog ==
  ASSUME NEW tail, NEW log, NEW box, Waits(tail, log, box), Sequence(log), NEW e
  PROVE  Waits(tail, Append(log, e), box)
<1>1. /\ Len(Append(log, e)) = Len(log) + 1 /\ Len(log) \in Nat
      /\ \A i \in 1..Len(log) : Append(log, e)[i] = log[i]
  BY SequenceFacts
<1>2. \A o : Due(o, log, box) => Due(o, Append(log, e), box)
  BY <1>1 DEF Due
<1> QED
  BY <1>2 DEF Waits

(* What leaves the outbox is no concern, and what is new has a new key. *)
LEMMA WaitsBox ==
  ASSUME NEW tail, NEW log, NEW box, Waits(tail, log, box), NEW other,
         \A j \in 1..Len(other) :
           \/ \E i \in 1..Len(box) : other[j].key = box[i].key
           \/ \A n \in 1..Len(log) : log[n].key # other[j].key
  PROVE  Waits(tail, log, other)
<1>1. ASSUME NEW o, Due(o, log, box) PROVE Due(o, log, other)
  BY <1>1 DEF Due
<1> QED
  BY <1>1 DEF Waits

-----------------------------------------------------------------------------
(* The steps, first those that leave the log and the outbox alone. *)
LEMMA JournalStays ==
  ASSUME JournalInv, UNCHANGED <<serverLog, fed, outbox, keys>>,
         IsCoord(coord'), coord'.seq \in 0..Len(serverLog),
         Waits(coord'.tail, serverLog, outbox), Held(coord'.run, serverLog, outbox)
  PROVE  JournalInv'
<1>1. LogInv'
  BY DEF JournalInv, LogInv
<1>2. BoxInv'
  BY DEF JournalInv, BoxInv
<1>3. TailInv'
  BY DEF TailInv
<1>4. RunInv'
  BY DEF RunInv
<1> QED
  BY <1>1, <1>2, <1>3, <1>4 DEF JournalInv

LEMMA NotHeld == Held(Resting, serverLog, outbox)
BY DEF Held, Resting

LEMMA PastTail ==
  ASSUME NEW tail, NEW log, NEW box, NEW seq, Past(tail, log, box, seq),
         Sequence(tail), tail # <<>>
  PROVE  Past(Tail(tail), log, box, seq)
<1>1. \A i \in 1..Len(Tail(tail)) : Tail(tail)[i] = tail[i + 1] /\ i + 1 \in 1..Len(tail)
  BY SequenceFacts
<1> QED
  BY <1>1 DEF Past

LEMMA PastMore ==
  ASSUME NEW tail, NEW log, NEW box, NEW seq, Past(tail, log, box, seq),
         Sequence(tail), NEW o, o.op = "ack" => o.seq > seq
  PROVE  Past(Append(tail, o), log, box, seq)
<1>1. /\ Len(Append(tail, o)) = Len(tail) + 1 /\ Append(tail, o)[Len(tail) + 1] = o
      /\ \A i \in 1..Len(tail) : Append(tail, o)[i] = tail[i]
      /\ Len(tail) \in Nat
  BY SequenceFacts
<1>2. \A i \in 1..Len(Append(tail, o)) : i \in 1..Len(tail) \/ i = Len(tail) + 1
  BY <1>1
<1> QED
  BY <1>1, <1>2 DEF Past

LEMMA Parts ==
  ASSUME UndoInv
  PROVE  /\ JournalInv /\ LogInv /\ BoxInv /\ TailInv /\ RunInv
         /\ IsCoord(coord) /\ coord.seq \in 0..Len(serverLog) /\ coord.seq \in Nat
         /\ Sequence(coord.tail) /\ Sequence(outbox) /\ Sequence(serverLog)
         /\ Waits(coord.tail, serverLog, outbox) /\ Held(coord.run, serverLog, outbox)
         /\ Len(serverLog) \in Nat /\ Len(outbox) \in Nat /\ Len(coord.tail) \in Nat
         /\ keys \in Nat
<1>1. JournalInv
  BY DEF UndoInv
<1>2. LogInv /\ BoxInv /\ TailInv /\ RunInv
  BY <1>1 DEF JournalInv
<1>3. /\ IsCoord(coord) /\ coord.seq \in 0..Len(serverLog)
      /\ Waits(coord.tail, serverLog, outbox)
  BY <1>2 DEF TailInv
<1>4. Sequence(coord.tail) /\ Sequence(outbox) /\ Sequence(serverLog) /\ keys \in Nat
  BY <1>2, <1>3 DEF Waits, BoxInv, LogInv
<1>5. Len(serverLog) \in Nat /\ Len(outbox) \in Nat /\ Len(coord.tail) \in Nat
  BY <1>4, SequenceFacts
<1>6. coord.seq \in Nat
  BY <1>3, <1>5
<1> QED
  BY <1>1, <1>2, <1>3, <1>4, <1>5, <1>6 DEF RunInv

(* Whether all was coped with only gets worse. *)
LEMMA CopedBefore ==
  ASSUME mishaps \subseteq mishaps', Coped'
  PROVE  Coped
BY DEF Coped

LEMMA EditKeeps ==
  ASSUME UndoInv, NEW cells, Edit(cells)
  PROVE  UndoInv'
<1> DEFINE n == budget.edits
           ops == [cell \in cells |-> n]
           batch == [id |-> n, kind |-> "do", ops |-> ops]
           o == [op |-> "record", batch |-> batch,
                 inverse |-> [cell \in cells |-> doc[cell]]]
<1>1. /\ coord' = Queued(coord, o) /\ doc' = Over(doc, batch.ops) /\ o.op = "record"
      /\ o.batch = batch /\ coord.status = "active"
      /\ UNCHANGED <<serverLog, fed, outbox, keys, mishaps>>
  BY DEF Edit
<1> HIDE DEF o, batch
<1>2. /\ IsCoord(coord') /\ coord'.tail = Append(coord.tail, o) /\ coord'.seq = coord.seq
      /\ coord'.status = coord.status /\ coord'.run = coord.run
  BY <1>1, Parts, QueuedKeeps
<1>3. Due(o, serverLog, outbox)
  BY <1>1 DEF Due
<1>4. Waits(coord'.tail, serverLog, outbox)
  BY <1>1, <1>2, <1>3, Parts, WaitsMore
<1>5. JournalInv'
  BY <1>1, <1>2, <1>4, Parts, JournalStays
<1>6. ASSUME Coped', coord'.status = "active" PROVE PastInv' /\ SheetInv'
  <2>1. PastInv /\ SheetInv
    BY <1>1, <1>2, <1>6 DEF UndoInv, Coped
  <2>2. Past(coord'.tail, serverLog, outbox, coord.seq)
    BY <1>1, <1>2, <2>1, Parts, PastMore DEF PastInv
  <2>3. PastInv'
    BY <1>1, <1>2, <2>2 DEF PastInv
  <2>4. /\ AcksOf(coord'.tail) = AcksOf(coord.tail)
        /\ RecordsOf(coord'.tail) = Append(RecordsOf(coord.tail), batch)
    BY <1>1, <1>2, Parts, QueueSplit
  <2> DEFINE S == Batches(coord.tail) \cup {batch}
             x == Play(Play(Play(Blank, SubSeq(serverLog, 1, coord.seq)),
                            AcksOf(coord.tail)), Executed(coord.run, outbox))
  <2>5. RecordsOf(coord.tail) \in Seq(S) /\ batch \in S
    <3>1. RecordsOf(coord.tail) \in Seq(Batches(coord.tail))
      BY Parts, TailBatches
    <3> QED
      BY <3>1
  <2> HIDE DEF S, x
  <2>6. Play(x, Append(RecordsOf(coord.tail), batch))
          = Over(Play(x, RecordsOf(coord.tail)), batch.ops)
    BY <2>5, PlayMore
  <2>7. doc = Play(x, RecordsOf(coord.tail))
    BY <2>1 DEF SheetInv, Sheet, x
  <2>8. Sheet(coord'.tail, serverLog, Executed(coord.run, outbox), coord.seq)
          = Play(x, Append(RecordsOf(coord.tail), batch))
    BY <2>4 DEF Sheet, x
  <2>9. doc' = Sheet(coord'.tail, serverLog, Executed(coord.run, outbox), coord.seq)
    BY <1>1, <2>6, <2>7, <2>8
  <2>10. SheetInv'
    BY <1>1, <1>2, <2>9 DEF SheetInv
  <2> QED
    BY <2>3, <2>10
<1> QED
  BY <1>5, <1>6 DEF UndoInv

(* A step after which the sheet has what it had. *)
LEMMA QuietStep ==
  ASSUME UndoInv, UNCHANGED <<serverLog, fed, outbox, keys, doc>>, mishaps \subseteq mishaps',
         IsCoord(coord'), coord'.seq = coord.seq, coord'.status = coord.status,
         Waits(coord'.tail, serverLog, outbox), Held(coord'.run, serverLog, outbox),
         Executed(coord'.run, outbox) = Executed(coord.run, outbox),
         coord.status = "active" =>
           /\ Past(coord.tail, serverLog, outbox, coord.seq) =>
                Past(coord'.tail, serverLog, outbox, coord.seq)
           /\ AcksOf(coord'.tail) = AcksOf(coord.tail)
           /\ RecordsOf(coord'.tail) = RecordsOf(coord.tail)
  PROVE  UndoInv'
<1>1. JournalInv'
  BY Parts, JournalStays
<1>2. ASSUME Coped', coord'.status = "active" PROVE PastInv' /\ SheetInv'
  <2>1. PastInv /\ SheetInv
    BY <1>2, CopedBefore DEF UndoInv
  <2>2. PastInv'
    BY <1>2, <2>1 DEF PastInv
  <2>3. Sheet(coord'.tail, serverLog, Executed(coord'.run, outbox), coord'.seq)
          = Sheet(coord.tail, serverLog, Executed(coord.run, outbox), coord.seq)
    BY <1>2 DEF Sheet
  <2>4. SheetInv'
    BY <2>1, <2>3 DEF SheetInv
  <2> QED
    BY <2>2, <2>4
<1> QED
  BY <1>1, <1>2 DEF UndoInv

LEMMA BlockedStep ==
  ASSUME JournalInv', coord'.status = "blocked"
  PROVE  UndoInv'
BY DEF UndoInv

LEMMA AskKeeps ==
  ASSUME UndoInv, NEW direction \in {"undo", "redo"}, Ask(direction)
  PROVE  UndoInv'
<1> DEFINE o == [op |-> direction]
<1>1. /\ coord' = Queued(coord, o) /\ o.op \in {"undo", "redo"}
      /\ UNCHANGED <<serverLog, fed, outbox, doc, keys, mishaps>>
  BY DEF Ask
<1> HIDE DEF o
<1>2. /\ IsCoord(coord') /\ coord'.tail = Append(coord.tail, o) /\ coord'.seq = coord.seq
      /\ coord'.status = coord.status /\ coord'.run = coord.run
  BY <1>1, Parts, QueuedKeeps
<1>3. Due(o, serverLog, outbox)
  BY <1>1 DEF Due
<1>4. Waits(coord'.tail, serverLog, outbox)
  BY <1>1, <1>2, <1>3, Parts, WaitsMore
<1>5. /\ AcksOf(coord'.tail) = AcksOf(coord.tail)
      /\ RecordsOf(coord'.tail) = RecordsOf(coord.tail)
  BY <1>1, <1>2, Parts, QueueSplit
<1>6. Past(coord.tail, serverLog, outbox, coord.seq) =>
        Past(coord'.tail, serverLog, outbox, coord.seq)
  BY <1>1, <1>2, Parts, PastMore
<1> QED
  BY <1>1, <1>2, <1>4, <1>5, <1>6, Parts, QuietStep

(* The operation at the head is taken. *)
LEMMA Taken ==
  ASSUME UndoInv, NEW kinds, Starts(kinds)
  PROVE  /\ coord.run = Resting /\ coord.tail # <<>> /\ Operation.op \in kinds
         /\ Due(Operation, serverLog, outbox)
         /\ IsCoord(Dequeued) /\ Dequeued.tail = Tail(coord.tail)
         /\ Dequeued.seq = coord.seq /\ Dequeued.status = coord.status
         /\ Dequeued.run = Resting
         /\ Waits(Tail(coord.tail), serverLog, outbox)
         /\ Held(Resting, serverLog, outbox)
         /\ Executed(Resting, outbox) = outbox
<1>1. coord.run = Resting /\ coord.tail # <<>> /\ Operation.op \in kinds
  BY DEF Starts, Operation
<1>2. Waits(Tail(coord.tail), serverLog, outbox) /\ Due(Operation, serverLog, outbox)
  BY <1>1, Parts, WaitsTail DEF Operation
<1>3. Executed(Resting, outbox) = outbox
  BY DEF Executed, Resting
<1> QED
  BY <1>1, <1>2, <1>3, Parts, DequeuedKeeps, NotHeld

(* What is neither an acknowledgement nor a record leaves the tail. *)
LEMMA TakenQuietly ==
  ASSUME UndoInv, NEW kinds, Starts(kinds), Operation.op \notin {"ack", "record"}
  PROVE  /\ Past(coord.tail, serverLog, outbox, coord.seq) =>
              Past(Tail(coord.tail), serverLog, outbox, coord.seq)
         /\ AcksOf(Tail(coord.tail)) = AcksOf(coord.tail)
         /\ RecordsOf(Tail(coord.tail)) = RecordsOf(coord.tail)
<1>1. coord.tail # <<>>
  BY Taken
<1> QED
  BY <1>1, Parts, PastTail, TailSplit DEF Operation

LEMMA SkipKeeps ==
  ASSUME UndoInv, Skip
  PROVE  UndoInv'
<1> DEFINE kinds == {"record", "undo", "redo", "remote"}
<1>1. /\ Starts(kinds) /\ coord' = Dequeued
      /\ UNCHANGED <<serverLog, fed, outbox, doc, keys, mishaps>>
  BY DEF Skip
<1>2. coord.status = "blocked" \/ Operation.op \in {"undo", "redo", "remote"}
  BY DEF Skip
<1> HIDE DEF kinds
<1>3. CASE coord.status = "blocked"
  <2>1. coord'.status # "active"
    BY <1>1, <1>3, Taken
  <2> QED
    BY <1>1, <1>3, Parts, Taken, QuietStep
<1>4. CASE Operation.op \in {"undo", "redo", "remote"}
  <2>1. Operation.op \notin {"ack", "record"}
    BY <1>4
  <2> QED
    BY <1>1, <2>1, Parts, Taken, TakenQuietly, QuietStep
<1> QED
  BY <1>2, <1>3, <1>4

LEMMA RunUnsavedKeeps ==
  ASSUME UndoInv, RunUnsaved
  PROVE  UndoInv'
<1> DEFINE kinds == {"record", "undo", "redo"}
<1>1. /\ Starts(kinds) /\ coord' = Block(Dequeued)
      /\ UNCHANGED <<serverLog, fed, outbox, keys>>
  BY DEF RunUnsaved
<1> HIDE DEF kinds
<1>2. /\ IsCoord(coord') /\ coord'.status = "blocked" /\ coord'.seq = coord.seq
      /\ coord'.tail = Tail(coord.tail) /\ coord'.run = Resting
  BY <1>1, Taken, BlockKeeps
<1> QED
  BY <1>1, <1>2, Parts, Taken, JournalStays, BlockedStep

LEMMA RemoteRefusedKeeps ==
  ASSUME UndoInv, RemoteRefused
  PROVE  UndoInv'
<1> DEFINE kinds == {"remote"}
<1>1. /\ Starts(kinds) /\ coord' = Block(Dequeued)
      /\ UNCHANGED <<serverLog, fed, outbox, keys>>
  BY DEF RemoteRefused
<1> HIDE DEF kinds
<1>2. /\ IsCoord(coord') /\ coord'.status = "blocked" /\ coord'.seq = coord.seq
      /\ coord'.tail = Tail(coord.tail) /\ coord'.run = Resting
  BY <1>1, Taken, BlockKeeps
<1> QED
  BY <1>1, <1>2, Parts, Taken, JournalStays, BlockedStep

LEMMA HostRefusesKeeps ==
  ASSUME UndoInv, HostRefuses
  PROVE  UndoInv'
<1>1. /\ coord.run.phase = "kept" /\ coord' = [coord EXCEPT !.run.phase = "refused"]
      /\ mishaps \subseteq mishaps'
      /\ UNCHANGED <<serverLog, fed, outbox, doc, keys>>
  BY DEF HostRefuses
<1> DEFINE run == [coord.run EXCEPT !.phase = "refused"]
<1>2. coord' = [coord EXCEPT !.run = run]
  BY <1>1
<1>3. "phase" \in DOMAIN coord.run /\ {"key", "ops"} \subseteq DOMAIN coord.run
  BY <1>1, Parts DEF Held
<1>4. /\ run.phase = "refused" /\ {"phase", "key", "ops"} \subseteq DOMAIN run
      /\ run.key = coord.run.key /\ run.ops = coord.run.ops
  BY <1>3
<1> HIDE DEF run
<1>5. /\ IsCoord(coord') /\ coord'.tail = coord.tail /\ coord'.seq = coord.seq
      /\ coord'.status = coord.status /\ coord'.run = run
  BY <1>2, Parts DEF IsCoord
<1>6. Held(run, serverLog, outbox)
  BY <1>1, <1>4, Parts DEF Held
<1>7. Executed(run, outbox) = Executed(coord.run, outbox)
  BY <1>1, <1>4 DEF Executed
<1> QED
  BY <1>1, <1>5, <1>6, <1>7, Parts, QuietStep

(* The journal accepts one more entry. *)
LEMMA StoreKeeps ==
  ASSUME UndoInv, NEW e, UNCHANGED <<serverLog, fed>>, keys' = keys + 1,
         outbox' = Append(outbox, e), e.key = keys + 1, IsEntry(e), e.tracked,
         coord.tail # <<>>, IsCoord(coord'), coord'.seq = coord.seq,
         coord'.tail = Tail(coord.tail), "phase" \in DOMAIN coord'.run,
         coord'.run.phase \in {"kept", "refused"} =>
           /\ {"key", "ops"} \subseteq DOMAIN coord'.run
           /\ coord'.run.key = e.key /\ coord'.run.ops = e.ops /\ e.held
  PROVE  JournalInv' /\ (PastInv => PastInv')
<1> DEFINE b == Append(outbox, e)
<1>0. LogInv /\ BoxInv
  BY Parts
<1>1. /\ Sequence(b) /\ Len(b) = Len(outbox) + 1 /\ b[Len(outbox) + 1] = e
      /\ \A i \in 1..Len(outbox) : b[i] = outbox[i]
      /\ Len(outbox) \in Nat
  BY Parts, SequenceFacts
<1> HIDE DEF b
<1>2. \A i \in 1..Len(b) : i \in 1..Len(outbox) \/ i = Len(outbox) + 1
  BY <1>1
<1>3. \A n \in 1..Len(serverLog) : serverLog[n].key \in 0..keys
  BY <1>0 DEF LogInv
<1>4. \A n \in 1..Len(serverLog) : serverLog[n].key # e.key
  BY <1>3, Parts
<1>5. LogInv'
  <2>1. \A n \in 1..Len(serverLog) : serverLog[n].key \in 0..(keys + 1)
    BY <1>3, Parts
  <2>2. keys + 1 \in Nat
    BY Parts
  <2> QED
    BY <1>0, <2>1, <2>2 DEF LogInv
<1>6. BoxInv'
  <2>1. \A i \in 1..Len(b) : IsEntry(b[i])
    BY <1>0, <1>1, <1>2 DEF BoxInv
  <2>2. \A i \in 1..Len(outbox) : outbox[i].key \in 1..keys
    BY <1>0 DEF BoxInv
  <2>3. \A i \in 1..Len(b) : b[i].key \in 1..(keys + 1)
    BY <1>1, <1>2, <2>2, Parts
  <2>4. ASSUME NEW i \in 1..Len(b), NEW j \in 1..Len(b), b[i].key = b[j].key
        PROVE  i = j
    <3>1. \A k \in 1..Len(outbox) : outbox[k].key # keys + 1
      BY <2>2, Parts
    <3> QED
      BY <1>0, <1>1, <1>2, <2>4, <3>1 DEF BoxInv
  <2>5. \A i \in 1..Len(b) : \A n \in 1..Len(serverLog) :
           serverLog[n].key = b[i].key => serverLog[n].ops = b[i].ops
    BY <1>0, <1>1, <1>2, <1>4 DEF BoxInv
  <2>6. outbox' = b /\ serverLog' = serverLog /\ keys' = keys + 1
    BY DEF b
  <2> QED
    BY <1>1, <2>1, <2>3, <2>4, <2>5, <2>6 DEF BoxInv
<1>7. TailInv'
  <2>1. Waits(Tail(coord.tail), serverLog, outbox)
    BY Parts, WaitsTail
  <2>2. \A j \in 1..Len(b) :
           \/ \E i \in 1..Len(outbox) : b[j].key = outbox[i].key
           \/ \A n \in 1..Len(serverLog) : serverLog[n].key # b[j].key
    BY <1>1, <1>2, <1>4
  <2>3. Waits(Tail(coord.tail), serverLog, b)
    BY <2>1, <2>2, WaitsBox
  <2> QED
    BY <2>3, Parts DEF TailInv, b
<1>8. RunInv'
  <2>1. b # <<>>
    BY <1>1
  <2>2. Held(coord'.run, serverLog, b)
    BY <1>1, <1>4, <2>1 DEF Held
  <2> QED
    BY <2>2 DEF RunInv, b
<1>9. PastInv => PastInv'
  <2>1. ASSUME PastInv PROVE PastInv'
    <3>1. Past(Tail(coord.tail), serverLog, outbox, coord.seq)
      BY <2>1, Parts, PastTail DEF PastInv
    <3>2. Past(Tail(coord.tail), serverLog, b, coord.seq)
      BY <1>1, <1>2, <1>4, <3>1 DEF Past
    <3> QED
      BY <3>2 DEF PastInv, b
  <2> QED
    BY <2>1
<1> QED
  BY <1>5, <1>6, <1>7, <1>8, <1>9 DEF JournalInv

(* What is folded, up to the batches the host has executed. *)
LEMMA BoxSeq ==
  ASSUME UndoInv, NEW e
  PROVE  /\ outbox \in Seq(Range(outbox) \cup {e})
         /\ outbox # <<>> =>
              /\ Front(outbox) \in Seq(Range(outbox) \cup {e})
              /\ outbox = Append(Front(outbox), outbox[Len(outbox)])
              /\ outbox[Len(outbox)] \in Range(outbox) \cup {e}
         /\ Front(Append(outbox, e)) = outbox
<1> DEFINE S == Range(outbox) \cup {e}
<1>1. outbox \in Seq(S) /\ e \in S
  BY Parts DEF Sequence
<1> HIDE DEF S
<1>2. outbox # <<>> =>
        /\ SubSeq(outbox, 1, Len(outbox) - 1) \in Seq(S)
        /\ outbox = Append(SubSeq(outbox, 1, Len(outbox) - 1), outbox[Len(outbox)])
        /\ outbox[Len(outbox)] \in S
  BY <1>1
<1>3. Front(Append(outbox, e)) = outbox
  <2>1. Len(Append(outbox, e)) = Len(outbox) + 1 /\ Len(outbox) \in Nat
    BY <1>1
  <2>2. SubSeq(Append(outbox, e), 1, Len(outbox)) = outbox
    BY <1>1
  <2> QED
    BY <2>1, <2>2 DEF Front
<1> QED
  BY <1>1, <1>2, <1>3 DEF S, Front

LEMMA RunRecordKeeps ==
  ASSUME UndoInv, RunRecord
  PROVE  UndoInv'
<1> DEFINE kinds == {"record"}
           batch == Operation.batch
           entry == [id |-> batch.id, undo |-> Operation.inverse, redo |-> batch.ops]
           e == Stored(batch, keys + 1, FALSE)
<1>1. /\ Starts(kinds) /\ keys' = keys + 1 /\ outbox' = Append(outbox, e)
      /\ coord' = Track(Record(Dequeued, entry), batch.id)
      /\ coord.status = "active"
      /\ UNCHANGED <<serverLog, fed, doc, mishaps>>
  BY DEF RunRecord
<1>2. IsEntry(e) /\ e.key = keys + 1 /\ e.tracked /\ e.ops = batch.ops
  BY DEF Stored, IsEntry
<1>3. Operation.op = "record"
  BY <1>1, Taken
<1> HIDE DEF kinds, entry, e
<1>4. /\ IsCoord(coord') /\ coord'.seq = coord.seq /\ coord'.tail = Tail(coord.tail)
      /\ coord'.status = coord.status /\ coord'.run = Resting
  <2>1. Alike(Dequeued, Record(Dequeued, entry))
    BY <1>1, Taken, RecordKeeps
  <2>2. Alike(Record(Dequeued, entry), coord')
    BY <1>1, <2>1, TrackKeeps DEF Alike
  <2> QED
    BY <1>1, <2>1, <2>2, Taken DEF Alike
<1>5. JournalInv' /\ (PastInv => PastInv')
  <2>1. "phase" \in DOMAIN Resting /\ Resting.phase = "none"
    BY DEF Resting
  <2>2. coord.tail # <<>>
    BY <1>1, Taken
  <2> QED
    BY <1>1, <1>2, <1>4, <2>1, <2>2, StoreKeeps
<1>6. ASSUME Coped' PROVE PastInv' /\ SheetInv'
  <2>1. PastInv /\ SheetInv
    BY <1>1, <1>6 DEF UndoInv, Coped
  <2> DEFINE x == Play(Play(Blank, SubSeq(serverLog, 1, coord.seq)), AcksOf(coord.tail))
             r == RecordsOf(Tail(coord.tail))
             S == Range(outbox) \cup {e}
             T == Batches(Tail(coord.tail))
  <2>2. /\ AcksOf(Tail(coord.tail)) = AcksOf(coord.tail)
        /\ RecordsOf(coord.tail) = <<batch>> \o r
    BY <1>1, <1>3, Parts, Taken, TailSplit DEF Operation
  <2>3. r \in Seq(T)
    BY <1>1, Parts, Taken, TailBatches DEF Waits
  <2>4. outbox \in Seq(S) /\ e \in S
    BY BoxSeq
  <2>5. /\ Executed(coord.run, outbox) = outbox
        /\ Executed(coord'.run, Append(outbox, e)) = Append(outbox, e)
    BY <1>1, <1>4, Taken DEF Executed, Resting
  <2>6. doc = Play(Play(x, outbox), <<batch>> \o r)
    BY <2>1, <2>2, <2>5 DEF SheetInv, Sheet
  <2>7. Sheet(Tail(coord.tail), serverLog, Append(outbox, e), coord.seq)
          = Play(Play(x, Append(outbox, e)), r)
    BY <2>2 DEF Sheet
  <2> HIDE DEF x, r, S, T, batch
  <2>8. Play(x, Append(outbox, e)) = Over(Play(x, outbox), batch.ops)
    BY <1>2, <2>4, PlayMore
  <2>9. Play(Play(x, outbox), <<batch>> \o r) = Play(Over(Play(x, outbox), batch.ops), r)
    BY <2>3, PlayCons
  <2>10. doc' = Sheet(coord'.tail, serverLog, Executed(coord'.run, outbox'), coord'.seq)
    BY <1>1, <1>4, <2>5, <2>6, <2>7, <2>8, <2>9
  <2> QED
    BY <1>1, <1>5, <2>1, <2>10 DEF SheetInv
<1> QED
  BY <1>5, <1>6 DEF UndoInv

LEMMA RunPlanKeeps ==
  ASSUME UndoInv, RunPlan
  PROVE  UndoInv'
<1> DEFINE kinds == {"undo", "redo"}
           direction == Operation.op
           entry == Last(coord[direction])
           batch == [id |-> entry.id, kind |-> direction, ops |-> entry[direction]]
           e == Stored(batch, keys + 1, TRUE)
           run == Planned(batch, keys + 1)
<1>1. Starts(kinds) /\ UNCHANGED <<serverLog, fed, doc, mishaps>>
  BY DEF RunPlan
<1>2. \/ /\ coord' = Commit(Dequeued, direction)
         /\ UNCHANGED <<outbox, keys>>
      \/ /\ keys' = keys + 1 /\ outbox' = Append(outbox, e)
         /\ coord' = [Dequeued EXCEPT !.run = run]
  BY DEF RunPlan
<1>3. Operation.op \notin {"ack", "record"}
  BY <1>1, Taken
<1>4. IsEntry(e) /\ e.key = keys + 1 /\ e.tracked /\ e.held
  BY DEF Stored, IsEntry
<1>5. /\ {"phase", "key", "ops"} \subseteq DOMAIN run /\ run.phase = "kept"
      /\ run.key = e.key /\ run.ops = e.ops
  BY DEF Planned, Stored
<1> HIDE DEF kinds, direction, e, run
<1>6. CASE coord' = Commit(Dequeued, direction) /\ UNCHANGED <<outbox, keys>>
  <2>1. Alike(Dequeued, coord')
    BY <1>1, <1>6, Taken, CommitKeeps
  <2> QED
    BY <1>1, <1>3, <1>6, <2>1, Parts, Taken, TakenQuietly, QuietStep DEF Alike
<1>7. CASE /\ keys' = keys + 1 /\ outbox' = Append(outbox, e)
           /\ coord' = [Dequeued EXCEPT !.run = run]
  <2>1. /\ IsCoord(coord') /\ coord'.seq = coord.seq /\ coord'.tail = Tail(coord.tail)
        /\ coord'.status = coord.status /\ coord'.run = run
    <3>1. /\ IsCoord(coord') /\ coord'.seq = Dequeued.seq
          /\ coord'.tail = Dequeued.tail
          /\ coord'.status = Dequeued.status /\ coord'.run = run
      BY <1>1, <1>7, Taken DEF IsCoord
    <3> QED
      BY <1>1, <3>1, Taken
  <2>2. coord.tail # <<>>
    BY <1>1, Taken
  <2>3. JournalInv' /\ (PastInv => PastInv')
    BY <1>1, <1>4, <1>5, <1>7, <2>1, <2>2, StoreKeeps
  <2>4. ASSUME Coped', coord'.status = "active" PROVE PastInv' /\ SheetInv'
    <3>1. PastInv /\ SheetInv
      BY <1>1, <2>1, <2>4 DEF UndoInv, Coped
    <3>2. Executed(coord.run, outbox) = outbox /\ Executed(run, outbox') = outbox
      BY <1>1, <1>5, <1>7, BoxSeq, Taken DEF Executed
    <3>3. /\ AcksOf(coord'.tail) = AcksOf(coord.tail)
          /\ RecordsOf(coord'.tail) = RecordsOf(coord.tail)
      BY <1>1, <1>3, <2>1, TakenQuietly
    <3>4. Sheet(coord'.tail, serverLog, outbox, coord.seq)
            = Sheet(coord.tail, serverLog, outbox, coord.seq)
      BY <3>3 DEF Sheet
    <3> QED
      BY <1>1, <2>1, <2>3, <3>1, <3>2, <3>4 DEF SheetInv
  <2> QED
    BY <2>3, <2>4 DEF UndoInv
<1> QED
  BY <1>2, <1>6, <1>7

LEMMA ExecuteKeeps ==
  ASSUME UndoInv, Execute
  PROVE  UndoInv'
<1> DEFINE run == [coord.run EXCEPT !.phase = "executed"]
           ops == coord.run.ops
<1>1. /\ coord.run.phase = "kept" /\ doc' = Over(doc, ops)
      /\ coord' = [coord EXCEPT !.run = run] /\ mishaps \subseteq mishaps'
      /\ UNCHANGED <<serverLog, fed, outbox, keys>>
  BY DEF Execute
<1>2. Coped' => \A cell \in DOMAIN ops : Writing(Records, cell) = {}
  BY DEF Execute, Coped
<1>3. run.phase = "executed" /\ "phase" \in DOMAIN run
  BY Parts DEF Held
<1> HIDE DEF run
<1>4. /\ IsCoord(coord') /\ coord'.tail = coord.tail /\ coord'.seq = coord.seq
      /\ coord'.status = coord.status /\ coord'.run = run
  BY <1>1, Parts DEF IsCoord
<1>5. Held(run, serverLog, outbox)
  BY <1>3 DEF Held
<1>6. JournalInv'
  BY <1>1, <1>4, <1>5, Parts, JournalStays
<1>7. ASSUME Coped', coord'.status = "active" PROVE PastInv' /\ SheetInv'
  <2>1. PastInv /\ SheetInv
    BY <1>1, <1>4, <1>7, CopedBefore DEF UndoInv
  <2>2. PastInv'
    BY <1>1, <1>4, <2>1 DEF PastInv
  <2> DEFINE x == Play(Play(Blank, SubSeq(serverLog, 1, coord.seq)), AcksOf(coord.tail))
             y == Play(x, Front(outbox))
             r == RecordsOf(coord.tail)
             w == outbox[Len(outbox)]
             S == Range(outbox) \cup {w}
             T == Batches(coord.tail)
  <2>3. outbox # <<>> /\ w.ops = ops
    BY <1>1, Parts DEF Held
  <2>4. Front(outbox) \in Seq(S) /\ outbox = Append(Front(outbox), w) /\ w \in S
    BY <2>3, BoxSeq
  <2>5. r \in Seq(T)
    BY Parts, TailBatches
  <2>6. Cells(r) \cap DOMAIN ops = {}
    <3>1. \A cell \in DOMAIN ops : \A i \in DOMAIN r : cell \notin DOMAIN r[i].ops
      BY <1>2, <1>7 DEF Writing, Records, RecordsOf
    <3> QED
      BY <3>1 DEF Cells
  <2>7. Executed(coord.run, outbox) = Front(outbox) /\ Executed(run, outbox) = outbox
    BY <1>1, <1>3 DEF Executed
  <2>8. doc = Play(y, r)
    BY <2>1, <2>7 DEF SheetInv, Sheet
  <2>9. Sheet(coord.tail, serverLog, outbox, coord.seq) = Play(Play(x, outbox), r)
    BY DEF Sheet
  <2> HIDE DEF x, y, r, w, S, T, ops
  <2>10. Play(x, outbox) = Over(y, ops)
    <3>1. Play(x, Append(Front(outbox), w)) = Over(y, w.ops)
      BY <2>4, PlayMore DEF y
    <3> QED
      BY <2>3, <2>4, <3>1
  <2>11. Play(Over(y, ops), r) = Over(Play(y, r), Outside(ops, Cells(r)))
    BY <2>5, PlayUnder
  <2>12. Over(Play(y, r), Outside(ops, Cells(r))) = Over(Play(y, r), ops)
    BY <2>6, OverFree
  <2>13. doc' = Sheet(coord.tail, serverLog, outbox, coord.seq)
    BY <1>1, <2>8, <2>9, <2>10, <2>11, <2>12 DEF ops
  <2> QED
    BY <1>1, <1>4, <2>2, <2>7, <2>13 DEF SheetInv
<1> QED
  BY <1>6, <1>7 DEF UndoInv

LEMMA EntryReleased ==
  ASSUME NEW w, IsEntry(w), NEW held
  PROVE  /\ IsEntry([w EXCEPT !.held = held])
         /\ [w EXCEPT !.held = held].key = w.key
         /\ [w EXCEPT !.held = held].ops = w.ops
         /\ [w EXCEPT !.held = held].tracked = w.tracked
BY DEF IsEntry

LEMMA EntryAbandoned ==
  ASSUME NEW w, IsEntry(w), NEW held, NEW tracked
  PROVE  /\ IsEntry([w EXCEPT !.held = held, !.tracked = tracked])
         /\ [w EXCEPT !.held = held, !.tracked = tracked].key = w.key
         /\ [w EXCEPT !.held = held, !.tracked = tracked].ops = w.ops
<1> DEFINE v == [w EXCEPT !.held = held]
<1>1. [w EXCEPT !.held = held, !.tracked = tracked] = [v EXCEPT !.tracked = tracked]
  OBVIOUS
<1>2. IsEntry(v) /\ v.key = w.key /\ v.ops = w.ops
  BY EntryReleased
<1> HIDE DEF v
<1>3. /\ IsEntry([v EXCEPT !.tracked = tracked])
      /\ [v EXCEPT !.tracked = tracked].key = v.key
      /\ [v EXCEPT !.tracked = tracked].ops = v.ops
  BY <1>2 DEF IsEntry
<1> QED
  BY <1>1, <1>2, <1>3

(* The same entries, as far as their keys and operations go. *)
LEMMA SameEntries ==
  ASSUME BoxInv, UNCHANGED <<serverLog, keys>>, Sequence(outbox'),
         Len(outbox') = Len(outbox),
         \A i \in 1..Len(outbox) :
           /\ IsEntry(outbox'[i]) /\ outbox'[i].key = outbox[i].key
           /\ outbox'[i].ops = outbox[i].ops
  PROVE  BoxInv'
<1>1. \A i \in 1..Len(outbox') : IsEntry(outbox'[i]) /\ outbox'[i].key \in 1..keys
  BY DEF BoxInv
<1>2. \A i, j \in 1..Len(outbox') : outbox'[i].key = outbox'[j].key => i = j
  BY DEF BoxInv
<1>3. \A i \in 1..Len(outbox') : \A n \in 1..Len(serverLog) :
         serverLog[n].key = outbox'[i].key => serverLog[n].ops = outbox'[i].ops
  BY DEF BoxInv
<1>4. \A i \in 1..Len(outbox') : IsEntry(outbox[i])'
  BY <1>1 DEF IsEntry
<1> QED
  BY <1>1, <1>2, <1>3, <1>4 DEF BoxInv

LEMMA FinishPlanKeeps ==
  ASSUME UndoInv, FinishPlan
  PROVE  UndoInv'
<1> DEFINE s == [coord EXCEPT !.run = Resting]
           b == [i \in DOMAIN outbox |->
                   IF outbox[i].key = coord.run.key THEN [outbox[i] EXCEPT !.held = FALSE]
                   ELSE outbox[i]]
<1>1. /\ coord.run.phase = "executed" /\ outbox' = b
      /\ coord' = Track(Commit(s, coord.run.kind), coord.run.id)
      /\ UNCHANGED <<serverLog, fed, doc, keys, mishaps>>
  BY DEF FinishPlan
<1>0. LogInv /\ BoxInv
  BY Parts
<1>2. /\ IsCoord(s) /\ s.tail = coord.tail /\ s.seq = coord.seq
      /\ s.status = coord.status /\ s.run = Resting
  BY Parts DEF IsCoord
<1>3. /\ DOMAIN outbox = 1..Len(outbox) /\ Len(outbox) \in Nat
      /\ \A i \in 1..Len(outbox) : IsEntry(outbox[i])
  BY <1>0, Parts, SequenceFacts DEF BoxInv
<1>4. /\ DOMAIN b = 1..Len(outbox)
      /\ \A i \in 1..Len(outbox) :
           /\ IsEntry(b[i]) /\ b[i].key = outbox[i].key /\ b[i].ops = outbox[i].ops
           /\ b[i].tracked = outbox[i].tracked
  <2>2. ASSUME NEW i \in 1..Len(outbox)
        PROVE  /\ IsEntry(b[i]) /\ b[i].key = outbox[i].key /\ b[i].ops = outbox[i].ops
               /\ b[i].tracked = outbox[i].tracked
    <3> DEFINE w == outbox[i]
               v == [w EXCEPT !.held = FALSE]
    <3>1. b[i] = v \/ b[i] = w
      BY <1>3
    <3>2. IsEntry(w)
      BY <1>3
    <3> HIDE DEF w
    <3>3. IsEntry(v) /\ v.key = w.key /\ v.ops = w.ops /\ v.tracked = w.tracked
      BY <3>2, EntryReleased
    <3> HIDE DEF v
    <3> QED
      BY <3>1, <3>2, <3>3 DEF w
  <2> QED
    BY <1>3, <2>2
<1>5. b = [i \in 1..Len(outbox) |-> b[i]]
  BY <1>3
<1> HIDE DEF s, b
<1>6. Sequence(b) /\ Len(b) = Len(outbox)
  <2>1. b \in Seq(Range(b))
    BY <1>3, <1>4, <1>5 DEF Range
  <2> QED
    BY <1>3, <1>4, <2>1 DEF Sequence
<1>7. /\ IsCoord(coord') /\ coord'.seq = coord.seq /\ coord'.tail = coord.tail
      /\ coord'.status = coord.status /\ coord'.run = Resting
  <2>1. Alike(s, Commit(s, coord.run.kind))
    BY <1>2, CommitKeeps
  <2>2. Alike(Commit(s, coord.run.kind), coord')
    BY <1>1, <2>1, TrackKeeps DEF Alike
  <2> QED
    BY <1>2, <2>1, <2>2 DEF Alike
<1>8. JournalInv'
  <2>1. LogInv'
    BY <1>0, <1>1 DEF LogInv
  <2>2. BoxInv'
    BY <1>0, <1>1, <1>4, <1>6, SameEntries
  <2>3. Waits(coord.tail, serverLog, b)
    <3>1. \A j \in 1..Len(b) : \E i \in 1..Len(outbox) : b[j].key = outbox[i].key
      BY <1>4, <1>6
    <3> QED
      BY <3>1, Parts, WaitsBox
  <2>4. TailInv'
    BY <1>1, <1>7, <2>3, Parts DEF TailInv
  <2>5. RunInv'
    BY <1>7, NotHeld DEF RunInv, Held, Resting
  <2> QED
    BY <2>1, <2>2, <2>4, <2>5 DEF JournalInv
<1>9. ASSUME Coped', coord'.status = "active" PROVE PastInv' /\ SheetInv'
  <2>1. PastInv /\ SheetInv
    BY <1>1, <1>7, <1>9 DEF UndoInv, Coped
  <2>2. Past(coord.tail, serverLog, b, coord.seq)
    BY <1>4, <1>6, <2>1 DEF Past, PastInv
  <2>3. Executed(coord.run, outbox) = outbox /\ Executed(Resting, b) = b
    BY <1>1 DEF Executed, Resting
  <2> DEFINE x == Play(Play(Blank, SubSeq(serverLog, 1, coord.seq)), AcksOf(coord.tail))
  <2>4. Play(x, outbox) = Play(x, b)
    <3> HIDE DEF x
    <3> QED
      BY <1>3, <1>4, PlaySame
  <2>5. Sheet(coord.tail, serverLog, outbox, coord.seq)
          = Sheet(coord.tail, serverLog, b, coord.seq)
    BY <2>4 DEF Sheet
  <2> QED
    BY <1>1, <1>7, <2>1, <2>2, <2>3, <2>5 DEF SheetInv, PastInv
<1> QED
  BY <1>8, <1>9 DEF UndoInv

(* Taking back what is planned takes the last entry. *)
LEMMA Unplanned ==
  ASSUME UndoInv, coord.run.phase = "refused"
  PROVE  FoldLeft(IfNotPlanned, <<>>, outbox) = Front(outbox) /\ outbox # <<>>
<1> DEFINE w == outbox[Len(outbox)]
           f == Front(outbox)
           S == Range(outbox) \cup {w}
<1>1. outbox # <<>> /\ w.key = coord.run.key
  BY Parts DEF Held
<1>2. f \in Seq(S) /\ outbox = Append(f, w) /\ w \in S
  BY <1>1, BoxSeq
<1>3. /\ Len(f) = Len(outbox) - 1 /\ \A i \in 1..Len(f) : f[i] = outbox[i]
      /\ DOMAIN f = 1..Len(f) /\ Len(outbox) \in Nat
  <2>1. Len(outbox) = Len(f) + 1 /\ \A i \in 1..Len(f) : outbox[i] = f[i]
    <3> HIDE DEF f, w, S
    <3> QED
      BY <1>2
  <2>2. DOMAIN f = 1..Len(f) /\ Len(f) \in Nat
    BY <1>2
  <2> QED
    BY <2>1, <2>2, Parts
<1>4. \A i \in DOMAIN f : f[i].key # coord.run.key
  <2>1. ASSUME NEW i \in DOMAIN f PROVE f[i].key # coord.run.key
    <3>1. i \in 1..Len(outbox) /\ Len(outbox) \in 1..Len(outbox) /\ i # Len(outbox)
          /\ f[i] = outbox[i]
      BY <1>3
    <3>2. \A j, k \in 1..Len(outbox) : outbox[j].key = outbox[k].key => j = k
      BY Parts DEF BoxInv
    <3> QED
      BY <1>1, <3>1, <3>2
  <2> QED
    BY <2>1
<1> HIDE DEF f, w, S
<1>5. \A i \in DOMAIN f : \A q \in Seq(S) : IfNotPlanned(q, f[i]) = Append(q, f[i])
  BY <1>4 DEF IfNotPlanned
<1>6. Dropping!Folded(<<>>, f) = f
  BY <1>2, <1>5, Dropping!FoldAll
<1>7. Dropping!Folded(<<>>, Append(f, w)) = IfNotPlanned(Dropping!Folded(<<>>, f), w)
  BY <1>2, Dropping!FoldAppend
<1>8. Dropping!Folded(<<>>, outbox) = f
  <2>1. IfNotPlanned(f, w) = f
    BY <1>1 DEF IfNotPlanned, w
  <2> QED
    BY <1>2, <1>6, <1>7, <2>1
<1> QED
  BY <1>1, <1>8, NotPlannedIsFold DEF f

LEMMA CancelPlanKeeps ==
  ASSUME UndoInv, CancelPlan
  PROVE  UndoInv'
<1> DEFINE s == [coord EXCEPT !.run = Resting]
<1>1. /\ coord.run.phase = "refused" /\ coord' = Block(s)
      /\ UNCHANGED <<serverLog, fed, doc, keys>>
      /\ outbox' = FoldLeft(IfNotPlanned, <<>>, outbox) \/ outbox' = outbox
  BY DEF CancelPlan
<1>2. /\ IsCoord(s) /\ s.tail = coord.tail /\ s.seq = coord.seq /\ s.run = Resting
  BY Parts DEF IsCoord
<1> HIDE DEF s
<1>3. /\ IsCoord(coord') /\ coord'.seq = coord.seq /\ coord'.tail = coord.tail
      /\ coord'.status = "blocked" /\ coord'.run = Resting
  BY <1>1, <1>2, BlockKeeps
<1>4. CASE outbox' = outbox
  BY <1>1, <1>3, <1>4, Parts, NotHeld, JournalStays, BlockedStep
<1>5. CASE outbox' = FoldLeft(IfNotPlanned, <<>>, outbox)
  <2> DEFINE f == Front(outbox)
             S == Range(outbox) \cup {outbox[Len(outbox)]}
  <2>1. outbox' = f /\ outbox # <<>>
    BY <1>1, <1>5, Unplanned
  <2>2. f \in Seq(S) /\ outbox = Append(f, outbox[Len(outbox)])
    BY <2>1, BoxSeq
  <2>3. Len(f) \in Nat /\ Len(outbox) = Len(f) + 1 /\ \A i \in 1..Len(f) : outbox[i] = f[i]
    <3> DEFINE v == outbox[Len(outbox)]
    <3>1. outbox = Append(f, v)
      BY <2>2
    <3> HIDE DEF f, S, v
    <3> QED
      BY <2>2, <3>1
  <2>4. Sequence(f)
    <3> HIDE DEF f, S
    <3> QED
      BY <2>2 DEF Sequence, Range
  <2> HIDE DEF f, S
  <2>5. \A i \in 1..Len(f) : i \in 1..Len(outbox) /\ f[i] = outbox[i]
    BY <2>3
  <2>6. LogInv /\ BoxInv
    BY Parts
  <2>7. LogInv'
    BY <1>1, <2>6 DEF LogInv
  <2>8. BoxInv'
    BY <1>1, <2>1, <2>4, <2>5, <2>6 DEF BoxInv
  <2>9. Waits(coord.tail, serverLog, f)
    BY <2>5, Parts, WaitsBox
  <2>10. TailInv'
    BY <1>1, <1>3, <2>1, <2>9, Parts DEF TailInv
  <2>11. RunInv'
    BY <1>3 DEF RunInv, Held, Resting
  <2>12. JournalInv'
    BY <2>7, <2>8, <2>10, <2>11 DEF JournalInv
  <2> QED
    BY <1>3, <2>12, BlockedStep
<1> QED
  BY <1>1, <1>4, <1>5

LEMMA RunRejectKeeps ==
  ASSUME UndoInv, RunReject
  PROVE  UndoInv'
<1> DEFINE kinds == {"reject"}
<1>1. /\ Starts(kinds) /\ coord' = Block(Dequeued)
      /\ UNCHANGED <<serverLog, fed, outbox, keys>>
  BY DEF RunReject
<1> HIDE DEF kinds
<1>2. /\ IsCoord(coord') /\ coord'.seq = coord.seq /\ coord'.tail = Tail(coord.tail)
      /\ coord'.status = "blocked" /\ coord'.run = Resting
  BY <1>1, Taken, BlockKeeps
<1>3. JournalInv'
  BY <1>1, <1>2, Parts, Taken, JournalStays
<1> QED
  BY <1>2, <1>3, BlockedStep

(* What is left when one leaves. *)
LEMMA Removed ==
  ASSUME NEW s, Sequence(s), NEW i \in 1..Len(s)
  PROVE  LET b == RemoveAt(s, i)
         IN  /\ Sequence(b) /\ Len(b) = Len(s) - 1 /\ Len(s) \in Nat
             /\ \A j \in 1..Len(b) : b[j] = IF j < i THEN s[j] ELSE s[j + 1]
<1> DEFINE S == Range(s)
           p == SubSeq(s, 1, i - 1)
           q == SubSeq(s, i + 1, Len(s))
           b == p \o q
<1>1. s \in Seq(S) /\ Len(s) \in Nat /\ i \in 1..Len(s) /\ i \in Nat
  BY SequenceFacts DEF Sequence
<1> HIDE DEF S
<1>2. /\ p \in Seq(S) /\ Len(p) = i - 1
      /\ \A j \in 1..(i - 1) : p[j] = s[j]
  BY <1>1
<1>3. /\ q \in Seq(S) /\ Len(q) = Len(s) - i
      /\ \A j \in 1..(Len(s) - i) : q[j] = s[i + j]
  BY <1>1
<1> HIDE DEF p, q
<1>4. /\ b \in Seq(S) /\ Len(b) = Len(s) - 1
      /\ \A j \in 1..Len(b) : b[j] = IF j <= Len(p) THEN p[j] ELSE q[j - Len(p)]
  <2>1. b \in Seq(S) /\ Len(b) = Len(p) + Len(q)
    BY <1>2, <1>3, ConcatProperties
  <2>2. \A j \in 1..(Len(p) + Len(q)) : b[j] = IF j <= Len(p) THEN p[j] ELSE q[j - Len(p)]
    BY <1>2, <1>3, ConcatProperties
  <2> QED
    BY <1>1, <1>2, <1>3, <2>1, <2>2
<1> HIDE DEF b
<1>5. ASSUME NEW j \in 1..Len(b) PROVE b[j] = IF j < i THEN s[j] ELSE s[j + 1]
  <2>1. CASE j < i
    BY <1>1, <1>2, <1>4, <2>1
  <2>2. CASE ~(j < i)
    <3>1. j - (i - 1) \in 1..(Len(s) - i) /\ i + (j - (i - 1)) = j + 1
      BY <1>1, <1>4, <2>2
    <3>2. b[j] = q[j - (i - 1)]
      BY <1>1, <1>2, <1>4, <2>2
    <3>3. q[j - (i - 1)] = s[j + 1]
      BY <1>3, <3>1
    <3> QED
      BY <2>2, <3>2, <3>3
  <2> QED
    BY <2>1, <2>2
<1>6. Sequence(b)
  BY <1>4 DEF Sequence, Range
<1>7. RemoveAt(s, i) = b
  BY DEF RemoveAt, b, p, q
<1> QED
  BY <1>1, <1>4, <1>5, <1>6, <1>7

LEMMA WithdrawKeeps ==
  ASSUME UndoInv, NEW i \in DOMAIN outbox, Withdraw(i)
  PROVE  UndoInv'
<1> DEFINE b == RemoveAt(outbox, i)
           o == [op |-> "reject"]
           at(j) == IF j < i THEN j ELSE j + 1
<1>1. /\ ~outbox[i].held /\ outbox' = b
      /\ coord' = Queued(coord, o) \/ coord' = coord
      /\ o.op = "reject" /\ "withdrawn" \in mishaps'
      /\ UNCHANGED <<serverLog, fed, keys>>
  BY DEF Withdraw
<1>2. i \in 1..Len(outbox) /\ Len(outbox) \in Nat
  BY Parts, SequenceFacts
<1>3. /\ Sequence(b) /\ Len(b) = Len(outbox) - 1
      /\ \A j \in 1..Len(b) : b[j] = IF j < i THEN outbox[j] ELSE outbox[j + 1]
  BY <1>2, Parts, Removed
<1> HIDE DEF b, o
<1>4. /\ \A j \in 1..Len(b) : at(j) \in 1..Len(outbox) /\ b[j] = outbox[at(j)]
      /\ \A j, k \in 1..Len(b) : at(j) = at(k) => j = k
  BY <1>2, <1>3
<1>5. LogInv'
  BY <1>1, Parts DEF LogInv
<1>6. BoxInv'
  <2> HIDE DEF at
  <2>1. BoxInv
    BY Parts
  <2>2. \A j \in 1..Len(b) : IsEntry(b[j]) /\ b[j].key \in 1..keys
    BY <1>4, <2>1 DEF BoxInv
  <2>3. ASSUME NEW j \in 1..Len(b), NEW k \in 1..Len(b), b[j].key = b[k].key
        PROVE  j = k
    <3>1. at(j) \in 1..Len(outbox) /\ at(k) \in 1..Len(outbox)
          /\ outbox[at(j)].key = outbox[at(k)].key
      BY <1>4, <2>3
    <3>2. at(j) = at(k)
      BY <2>1, <3>1 DEF BoxInv
    <3> QED
      BY <1>4, <3>2
  <2>4. \A j \in 1..Len(b) : \A n \in 1..Len(serverLog) :
          serverLog[n].key = b[j].key => serverLog[n].ops = b[j].ops
    BY <1>4, <2>1 DEF BoxInv
  <2> QED
    BY <1>1, <1>3, <2>2, <2>3, <2>4 DEF BoxInv
<1>7. /\ IsCoord(coord') /\ coord'.seq = coord.seq /\ coord'.run = coord.run
      /\ Waits(coord'.tail, serverLog, outbox)
  <2>1. CASE coord' = coord
    BY <2>1, Parts
  <2>2. CASE coord' = Queued(coord, o)
    <3>1. /\ IsCoord(coord') /\ coord'.tail = Append(coord.tail, o)
          /\ coord'.seq = coord.seq /\ coord'.run = coord.run
      BY <2>2, Parts, QueuedKeeps
    <3>2. Due(o, serverLog, outbox) /\ o.op # "ack"
      BY <1>1 DEF Due
    <3>3. Waits(coord'.tail, serverLog, outbox)
      BY <3>1, <3>2, Parts, WaitsMore
    <3> QED
      BY <3>1, <3>3
  <2> QED
    BY <1>1, <2>1, <2>2
<1>8. TailInv'
  <2> HIDE DEF at
  <2>1. \A j \in 1..Len(b) : \E k \in 1..Len(outbox) : b[j].key = outbox[k].key
    BY <1>4
  <2>2. Waits(coord'.tail, serverLog, b)
    BY <1>7, <2>1, WaitsBox
  <2> QED
    BY <1>1, <1>7, <2>2, Parts DEF TailInv
<1>9. RunInv'
  <2>1. Held(coord.run, serverLog, outbox)
    BY Parts
  <2>2. CASE coord.run.phase \notin {"kept", "refused"}
    BY <1>1, <1>7, <2>1, <2>2 DEF RunInv, Held
  <2>3. CASE coord.run.phase \in {"kept", "refused"}
    <3>1. outbox[Len(outbox)].held
      BY <2>1, <2>3 DEF Held
    <3>2. i # Len(outbox)
      BY <1>1, <3>1
    <3>3. Len(b) \in 1..Len(b) /\ ~(Len(b) < i) /\ Len(b) + 1 = Len(outbox)
      BY <1>2, <1>3, <3>2
    <3>4. b[Len(b)] = outbox[Len(outbox)] /\ b # <<>>
      BY <1>3, <3>3, EmptySequence
    <3>5. Held(coord.run, serverLog, b)
      BY <2>1, <2>3, <3>4 DEF Held
    <3> QED
      BY <1>1, <1>7, <3>5 DEF RunInv
  <2> QED
    BY <2>2, <2>3
<1>10. ~Coped'
  BY <1>1 DEF Coped
<1> QED
  BY <1>5, <1>6, <1>8, <1>9, <1>10 DEF UndoInv, JournalInv

LEMMA RunAckKeeps ==
  ASSUME UndoInv, RunAck
  PROVE  UndoInv'
<1> DEFINE kinds == {"ack"}
           o == Operation
<1>1. /\ Starts(kinds) /\ coord' = Acknowledge(Dequeued, o.batch.id, o.seq)
      /\ UNCHANGED <<serverLog, fed, outbox, doc, keys, mishaps>>
  BY DEF RunAck
<1>2. o.op = "ack" /\ Due(o, serverLog, outbox)
  BY <1>1, Taken
<1> HIDE DEF kinds, o
<1>3. o.seq \in 1..Len(serverLog) /\ o.seq \in Nat
  BY <1>2, Parts DEF Due
<1>4. /\ IsCoord(coord') /\ coord'.tail = Tail(coord.tail) /\ coord'.run = Resting
      /\ \/ coord'.status = "blocked" /\ coord'.seq = coord.seq
         \/ coord'.status = coord.status /\ o.seq = coord.seq + 1 /\ coord'.seq = o.seq
         \/ coord'.status = coord.status /\ o.seq <= coord.seq /\ coord'.seq = coord.seq
  <2>1. Dequeued.seq = coord.seq /\ coord.seq \in Nat /\ IsCoord(Dequeued)
    BY <1>1, Parts, Taken
  <2> DEFINE t == Acknowledge(Dequeued, o.batch.id, o.seq)
  <2>2. /\ IsCoord(t) /\ t.tail = Dequeued.tail /\ t.run = Dequeued.run
        /\ \/ t.status = "blocked" /\ t.seq = Dequeued.seq
           \/ t.status = Dequeued.status /\ o.seq = Dequeued.seq + 1 /\ t.seq = o.seq
           \/ t.status = Dequeued.status /\ o.seq <= Dequeued.seq /\ t.seq = Dequeued.seq
    BY <1>3, <2>1, AcknowledgeIs
  <2> HIDE DEF t
  <2>3. coord' = t
    BY <1>1 DEF t
  <2> QED
    BY <1>1, <2>2, <2>3, Taken
<1>5. coord'.seq \in 0..Len(serverLog)
  BY <1>3, <1>4, Parts
<1>6. JournalInv'
  BY <1>1, <1>4, <1>5, Parts, Taken, JournalStays
<1>7. ASSUME Coped', coord'.status = "active" PROVE PastInv' /\ SheetInv'
  <2>0. coord'.status = coord.status
    BY <1>4, <1>7
  <2>1. PastInv /\ SheetInv
    BY <1>1, <1>7, <2>0 DEF UndoInv, Coped
  <2>2. /\ Len(coord.tail) >= 1 /\ o = coord.tail[1]
        /\ \A i \in 1..Len(Tail(coord.tail)) :
             Tail(coord.tail)[i] = coord.tail[i + 1] /\ i + 1 \in 1..Len(coord.tail)
    BY <1>1, Parts, Taken, SequenceFacts DEF o, Operation
  <2>3. 1 \in 1..Len(coord.tail)
    BY <2>2, Parts
  <2>4. o.seq > coord.seq
    BY <1>2, <2>1, <2>2, <2>3 DEF PastInv, Past
  <2>5. o.seq = coord.seq + 1 /\ coord'.seq = o.seq
    BY <1>3, <1>4, <1>7, <2>4, Parts
  <2>6. PastInv'
    <3>1. ASSUME NEW i \in 1..Len(Tail(coord.tail)), Tail(coord.tail)[i].op = "ack"
          PROVE  Tail(coord.tail)[i].seq > o.seq
      <4> DEFINE p == coord.tail[i + 1]
      <4>1. Tail(coord.tail)[i] = p /\ i + 1 \in 1..Len(coord.tail) /\ p.op = "ack"
        BY <2>2, <3>1
      <4>2. p.seq > coord.seq
        BY <2>1, <4>1 DEF PastInv, Past
      <4>3. /\ p.seq \in 1..Len(serverLog)
            /\ serverLog[p.seq].key = p.batch.key
        BY <4>1, Parts DEF Waits, Due
      <4>4. p.batch.key # o.batch.key
        <5>1. i + 1 # 1
          OBVIOUS
        <5> QED
          BY <1>2, <2>2, <2>3, <4>1, <5>1, Parts DEF Waits
      <4>5. p.seq # o.seq
        BY <1>2, <4>3, <4>4 DEF Due
      <4> HIDE DEF p
      <4>6. p.seq > o.seq
        BY <2>5, <4>2, <4>3, <4>5, Parts
      <4> QED
        BY <4>1, <4>6
    <3>2. ASSUME NEW i \in 1..Len(outbox), NEW n \in 1..Len(serverLog),
                 serverLog[n].key = outbox[i].key
          PROVE  n > o.seq
      <4>1. n > coord.seq
        BY <2>1, <3>2 DEF PastInv, Past
      <4>2. outbox[i].key # o.batch.key /\ serverLog[o.seq].key = o.batch.key
        BY <1>2 DEF Due
      <4>3. n # o.seq
        BY <3>2, <4>2
      <4> QED
        BY <2>5, <4>1, <4>3, Parts
    <3>3. \A i \in 1..Len(outbox) : outbox[i].tracked
      BY <2>1 DEF PastInv, Past
    <3>4. Past(Tail(coord.tail), serverLog, outbox, o.seq)
      BY <3>1, <3>2, <3>3 DEF Past
    <3> QED
      BY <1>1, <1>4, <2>5, <3>4 DEF PastInv
  <2> DEFINE z == Play(Blank, SubSeq(serverLog, 1, coord.seq))
             a == AcksOf(Tail(coord.tail))
  <2>7. /\ AcksOf(coord.tail) = <<o.batch>> \o a
        /\ RecordsOf(coord.tail) = RecordsOf(Tail(coord.tail))
    BY <1>1, <1>2, Parts, Taken, TailSplit DEF o, Operation
  <2>8. a \in Seq(Batches(Tail(coord.tail)))
    BY <1>1, Taken, TailBatches DEF Waits
  <2>9. Play(Blank, SubSeq(serverLog, 1, o.seq)) = Over(z, o.batch.ops)
    <3>1. /\ SubSeq(serverLog, 1, coord.seq + 1) =
               Append(SubSeq(serverLog, 1, coord.seq), serverLog[coord.seq + 1])
          /\ SubSeq(serverLog, 1, coord.seq) \in Seq(Range(serverLog))
          /\ serverLog[coord.seq + 1] \in Range(serverLog)
      <4> DEFINE R == Range(serverLog)
      <4>1. serverLog \in Seq(R) /\ coord.seq \in Nat /\ coord.seq + 1 \in 1..Len(serverLog)
        BY <1>3, <2>5, Parts DEF Sequence
      <4> HIDE DEF R
      <4> QED
        BY <4>1 DEF R
    <3>2. serverLog[coord.seq + 1].ops = o.batch.ops
      BY <1>2, <2>5 DEF Due
    <3>3. Play(Blank, Append(SubSeq(serverLog, 1, coord.seq), serverLog[coord.seq + 1]))
            = Over(z, serverLog[coord.seq + 1].ops)
      BY <3>1, PlayMore
    <3> QED
      BY <2>5, <3>1, <3>2, <3>3
  <2> HIDE DEF z, a
  <2>10. Play(z, <<o.batch>> \o a) = Play(Over(z, o.batch.ops), a)
    BY <2>8, PlayCons
  <2>11. Sheet(coord.tail, serverLog, outbox, coord.seq)
           = Sheet(Tail(coord.tail), serverLog, outbox, o.seq)
    BY <2>7, <2>9, <2>10 DEF Sheet, z, a
  <2>12. /\ Executed(coord.run, outbox) = outbox
         /\ Executed(coord'.run, outbox) = outbox
    BY <1>1, <1>4, Taken
  <2>13. doc' = Sheet(coord'.tail, serverLog, Executed(coord'.run, outbox), coord'.seq)
    BY <1>1, <1>4, <2>1, <2>5, <2>11, <2>12 DEF SheetInv
  <2> QED
    BY <1>1, <2>6, <2>13 DEF SheetInv
<1> QED
  BY <1>6, <1>7 DEF UndoInv

-----------------------------------------------------------------------------
(* What the sheet has on top of the log. *)
LEMMA AcksAre ==
  ASSUME NEW tail, Sequence(tail), NEW k \in DOMAIN AcksOf(tail)
  PROVE  \E i \in 1..Len(tail) : tail[i].op = "ack" /\ AcksOf(tail)[k] = tail[i].batch
<1> DEFINE S == Range(tail)
           T == {tail[i].batch : i \in {j \in 1..Len(tail) : tail[j].op = "ack"}}
<1>1. tail \in Seq(S) /\ <<>> \in Seq(T)
  BY DEF Sequence
<1>2. \A x \in S : x.op = "ack" => x.batch \in T
  <2>1. DOMAIN tail = 1..Len(tail)
    BY SequenceFacts
  <2> QED
    BY <2>1 DEF Range
<1> HIDE DEF S, T
<1>3. AcksOf(tail) \in Seq(T)
  BY <1>1, <1>2, AcksSplit
<1>4. AcksOf(tail)[k] \in T
  BY <1>3
<1> QED
  BY <1>4 DEF T

(* What is acknowledged or stored is not taken in yet. *)
LEMMA NotSeen ==
  ASSUME UndoInv, PastInv, NEW key,
         \/ \E i \in 1..Len(coord.tail) :
              coord.tail[i].op = "ack" /\ coord.tail[i].batch.key = key
         \/ \E i \in 1..Len(outbox) : outbox[i].key = key
  PROVE  \A n \in DOMAIN Seen : Seen[n].key # key
<1>1. DOMAIN Seen = 1..coord.seq /\ \A n \in 1..coord.seq : Seen[n] = serverLog[n]
  <2> DEFINE R == Range(serverLog)
  <2>1. serverLog \in Seq(R) /\ coord.seq \in 0..Len(serverLog)
    BY Parts DEF Sequence
  <2> HIDE DEF R
  <2> QED
    BY <2>1 DEF Seen
<1>2. SUFFICES ASSUME NEW n \in 1..coord.seq, serverLog[n].key = key
               PROVE  FALSE
  BY <1>1
<1>3. n \in 1..Len(serverLog) /\ ~(n > coord.seq)
  BY Parts
<1>4. CASE \E i \in 1..Len(outbox) : outbox[i].key = key
  BY <1>2, <1>3, <1>4 DEF PastInv, Past
<1>5. CASE \E i \in 1..Len(coord.tail) :
             coord.tail[i].op = "ack" /\ coord.tail[i].batch.key = key
  <2>1. PICK i \in 1..Len(coord.tail) :
           coord.tail[i].op = "ack" /\ coord.tail[i].batch.key = key
    BY <1>5
  <2> DEFINE m == coord.tail[i].seq
  <2>2. m \in 1..Len(serverLog) /\ serverLog[m].key = key /\ key # 0
    BY <2>1, Parts DEF Waits, Due
  <2>3. m > coord.seq
    BY <2>1 DEF PastInv, Past
  <2>4. m = n
    BY <1>2, <1>3, <2>2, Parts DEF LogInv
  <2> QED
    BY <1>3, <2>3, <2>4
<1> QED
  BY <1>4, <1>5

LEMMA LocalSeqs ==
  ASSUME UndoInv, NEW S, Range(outbox) \subseteq S, Batches(coord.tail) \subseteq S
  PROVE  /\ Acks \in Seq(S) /\ Records \in Seq(S)
         /\ Executed(coord.run, outbox) \in Seq(S)
<1>1. Acks \in Seq(S) /\ Records \in Seq(S)
  <2>1. AcksOf(coord.tail) \in Seq(Batches(coord.tail))
        /\ RecordsOf(coord.tail) \in Seq(Batches(coord.tail))
    BY Parts, TailBatches
  <2> QED
    BY <2>1 DEF Acks, Records, AcksOf, RecordsOf
<1>2. outbox \in Seq(S)
  BY Parts DEF Sequence
<1>3. coord.run.phase \in {"kept", "refused"} => Front(outbox) \in Seq(S)
  <2>1. coord.run.phase \in {"kept", "refused"} => outbox # <<>>
    BY Parts DEF Held
  <2>2. outbox # <<>> => SubSeq(outbox, 1, Len(outbox) - 1) \in Seq(S)
    BY <1>2
  <2> QED
    BY <2>1, <2>2 DEF Front
<1> QED
  BY <1>1, <1>2, <1>3 DEF Executed

LEMMA LocalWritesAre ==
  ASSUME UndoInv, PastInv
  PROVE  LocalWrites = (Acks \o Executed(coord.run, outbox)) \o Records
<1> DEFINE S == Range(outbox) \cup Batches(coord.tail)
           f == Acks \o Executed(coord.run, outbox)
<1>1. Acks \in Seq(S) /\ outbox \in Seq(S) /\ Executed(coord.run, outbox) \in Seq(S)
  <2>1. Range(outbox) \subseteq S /\ Batches(coord.tail) \subseteq S
    OBVIOUS
  <2>2. outbox \in Seq(S)
    BY Parts DEF Sequence
  <2> HIDE DEF S
  <2> QED
    BY <2>1, <2>2, LocalSeqs
<1>2. ASSUME NEW k \in DOMAIN Acks PROVE Ahead(Acks[k])
  <2>1. PICK i \in 1..Len(coord.tail) :
           coord.tail[i].op = "ack" /\ Acks[k] = coord.tail[i].batch
    BY Parts, AcksAre DEF Acks, AcksOf
  <2>2. /\ coord.tail[i].seq \in 1..Len(serverLog)
        /\ serverLog[coord.tail[i].seq].key = Acks[k].key
    BY <2>1, Parts DEF Waits, Due
  <2>3. Acks[k].key \notin Unexecuted
    BY <2>2, Parts DEF Unexecuted, Held
  <2>4. \A n \in DOMAIN Seen : Seen[n].key # Acks[k].key
    BY <2>1, NotSeen
  <2> QED
    BY <2>3, <2>4 DEF Ahead
<1>3. ASSUME NEW i \in 1..Len(outbox),
             coord.run.phase \in {"kept", "refused"} => i # Len(outbox)
      PROVE  Ahead(outbox[i])
  <2>1. outbox[i].key \notin Unexecuted
    <3>1. CASE coord.run.phase \in {"kept", "refused"}
      <4>1. Len(outbox) \in 1..Len(outbox) /\ outbox[Len(outbox)].key = coord.run.key
        BY <3>1, Parts DEF Held
      <4> QED
        BY <1>3, <3>1, <4>1, Parts DEF Unexecuted, BoxInv
    <3>2. CASE coord.run.phase \notin {"kept", "refused"}
      BY <3>2 DEF Unexecuted
    <3> QED
      BY <3>1, <3>2
  <2>2. \A n \in DOMAIN Seen : Seen[n].key # outbox[i].key
    BY NotSeen
  <2> QED
    BY <2>1, <2>2 DEF Ahead
<1>4. \A k \in DOMAIN f : Ahead(f[k])
  <2> DEFINE x == Executed(coord.run, outbox)
  <2>1. ASSUME NEW i \in DOMAIN x PROVE Ahead(x[i])
    <3>1. CASE coord.run.phase \in {"kept", "refused"}
      <4>1. outbox # <<>>
        BY <3>1, Parts DEF Held
      <4>2. x = SubSeq(outbox, 1, Len(outbox) - 1)
        BY <3>1 DEF Executed, Front
      <4>3. i \in 1..Len(outbox) /\ i # Len(outbox) /\ x[i] = outbox[i]
        <5> HIDE DEF S
        <5> QED
          BY <1>1, <4>1, <4>2
      <4> QED
        BY <1>3, <4>3
    <3>2. CASE coord.run.phase \notin {"kept", "refused"}
      <4>1. x = outbox /\ i \in 1..Len(outbox)
        BY <3>2, Parts, SequenceFacts DEF Executed
      <4> QED
        BY <1>3, <3>2, <4>1
    <3> QED
      BY <3>1, <3>2
  <2>2. x \in Seq(S)
    BY <1>1
  <2> HIDE DEF x, S
  <2>3. \A k \in DOMAIN (Acks \o x) :
          \/ k \in DOMAIN Acks /\ (Acks \o x)[k] = Acks[k]
          \/ k - Len(Acks) \in DOMAIN x /\ (Acks \o x)[k] = x[k - Len(Acks)]
    BY <1>1, <2>2
  <2>4. \A k \in DOMAIN (Acks \o x) : Ahead((Acks \o x)[k])
    BY <1>2, <2>1, <2>3
  <2> QED
    BY <2>4 DEF x
<1>5. f \in Seq(S)
  <2> HIDE DEF S
  <2> QED
    BY <1>1
<1>6. Keeping!Folded(<<>>, f) = f
  <2> HIDE DEF S, f
  <2>1. \A k \in DOMAIN f : \A q \in Seq(S) : IfAhead(q, f[k]) = Append(q, f[k])
    BY <1>4 DEF IfAhead
  <2> QED
    BY <1>5, <2>1, Keeping!FoldAll
<1>7. Keeping!Folded(<<>>, Acks \o outbox) = f
  <2>1. CASE coord.run.phase \in {"kept", "refused"}
    <3> DEFINE w == outbox[Len(outbox)]
               p == Front(outbox)
    <3>1. outbox # <<>> /\ w.key = coord.run.key
      BY <2>1, Parts DEF Held
    <3>2. outbox = Append(p, w)
      BY <3>1, BoxSeq
    <3>3. p \in Seq(S) /\ w \in S /\ f = Acks \o p
      <4>1. p \in Seq(S) /\ f = Acks \o p
        BY <1>1, <2>1 DEF Executed
      <4>2. w \in S
        <5> HIDE DEF S
        <5> QED
          BY <1>1, <3>1
      <4> QED
        BY <4>1, <4>2
    <3> HIDE DEF w, p, S, f
    <3>4. Acks \o outbox = Append(f, w)
      BY <1>1, <3>2, <3>3
    <3>5. Keeping!Folded(<<>>, Append(f, w)) = IfAhead(Keeping!Folded(<<>>, f), w)
      BY <1>5, <3>3, Keeping!FoldAppend
    <3>6. ~Ahead(w)
      BY <2>1, <3>1 DEF Ahead, Unexecuted
    <3> QED
      BY <1>6, <3>4, <3>5, <3>6 DEF IfAhead
  <2>2. CASE coord.run.phase \notin {"kept", "refused"}
    BY <1>6, <2>2 DEF Executed
  <2> QED
    BY <2>1, <2>2
<1> QED
  BY <1>7, AheadIsFold DEF LocalWrites

(* Played on top of what was taken in, they give the sheet. *)
LEMMA SheetIsWrites ==
  ASSUME UndoInv, PastInv, SheetInv
  PROVE  /\ doc = Play(Play(Blank, Seen), LocalWrites)
         /\ doc = Content(Writes)
         /\ \E S : LocalWrites \in Seq(S)
<1> DEFINE S == (Range(outbox) \cup Batches(coord.tail)) \cup Range(serverLog)
           x == Executed(coord.run, outbox)
           z == Play(Blank, Seen)
<1>1. Acks \in Seq(S) /\ Records \in Seq(S) /\ x \in Seq(S)
  <2>1. Range(outbox) \subseteq S /\ Batches(coord.tail) \subseteq S
    OBVIOUS
  <2> HIDE DEF S
  <2> QED
    BY <2>1, LocalSeqs
<1>2. Seen \in Seq(S)
  <2>1. serverLog \in Seq(S) /\ coord.seq \in 0..Len(serverLog)
    BY Parts DEF Sequence
  <2> HIDE DEF S
  <2> QED
    BY <2>1 DEF Seen
<1>3. LocalWrites = (Acks \o x) \o Records
  BY LocalWritesAre
<1>4. doc = Play(Play(Play(z, Acks), x), Records)
  BY DEF SheetInv, Sheet, Seen, Acks, AcksOf, Records, RecordsOf
<1> HIDE DEF S, x, z
<1>5. Acks \o x \in Seq(S) /\ (Acks \o x) \o Records \in Seq(S)
  BY <1>1
<1>6. Play(z, Acks \o x) = Play(Play(z, Acks), x)
  BY <1>1, PlayBoth
<1>7. Play(z, (Acks \o x) \o Records) = Play(Play(z, Acks \o x), Records)
  BY <1>1, <1>5, PlayBoth
<1>8. doc = Play(z, LocalWrites)
  BY <1>3, <1>4, <1>6, <1>7
<1>9. LocalWrites \in Seq(S)
  BY <1>3, <1>5
<1>10. Play(Blank, Seen \o LocalWrites) = Play(z, LocalWrites)
  BY <1>2, <1>9, PlayBoth DEF z
<1>11. Content(Writes) = Play(Blank, Seen \o LocalWrites)
  BY DEF Content, Writes, Play
<1> QED
  BY <1>8, <1>9, <1>10, <1>11 DEF z

-----------------------------------------------------------------------------
(* The steps that take in the log, or change it. *)
LEMMA RunRemoteKeeps ==
  ASSUME UndoInv, RunRemote
  PROVE  UndoInv'
<1> DEFINE kinds == {"remote"}
           o == Operation
           ops == o.batch.ops
           free == Outside(ops, Cells(LocalWrites))
           s == RebaseRemote(Dequeued, ops)
<1>1. /\ Starts(kinds) /\ coord.status = "active" /\ o.seq > coord.seq
      /\ UNCHANGED <<serverLog, fed, outbox, keys>>
  BY DEF RunRemote
<1>2. IF o.seq > coord.seq + 1
      THEN coord' = Block(Dequeued) /\ UNCHANGED <<doc, mishaps>>
      ELSE /\ doc' = Over(doc, free)
           /\ coord' = [s EXCEPT !.seq = o.seq]
           /\ mishaps \subseteq mishaps'
  BY DEF RunRemote, Cells
<1>3. o.op = "remote" /\ Due(o, serverLog, outbox)
  BY <1>1, Taken
<1> HIDE DEF kinds, o, ops, free, s
<1>4. /\ o.seq \in 1..Len(serverLog) /\ o.seq \in Nat /\ serverLog[o.seq].key = 0
      /\ serverLog[o.seq] = o.batch
  BY <1>3, Parts DEF Due
<1>5. CASE o.seq > coord.seq + 1
  <2>1. /\ IsCoord(coord') /\ coord'.status = "blocked" /\ coord'.seq = coord.seq
        /\ coord'.tail = Tail(coord.tail) /\ coord'.run = Resting
    BY <1>1, <1>2, <1>5, Taken, BlockKeeps
  <2> QED
    BY <1>1, <2>1, Parts, Taken, JournalStays, BlockedStep
<1>6. CASE ~(o.seq > coord.seq + 1)
  <2>1. o.seq = coord.seq + 1
    BY <1>1, <1>4, <1>6, Parts
  <2>2. Alike(Dequeued, s)
    BY <1>1, Taken, RebaseKeeps DEF s
  <2>3. /\ IsCoord(coord') /\ coord'.seq = o.seq /\ coord'.tail = s.tail
        /\ coord'.status = s.status /\ coord'.run = s.run
    BY <1>2, <1>6, <2>2 DEF IsCoord, Alike
  <2>4. /\ coord'.tail = Tail(coord.tail) /\ coord'.status = coord.status
        /\ coord'.run = Resting
    BY <1>1, <2>2, <2>3, Taken DEF Alike
  <2>5. JournalInv'
    BY <1>1, <1>4, <2>3, <2>4, Parts, Taken, JournalStays
  <2>6. ASSUME Coped' PROVE PastInv' /\ SheetInv'
    <3>1. PastInv /\ SheetInv
      BY <1>1, <1>2, <1>6, <2>6, CopedBefore DEF UndoInv
    <3>2. Past(Tail(coord.tail), serverLog, outbox, coord.seq)
      BY <1>1, <3>1, Parts, Taken, PastTail DEF PastInv
    <3>3. Past(Tail(coord.tail), serverLog, outbox, o.seq)
      <4> DEFINE t == Tail(coord.tail)
      <4>1. ASSUME NEW i \in 1..Len(t), t[i].op = "ack" PROVE t[i].seq > o.seq
        <5>1. t[i].seq > coord.seq
          BY <3>2, <4>1 DEF Past
        <5>2. /\ t[i].seq \in 1..Len(serverLog)
              /\ serverLog[t[i].seq].key # 0
          BY <1>1, <4>1, Taken DEF Waits, Due
        <5>3. t[i].seq # o.seq
          BY <1>4, <5>2
        <5> QED
          BY <2>1, <5>1, <5>2, <5>3, Parts
      <4>2. ASSUME NEW i \in 1..Len(outbox), NEW n \in 1..Len(serverLog),
                   serverLog[n].key = outbox[i].key
            PROVE  n > o.seq
        <5>1. n > coord.seq
          BY <3>2, <4>2 DEF Past
        <5>2. outbox[i].key \in 1..keys
          BY Parts DEF BoxInv
        <5>3. n # o.seq
          BY <1>4, <4>2, <5>2, Parts
        <5> QED
          BY <2>1, <5>1, <5>3, Parts
      <4>3. \A i \in 1..Len(outbox) : outbox[i].tracked
        BY <3>2 DEF Past
      <4> HIDE DEF t
      <4>4. Past(t, serverLog, outbox, o.seq)
        BY <4>1, <4>2, <4>3 DEF Past
      <4> QED
        BY <4>4 DEF t
    <3>4. PastInv'
      BY <1>1, <2>3, <2>4, <3>3 DEF PastInv
    <3> DEFINE seen(n) == Play(Blank, SubSeq(serverLog, 1, n))
               x == Executed(coord.run, outbox)
               S == Range(outbox) \cup Batches(coord.tail)
    <3>5. doc = Play(seen(coord.seq), LocalWrites)
      BY <3>1, SheetIsWrites DEF Seen
    <3>6. PICK R : LocalWrites \in Seq(R)
      BY <3>1, SheetIsWrites
    <3>7. seen(o.seq) = Over(seen(coord.seq), ops)
      <4>1. /\ SubSeq(serverLog, 1, coord.seq + 1) =
                 Append(SubSeq(serverLog, 1, coord.seq), serverLog[coord.seq + 1])
            /\ SubSeq(serverLog, 1, coord.seq) \in Seq(Range(serverLog))
            /\ serverLog[coord.seq + 1] \in Range(serverLog)
        <5> DEFINE L == Range(serverLog)
        <5>1. serverLog \in Seq(L) /\ coord.seq \in Nat /\ coord.seq + 1 \in 1..Len(serverLog)
          BY <1>4, <2>1, Parts DEF Sequence
        <5> HIDE DEF L
        <5> QED
          BY <5>1 DEF L
      <4>2. serverLog[coord.seq + 1].ops = ops
        BY <1>4, <2>1 DEF ops
      <4>3. Play(Blank, Append(SubSeq(serverLog, 1, coord.seq), serverLog[coord.seq + 1]))
              = Over(seen(coord.seq), serverLog[coord.seq + 1].ops)
        BY <4>1, PlayMore
      <4> QED
        BY <2>1, <4>1, <4>2, <4>3
    <3>8. Play(Over(seen(coord.seq), ops), LocalWrites) = Over(doc, free)
      <4> DEFINE z == seen(coord.seq)
      <4> HIDE DEF z, seen
      <4>1. Play(Over(z, ops), LocalWrites)
              = Over(Play(z, LocalWrites), Outside(ops, Cells(LocalWrites)))
        BY <3>6, PlayUnder
      <4> QED
        BY <3>5, <4>1 DEF z, free
    <3>9. Play(seen(o.seq), LocalWrites) = Play(Play(Play(seen(o.seq), Acks), x), Records)
      <4>1. LocalWrites = (Acks \o x) \o Records
        BY <3>1, LocalWritesAre
      <4>2. Acks \in Seq(S) /\ Records \in Seq(S) /\ x \in Seq(S)
        <5>1. Range(outbox) \subseteq S /\ Batches(coord.tail) \subseteq S
          OBVIOUS
        <5> HIDE DEF S
        <5> QED
          BY <5>1, LocalSeqs
      <4> DEFINE z == seen(o.seq)
      <4> HIDE DEF S, x, z, seen
      <4>3. Acks \o x \in Seq(S)
        BY <4>2
      <4>4. Play(z, Acks \o x) = Play(Play(z, Acks), x)
        BY <4>2, PlayBoth
      <4>5. Play(z, (Acks \o x) \o Records) = Play(Play(z, Acks \o x), Records)
        BY <4>2, <4>3, PlayBoth
      <4> QED
        BY <4>1, <4>4, <4>5 DEF z
    <3>10. doc' = Play(Play(Play(seen(o.seq), Acks), x), Records)
      BY <1>2, <1>6, <3>7, <3>8, <3>9
    <3>11. /\ AcksOf(Tail(coord.tail)) = Acks
           /\ RecordsOf(Tail(coord.tail)) = Records
      BY <1>1, <1>3, TakenQuietly DEF o, Acks, AcksOf, Records, RecordsOf
    <3>12. x = outbox /\ Executed(coord'.run, outbox) = outbox
      BY <1>1, <2>4, Taken
    <3>13. doc' = Sheet(Tail(coord.tail), serverLog, outbox, o.seq)
      BY <3>10, <3>11, <3>12 DEF Sheet
    <3> QED
      BY <1>1, <2>3, <2>4, <3>4, <3>12, <3>13 DEF SheetInv
  <2> QED
    BY <2>5, <2>6 DEF UndoInv
<1> QED
  BY <1>5, <1>6

(* Nothing waits and nothing is outbound. *)
LEMMA SheetAfresh ==
  ASSUME Sequence(serverLog)
  PROVE  Sheet(<<>>, serverLog, <<>>, Len(serverLog)) = Content(serverLog)
<1>1. SubSeq(serverLog, 1, Len(serverLog)) = serverLog
  <2> DEFINE R == Range(serverLog)
  <2>1. serverLog \in Seq(R)
    BY DEF Sequence
  <2> HIDE DEF R
  <2> QED
    BY <2>1
<1>2. AcksOf(<<>>) = <<>> /\ RecordsOf(<<>>) = <<>>
  BY NoTail
<1>3. \A d : Play(d, <<>>) = d
  BY PlayNothing
<1>4. Sheet(<<>>, serverLog, <<>>, Len(serverLog)) = Play(Blank, serverLog)
  BY <1>1, <1>2, <1>3 DEF Sheet
<1> QED
  BY <1>4 DEF Content, Play

LEMMA FreshTail ==
  ASSUME NEW log, NEW box, NEW seq
  PROVE  /\ Waits(<<>>, log, box)
         /\ Past(<<>>, log, <<>>, seq)
<1>1. \A i \in 1..Len(<<>>) : FALSE
  BY EmptySequence
<1> QED
  BY <1>1, EmptySequence DEF Waits, Past

(* A tail without acknowledgements and records. *)
LEMMA NothingQueued ==
  ASSUME NEW tail, Sequence(tail),
         \A i \in DOMAIN tail : tail[i].op \notin {"record", "ack"}
  PROVE  AcksOf(tail) = <<>> /\ RecordsOf(tail) = <<>>
<1> DEFINE S == Range(tail)
           T == {}
<1>1. tail \in Seq(S) /\ <<>> \in Seq(T)
  BY DEF Sequence
<1>2. \A x \in S : x.op # "ack" /\ x.op # "record"
  BY DEF Range
<1>3. /\ \A x \in S : x.op = "ack" => x.batch \in T
      /\ \A x \in S : x.op = "record" => x.batch \in T
  BY <1>2
<1> HIDE DEF S, T
<1>4. AcksOf(tail) \in Seq(T)
  BY <1>1, <1>3, AcksSplit
<1>5. RecordsOf(tail) \in Seq(T)
  BY <1>1, <1>3, RecordsSplit
<1>6. \A q : q \in Seq(T) => q = <<>>
  BY DEF T
<1> QED
  BY <1>4, <1>5, <1>6

(* A coordinator with what waits and what runs in another. *)
Taking(s, tail, run) == [s EXCEPT !.tail = tail, !.run = run]

LEMMA TakingIs ==
  ASSUME NEW s, NEW tail, NEW run, IsCoord(s)
  PROVE  /\ IsCoord(Taking(s, tail, run)) /\ Taking(s, tail, run).tail = tail
         /\ Taking(s, tail, run).seq = s.seq /\ Taking(s, tail, run).run = run
<1> DEFINE g == [s EXCEPT !.tail = tail]
<1>1. [s EXCEPT !.tail = tail, !.run = run] = [g EXCEPT !.run = run]
  OBVIOUS
<1>2. IsCoord(g) /\ g.seq = s.seq /\ g.tail = tail
  BY DEF IsCoord
<1> HIDE DEF g
<1> DEFINE h == [g EXCEPT !.run = run]
<1>3. IsCoord(h) /\ h.tail = tail /\ h.seq = s.seq /\ h.run = run
  BY <1>2 DEF IsCoord
<1>4. Taking(s, tail, run) = h
  BY <1>1 DEF Taking
<1> HIDE DEF h
<1> QED
  BY <1>3, <1>4

LEMMA ResetKeeps ==
  ASSUME UndoInv, Reset
  PROVE  UndoInv'
<1> DEFINE s == [Fresh(Len(serverLog)) EXCEPT !.tail = coord.tail, !.run = coord.run]
<1>1. /\ coord' = s /\ doc' = Content(serverLog)
      /\ fed' = Len(serverLog) /\ outbox = <<>>
      /\ (\E i \in DOMAIN coord.tail : coord.tail[i].op \in {"record", "ack"})
           => "reset over edits" \in mishaps'
      /\ UNCHANGED <<serverLog, outbox, keys>>
  BY DEF Reset
<1>2. /\ IsCoord(s) /\ s.tail = coord.tail /\ s.seq = Len(serverLog) /\ s.run = coord.run
  <2>1. s = Taking(Fresh(Len(serverLog)), coord.tail, coord.run)
    BY DEF Taking
  <2> HIDE DEF s
  <2> QED
    BY <2>1, FreshIs, TakingIs
<1> HIDE DEF s
<1>3. Len(serverLog) \in 0..Len(serverLog)
  BY Parts
<1>4. LogInv'
  BY <1>1, <1>3, Parts DEF LogInv
<1>5. BoxInv'
  BY <1>1, Parts DEF BoxInv
<1>6. TailInv'
  BY <1>1, <1>2, <1>3, Parts DEF TailInv
<1>7. RunInv'
  BY <1>1, <1>2, Parts DEF RunInv
<1>8. ASSUME Coped' PROVE PastInv' /\ SheetInv'
  <2>1. \A i \in DOMAIN coord.tail : coord.tail[i].op \notin {"record", "ack"}
    BY <1>1, <1>8 DEF Coped
  <2>2. AcksOf(coord.tail) = <<>> /\ RecordsOf(coord.tail) = <<>>
    BY <2>1, Parts, NothingQueued
  <2>3. DOMAIN coord.tail = 1..Len(coord.tail)
    BY Parts, SequenceFacts
  <2>4. Past(coord.tail, serverLog, <<>>, Len(serverLog))
    BY <2>1, <2>3, FreshTail DEF Past
  <2>5. PastInv'
    BY <1>1, <1>2, <2>4 DEF PastInv
  <2>6. Executed(coord.run, <<>>) = <<>>
    BY <1>1, Parts DEF Executed, Held
  <2>7. Sheet(coord.tail, serverLog, <<>>, Len(serverLog))
          = Sheet(<<>>, serverLog, <<>>, Len(serverLog))
    BY <2>2, NoTail DEF Sheet
  <2>8. SheetInv'
    BY <1>1, <1>2, <2>6, <2>7, Parts, SheetAfresh DEF SheetInv
  <2> QED
    BY <2>5, <2>8
<1> QED
  BY <1>4, <1>5, <1>6, <1>7, <1>8 DEF UndoInv, JournalInv

LEMMA RestartKeeps ==
  ASSUME UndoInv, Restart
  PROVE  UndoInv'
<1> DEFINE b == [i \in DOMAIN outbox |->
                   [outbox[i] EXCEPT !.held = FALSE, !.tracked = FALSE]]
           left == FoldLeft(IfUnlogged, <<>>, outbox)
<1>1. /\ coord' = Fresh(Len(serverLog)) /\ doc' = Content(serverLog \o left)
      /\ fed' = Len(serverLog) /\ outbox' = b
      /\ outbox # <<>> => "restarted with entries" \in mishaps'
      /\ UNCHANGED <<serverLog, keys>>
  BY DEF Restart
<1>2. /\ IsCoord(coord') /\ coord'.tail = <<>> /\ coord'.seq = Len(serverLog)
      /\ coord'.run = Resting
  BY <1>1, FreshIs
<1> HIDE DEF left, b
<1>3. LogInv'
  <2>1. Len(serverLog) \in 0..Len(serverLog)
    BY Parts
  <2> QED
    BY <1>1, <2>1, Parts DEF LogInv
<1>4. /\ DOMAIN outbox = 1..Len(outbox) /\ Len(outbox) \in Nat
      /\ \A i \in 1..Len(outbox) : IsEntry(outbox[i])
  BY Parts, SequenceFacts DEF BoxInv
<1>5. /\ DOMAIN b = 1..Len(outbox)
      /\ \A i \in 1..Len(outbox) :
           IsEntry(b[i]) /\ b[i].key = outbox[i].key /\ b[i].ops = outbox[i].ops
  <2>1. ASSUME NEW i \in 1..Len(outbox)
        PROVE  IsEntry(b[i]) /\ b[i].key = outbox[i].key /\ b[i].ops = outbox[i].ops
    <3> DEFINE w == outbox[i]
               v == [w EXCEPT !.held = FALSE, !.tracked = FALSE]
    <3>1. b[i] = v /\ IsEntry(w)
      BY <1>4 DEF b
    <3> HIDE DEF w
    <3>2. \A held, tracked :
             /\ IsEntry([w EXCEPT !.held = held, !.tracked = tracked])
             /\ [w EXCEPT !.held = held, !.tracked = tracked].key = w.key
             /\ [w EXCEPT !.held = held, !.tracked = tracked].ops = w.ops
      BY <3>1, EntryAbandoned
    <3>3. IsEntry(v) /\ v.key = w.key /\ v.ops = w.ops
      BY <3>2, Zenon
    <3> HIDE DEF v
    <3> QED
      BY <3>1, <3>3 DEF w
  <2> QED
    BY <1>4, <2>1 DEF b
<1>6. b = [i \in 1..Len(outbox) |-> b[i]]
  BY <1>4 DEF b
<1>7. Sequence(b) /\ Len(b) = Len(outbox)
  <2>1. b \in Seq(Range(b))
    BY <1>4, <1>5, <1>6 DEF Range
  <2> QED
    BY <1>4, <1>5, <2>1 DEF Sequence
<1>8. BoxInv'
  BY <1>1, <1>5, <1>7, Parts, SameEntries
<1>9. TailInv'
  <2>1. Len(serverLog) \in 0..Len(serverLog)
    BY Parts
  <2>2. Waits(<<>>, serverLog, b)
    BY FreshTail
  <2> QED
    BY <1>1, <1>2, <2>1, <2>2 DEF TailInv
<1>10. RunInv'
  BY <1>2 DEF RunInv, Held, Resting
<1>11. ASSUME Coped' PROVE PastInv' /\ SheetInv'
  <2>1. outbox = <<>>
    BY <1>1, <1>11 DEF Coped
  <2>2. b = <<>>
    <3>1. Len(b) = 0
      BY <1>7, <2>1, EmptySequence
    <3>2. b \in Seq(Range(b))
      BY <1>7 DEF Sequence
    <3> DEFINE R == Range(b)
    <3> HIDE DEF R
    <3> QED
      BY <3>1, <3>2
  <2>3. left = <<>>
    BY <2>1, UnloggedIsFold, Unlogging!FoldEmpty DEF left
  <2>4. serverLog \o left = serverLog
    <3> DEFINE R == Range(serverLog)
    <3>1. serverLog \in Seq(R)
      BY Parts DEF Sequence
    <3> HIDE DEF R, left
    <3> QED
      BY <2>3, <3>1
  <2>5. PastInv'
    BY <1>1, <1>2, <2>2, FreshTail DEF PastInv
  <2>6. Executed(Resting, <<>>) = <<>>
    BY DEF Executed, Resting
  <2>7. doc' = Content(serverLog)
    BY <1>1, <2>4
  <2>8. SheetInv'
    BY <1>1, <1>2, <2>2, <2>6, <2>7, Parts, SheetAfresh DEF SheetInv
  <2> QED
    BY <2>5, <2>8
<1> QED
  BY <1>3, <1>8, <1>9, <1>10, <1>11 DEF UndoInv, JournalInv

LEMMA LogGrows ==
  ASSUME UndoInv, NEW e, serverLog' = Append(serverLog, e),
         UNCHANGED <<fed, outbox, doc, coord, keys, mishaps>>,
         e.key \in 0..keys,
         e.key # 0 => \A n \in 1..Len(serverLog) : serverLog[n].key # e.key,
         \A i \in 1..Len(outbox) : outbox[i].key = e.key => outbox[i].ops = e.ops,
         coord.run.phase \in {"kept", "refused"} => e.key # coord.run.key
  PROVE  UndoInv'
<1> DEFINE log == Append(serverLog, e)
<1>0. LogInv /\ BoxInv
  BY Parts
<1>1. /\ Sequence(log) /\ Len(log) = Len(serverLog) + 1 /\ log[Len(serverLog) + 1] = e
      /\ \A n \in 1..Len(serverLog) : log[n] = serverLog[n]
      /\ Len(serverLog) \in Nat
  BY Parts, SequenceFacts
<1>2. Waits(coord.tail, log, outbox)
  BY Parts, WaitsLog
<1>3. SubSeq(log, 1, coord.seq) = SubSeq(serverLog, 1, coord.seq)
  <2> DEFINE R == Range(serverLog) \cup {e}
  <2>1. serverLog \in Seq(R) /\ e \in R /\ coord.seq \in 0..Len(serverLog)
    BY Parts DEF Sequence
  <2> HIDE DEF R
  <2> QED
    BY <2>1
<1> HIDE DEF log
<1>4. serverLog' = log
  BY DEF log
<1>5. \A n \in 1..Len(log) : n \in 1..Len(serverLog) \/ n = Len(serverLog) + 1
  BY <1>1
<1>6. LogInv'
  <2>1. \A n \in 1..Len(log) : log[n].key \in 0..keys
    BY <1>0, <1>1, <1>5 DEF LogInv
  <2>2. ASSUME NEW n \in 1..Len(log), NEW m \in 1..Len(log),
               log[n].key = log[m].key, log[n].key # 0
        PROVE  n = m
    BY <1>0, <1>1, <1>5, <2>2 DEF LogInv
  <2>3. fed \in 0..Len(log)
    BY <1>0, <1>1 DEF LogInv
  <2> QED
    BY <1>0, <1>1, <1>4, <2>1, <2>2, <2>3 DEF LogInv
<1>7. BoxInv'
  <2>1. \A i \in 1..Len(outbox) : \A n \in 1..Len(log) :
           log[n].key = outbox[i].key => log[n].ops = outbox[i].ops
    BY <1>0, <1>1, <1>5 DEF BoxInv
  <2> QED
    BY <1>0, <1>4, <2>1 DEF BoxInv
<1>8. TailInv'
  <2>1. coord.seq \in 0..Len(log)
    BY <1>1, Parts
  <2> QED
    BY <1>2, <1>4, <2>1, Parts DEF TailInv
<1>9. RunInv'
  <2>1. Held(coord.run, log, outbox)
    BY <1>1, <1>5, Parts DEF Held
  <2> QED
    BY <1>4, <2>1 DEF RunInv
<1>10. ASSUME Coped', coord'.status = "active" PROVE PastInv' /\ SheetInv'
  <2>1. PastInv /\ SheetInv
    BY <1>10 DEF UndoInv, Coped
  <2>2. Len(serverLog) + 1 > coord.seq
    BY Parts
  <2>3. \A i \in 1..Len(outbox) :
           /\ outbox[i].tracked
           /\ \A n \in 1..Len(log) : log[n].key = outbox[i].key => n > coord.seq
    BY <1>1, <1>5, <2>1, <2>2 DEF PastInv, Past
  <2>4. Past(coord.tail, log, outbox, coord.seq)
    BY <2>1, <2>3 DEF PastInv, Past
  <2>5. Sheet(coord.tail, log, Executed(coord.run, outbox), coord.seq)
          = Sheet(coord.tail, serverLog, Executed(coord.run, outbox), coord.seq)
    BY <1>3 DEF Sheet
  <2> QED
    BY <1>4, <2>1, <2>4, <2>5 DEF PastInv, SheetInv
<1> QED
  BY <1>6, <1>7, <1>8, <1>9, <1>10 DEF UndoInv, JournalInv

LEMMA ServerLogsKeeps ==
  ASSUME UndoInv, ServerLogs
  PROVE  UndoInv'
<1> DEFINE e == Head(outbox)
<1>1. /\ outbox # <<>> /\ ~e.held /\ serverLog' = Append(serverLog, e)
      /\ \A n \in DOMAIN serverLog : serverLog[n].key # e.key
      /\ UNCHANGED <<fed, outbox, doc, coord, keys, mishaps>>
  BY DEF ServerLogs
<1>2. /\ Len(outbox) >= 1 /\ e = outbox[1] /\ DOMAIN serverLog = 1..Len(serverLog)
      /\ 1 \in 1..Len(outbox) /\ Len(outbox) \in 1..Len(outbox)
  <2>1. Len(outbox) >= 1 /\ e = outbox[1] /\ Len(outbox) \in Nat
    BY <1>1, Parts, SequenceFacts
  <2>2. DOMAIN serverLog = 1..Len(serverLog)
    BY Parts, SequenceFacts
  <2> QED
    BY <2>1, <2>2
<1> HIDE DEF e
<1>3. e.key \in 1..keys
  BY <1>2, Parts DEF BoxInv
<1>4. \A i \in 1..Len(outbox) : outbox[i].key = e.key => outbox[i].ops = e.ops
  BY <1>2, Parts DEF BoxInv
<1>5. coord.run.phase \in {"kept", "refused"} => e.key # coord.run.key
  <2>1. ASSUME coord.run.phase \in {"kept", "refused"}, e.key = coord.run.key PROVE FALSE
    <3>1. outbox[Len(outbox)].key = e.key /\ outbox[Len(outbox)].held
      BY <2>1, Parts DEF Held
    <3>2. Len(outbox) = 1
      BY <1>2, <3>1, Parts DEF BoxInv
    <3> QED
      BY <1>1, <1>2, <3>1, <3>2
  <2> QED
    BY <2>1
<1>6. e.key \in 0..keys
  BY <1>3, Parts
<1> QED
  BY <1>1, <1>2, <1>4, <1>5, <1>6, LogGrows

LEMMA OtherLogsKeeps ==
  ASSUME UndoInv, NEW cells, OtherLogs(cells)
  PROVE  UndoInv'
<1> DEFINE e == [key |-> 0, id |-> 0, kind |-> "do",
                 ops |-> [cell \in cells |-> -budget.others]]
<1>1. /\ serverLog' = Append(serverLog, e) /\ e.key = 0
      /\ UNCHANGED <<fed, outbox, doc, coord, keys, mishaps>>
  BY DEF OtherLogs
<1> HIDE DEF e
<1>2. \A i \in 1..Len(outbox) : outbox[i].key # e.key
  <2>1. \A i \in 1..Len(outbox) : outbox[i].key \in 1..keys
    BY Parts DEF BoxInv
  <2> QED
    BY <1>1, <2>1, Parts
<1>3. coord.run.phase \in {"kept", "refused"} => e.key # coord.run.key
  <2>1. ASSUME coord.run.phase \in {"kept", "refused"} PROVE e.key # coord.run.key
    <3>1. outbox[Len(outbox)].key = coord.run.key /\ outbox # <<>>
      BY <2>1, Parts DEF Held
    <3>2. Len(outbox) \in 1..Len(outbox)
      <4>1. Len(outbox) >= 1
        BY <3>1, Parts, SequenceFacts
      <4> QED
        BY <4>1, Parts
    <3> QED
      BY <1>2, <3>1, <3>2
  <2> QED
    BY <2>1
<1>4. e.key \in 0..keys
  BY <1>1, Parts
<1> QED
  BY <1>1, <1>2, <1>3, <1>4, LogGrows

LEMMA FeedKeeps ==
  ASSUME UndoInv, Feed
  PROVE  UndoInv'
<1> DEFINE n == fed + 1
           o == [op |-> "remote", seq |-> n, batch |-> serverLog[n]]
<1>1. /\ n <= Len(serverLog) /\ fed' = n /\ mishaps \subseteq mishaps'
      /\ mishaps' \subseteq mishaps \cup {"answer overtaken"}
      /\ coord' = IF serverLog[n].key # 0 THEN coord ELSE Queued(coord, o)
      /\ UNCHANGED <<serverLog, outbox, doc, keys>>
  BY DEF Feed
<1>2. o.op = "remote" /\ o.seq = n /\ o.batch = serverLog[n]
  OBVIOUS
<1>3. n \in 1..Len(serverLog)
  <2>1. fed \in 0..Len(serverLog) /\ Len(serverLog) \in Nat
    BY Parts DEF LogInv
  <2>2. n <= Len(serverLog)
    BY <1>1
  <2> QED
    BY <2>1, <2>2
<1> HIDE DEF n, o
<1>4. /\ IsCoord(coord') /\ coord'.seq = coord.seq /\ coord'.status = coord.status
      /\ coord'.run = coord.run
      /\ coord'.tail = IF serverLog[n].key # 0 THEN coord.tail ELSE Append(coord.tail, o)
  BY <1>1, Parts, QueuedKeeps
<1>5. Waits(coord'.tail, serverLog, outbox)
  <2>1. serverLog[n].key = 0 => Due(o, serverLog, outbox)
    BY <1>2, <1>3 DEF Due
  <2> QED
    BY <1>2, <1>4, <2>1, Parts, WaitsMore
<1>6. /\ AcksOf(coord'.tail) = AcksOf(coord.tail)
      /\ RecordsOf(coord'.tail) = RecordsOf(coord.tail)
  BY <1>2, <1>4, Parts, QueueSplit
<1>7. LogInv'
  <2>1. n \in 0..Len(serverLog)
    BY <1>3, Parts
  <2> QED
    BY <1>1, <2>1, Parts DEF LogInv
<1>8. BoxInv'
  BY <1>1, Parts DEF BoxInv
<1>9. TailInv' /\ RunInv'
  BY <1>1, <1>4, <1>5, Parts DEF TailInv, RunInv
<1>10. ASSUME Coped', coord'.status = "active" PROVE PastInv' /\ SheetInv'
  <2>1. PastInv /\ SheetInv
    BY <1>1, <1>4, <1>10, CopedBefore DEF UndoInv
  <2>2. Past(coord'.tail, serverLog, outbox, coord.seq)
    BY <1>2, <1>4, <2>1, Parts, PastMore DEF PastInv
  <2>3. Sheet(coord'.tail, serverLog, Executed(coord.run, outbox), coord.seq)
          = Sheet(coord.tail, serverLog, Executed(coord.run, outbox), coord.seq)
    BY <1>6 DEF Sheet
  <2> QED
    BY <1>1, <1>4, <2>1, <2>2, <2>3 DEF PastInv, SheetInv
<1> QED
  BY <1>7, <1>8, <1>9, <1>10 DEF UndoInv, JournalInv

LEMMA FrontIs ==
  ASSUME NEW S, NEW s \in Seq(S), Len(s) >= 1
  PROVE  /\ SubSeq(s, 1, Len(s) - 1) \in Seq(S)
         /\ Len(SubSeq(s, 1, Len(s) - 1)) = Len(s) - 1
         /\ \A i \in 1..(Len(s) - 1) : SubSeq(s, 1, Len(s) - 1)[i] = s[i]
<1> DEFINE n == Len(s) - 1
<1>1. n \in Nat /\ \A i \in 1..n : s[i] \in S
  OBVIOUS
<1> HIDE DEF n
<1>2. /\ SubSeq(s, 1, n) \in Seq(S)
      /\ Len(SubSeq(s, 1, n)) = IF 1 <= n THEN n - 1 + 1 ELSE 0
      /\ \A i \in 1..(n - 1 + 1) : SubSeq(s, 1, n)[i] = s[1 + i - 1]
  BY <1>1, SubSeqProperties
<1>3. n - 1 + 1 = n /\ (IF 1 <= n THEN n - 1 + 1 ELSE 0) = n
      /\ \A i \in 1..n : 1 + i - 1 = i
  BY <1>1
<1>4. /\ SubSeq(s, 1, n) \in Seq(S) /\ Len(SubSeq(s, 1, n)) = n
      /\ \A i \in 1..n : SubSeq(s, 1, n)[i] = s[i]
  BY <1>2, <1>3, Zenon
<1> QED
  BY <1>4, Zenon DEF n

LEMMA FrontOfTail ==
  ASSUME NEW S, NEW p \in Seq(S), Len(p) >= 2
  PROVE  /\ SubSeq(p, 1, Len(p) - 1) \in Seq(S)
         /\ SubSeq(p, 1, Len(p) - 1) # <<>>
         /\ Head(SubSeq(p, 1, Len(p) - 1)) = Head(p)
         /\ SubSeq(Tail(p), 1, Len(Tail(p)) - 1) = Tail(SubSeq(p, 1, Len(p) - 1))
<1> DEFINE q == SubSeq(p, 1, Len(p) - 1)
           t == Tail(p)
           u == SubSeq(t, 1, Len(t) - 1)
<1>0. Len(p) \in Nat
  OBVIOUS
<1>6. q \in Seq(S) /\ Len(q) = Len(p) - 1 /\ \A i \in 1..(Len(p) - 1) : q[i] = p[i]
  BY <1>0, FrontIs
<1>2. t \in Seq(S) /\ Len(t) = Len(p) - 1 /\ \A i \in 1..(Len(p) - 1) : t[i] = p[i + 1]
  BY <1>0
<1> HIDE DEF q, t
<1>1. q \in Seq(S) /\ Len(q) = Len(p) - 1 /\ q # <<>> /\ Head(q) = Head(p)
      /\ \A i \in 1..(Len(p) - 1) : q[i] = p[i]
  <2>1. 1 \in 1..(Len(p) - 1) /\ Len(q) >= 1
    BY <1>0, <1>6
  <2>2. q # <<>> /\ Head(q) = q[1]
    BY <1>6, <2>1
  <2>3. q[1] = p[1] /\ Head(p) = p[1]
    BY <1>6, <2>1
  <2> QED
    BY <1>6, <2>2, <2>3
<1>3. u \in Seq(S) /\ Len(u) = Len(p) - 2 /\ \A i \in 1..(Len(p) - 2) : u[i] = p[i + 1]
  <2>1. Len(t) \in Nat /\ Len(t) >= 1 /\ Len(t) - 1 = Len(p) - 2
    BY <1>0, <1>2
  <2>2. u \in Seq(S) /\ Len(u) = Len(t) - 1 /\ \A i \in 1..(Len(t) - 1) : u[i] = t[i]
    BY <1>2, <2>1, FrontIs
  <2>3. \A i \in 1..(Len(t) - 1) : t[i] = p[i + 1]
    BY <1>0, <1>2, <2>1
  <2> QED
    BY <2>1, <2>2, <2>3
<1>4. /\ Tail(q) \in Seq(S) /\ Len(Tail(q)) = Len(p) - 2
      /\ \A i \in 1..(Len(p) - 2) : Tail(q)[i] = p[i + 1]
  BY <1>0, <1>1
<1> HIDE DEF u
<1>5. u = Tail(q)
  BY <1>3, <1>4, SeqEqual
<1> QED
  BY <1>1, <1>5 DEF q, t, u

(* The head of the outbox moves on to the tail of the coordinator. *)
LEMMA AckedKeeps ==
  ASSUME UndoInv, Acked
  PROVE  UndoInv'
<1> DEFINE h == Head(outbox)
           b == Tail(outbox)
<1>1. PICK n \in DOMAIN serverLog :
         /\ outbox # <<>> /\ serverLog[n].key = h.key /\ outbox' = b
         /\ coord' = IF h.tracked THEN Queued(coord, [op |-> "ack", seq |-> n, batch |-> h])
                     ELSE coord
         /\ UNCHANGED <<serverLog, fed, doc, keys, mishaps>>
  BY DEF Acked
<1> DEFINE o == [op |-> "ack", seq |-> n, batch |-> h]
<1>2. o.op = "ack" /\ o.seq = n /\ o.batch = h
  OBVIOUS
<1>3. /\ Sequence(b) /\ Len(b) = Len(outbox) - 1 /\ h = outbox[1] /\ Len(outbox) >= 1
      /\ \A i \in 1..Len(b) : b[i] = outbox[i + 1] /\ i + 1 \in 1..Len(outbox)
      /\ 1 \in 1..Len(outbox) /\ Len(b) \in Nat
  <2>1. /\ Sequence(b) /\ Len(b) = Len(outbox) - 1 /\ h = outbox[1] /\ Len(outbox) >= 1
        /\ \A i \in 1..Len(b) : b[i] = outbox[i + 1] /\ i + 1 \in 1..Len(outbox)
    BY <1>1, Parts, SequenceFacts
  <2> HIDE DEF b, h
  <2> QED
    BY <2>1, Parts
<1>4. n \in 1..Len(serverLog)
  BY <1>1, Parts, SequenceFacts
<1>5. /\ coord' = IF h.tracked THEN Queued(coord, o) ELSE coord
      /\ serverLog[n].key = h.key /\ outbox' = b
      /\ UNCHANGED <<serverLog, fed, doc, keys, mishaps>>
  BY <1>1
<1> HIDE DEF o, h, b
<1>6. h.key \in 1..keys /\ h.key # 0 /\ serverLog[n].ops = h.ops
  <2>1. h.key \in 1..keys /\ serverLog[n].ops = h.ops
    BY <1>3, <1>4, <1>5, Parts DEF BoxInv
  <2> QED
    BY <2>1, Parts
<1>7. \A i \in 1..Len(b) : b[i].key # h.key
  <2>1. ASSUME NEW i \in 1..Len(b), b[i].key = h.key PROVE FALSE
    <3>1. i + 1 = 1
      BY <1>3, <2>1, Parts DEF BoxInv
    <3> QED
      BY <3>1
  <2> QED
    BY <2>1
<1>8. /\ IsCoord(coord') /\ coord'.seq = coord.seq /\ coord'.status = coord.status
      /\ coord'.run = coord.run
      /\ coord'.tail = IF h.tracked THEN Append(coord.tail, o) ELSE coord.tail
  BY <1>5, Parts, QueuedKeeps
<1>9. Waits(coord'.tail, serverLog, b)
  <2>1. Waits(coord.tail, serverLog, b)
    <3>1. \A j \in 1..Len(b) : \E i \in 1..Len(outbox) : b[j].key = outbox[i].key
      BY <1>3
    <3> QED
      BY <3>1, Parts, WaitsBox
  <2>2. Due(o, serverLog, b)
    BY <1>2, <1>4, <1>5, <1>6, <1>7 DEF Due
  <2>3. \A i \in 1..Len(coord.tail) :
           coord.tail[i].op = "ack" => coord.tail[i].batch.key # o.batch.key
    BY <1>2, <1>3, Parts DEF Waits, Due
  <2>4. Waits(Append(coord.tail, o), serverLog, b)
    BY <2>1, <2>2, <2>3, WaitsMore
  <2> QED
    BY <1>8, <2>1, <2>4
<1>10. coord.run.phase \in {"kept", "refused"} =>
         b # <<>> /\ b[Len(b)] = outbox[Len(outbox)] /\ Len(b) >= 1
  <2>1. ASSUME coord.run.phase \in {"kept", "refused"}
        PROVE  b # <<>> /\ b[Len(b)] = outbox[Len(outbox)] /\ Len(b) >= 1
    <3>1. outbox[Len(outbox)].key = coord.run.key /\ serverLog[n].key # coord.run.key
      BY <1>4, <2>1, Parts DEF Held
    <3>2. Len(outbox) # 1
      BY <1>3, <1>5, <3>1
    <3>3. Len(b) >= 1 /\ Len(b) \in 1..Len(b) /\ Len(b) + 1 = Len(outbox)
      BY <1>3, <3>2, Parts
    <3>4. b # <<>>
      BY <3>3, EmptySequence
    <3> QED
      BY <1>3, <3>3, <3>4
  <2> QED
    BY <2>1
<1>11. LogInv'
  BY <1>5, Parts DEF LogInv
<1>12. BoxInv'
  <2>0. BoxInv
    BY Parts
  <2>1. \A i \in 1..Len(b) : IsEntry(b[i]) /\ b[i].key \in 1..keys
    BY <1>3, <2>0 DEF BoxInv
  <2>2. ASSUME NEW i \in 1..Len(b), NEW j \in 1..Len(b), b[i].key = b[j].key
        PROVE  i = j
    <3>0. /\ i + 1 \in 1..Len(outbox) /\ j + 1 \in 1..Len(outbox)
          /\ outbox[i + 1].key = outbox[j + 1].key
      BY <1>3, <2>2
    <3>1. i + 1 = j + 1
      BY <2>0, <3>0 DEF BoxInv
    <3> QED
      BY <3>1
  <2>3. ASSUME NEW i \in 1..Len(b), NEW m \in 1..Len(serverLog),
               serverLog[m].key = b[i].key
        PROVE  serverLog[m].ops = b[i].ops
    <3>1. b[i] = outbox[i + 1] /\ i + 1 \in 1..Len(outbox)
      BY <1>3
    <3> QED
      BY <2>0, <2>3, <3>1 DEF BoxInv
  <2> QED
    BY <1>3, <1>5, <2>1, <2>2, <2>3 DEF BoxInv
<1>13. TailInv'
  BY <1>5, <1>8, <1>9, Parts DEF TailInv
<1>14. RunInv'
  <2>1. Held(coord.run, serverLog, b)
    BY <1>10, Parts DEF Held
  <2> QED
    BY <1>5, <1>8, <2>1 DEF RunInv
<1>15. ASSUME Coped', coord'.status = "active" PROVE PastInv' /\ SheetInv'
  <2>1. PastInv /\ SheetInv
    BY <1>5, <1>8, <1>15 DEF UndoInv, Coped
  <2>2. h.tracked /\ n > coord.seq
    BY <1>3, <1>4, <1>5, <2>1 DEF PastInv, Past
  <2>3. Past(coord.tail, serverLog, b, coord.seq)
    BY <1>3, <2>1 DEF PastInv, Past
  <2>4. Past(Append(coord.tail, o), serverLog, b, coord.seq)
    BY <1>2, <2>2, <2>3, Parts, PastMore
  <2>5. PastInv'
    BY <1>5, <1>8, <2>2, <2>4 DEF PastInv
  <2> DEFINE S == Range(outbox)
             x == Executed(coord.run, outbox)
             T == Batches(coord.tail) \cup {h}
             z == Play(Blank, SubSeq(serverLog, 1, coord.seq))
             a == AcksOf(coord.tail)
  <2>6. x \in Seq(S) /\ x # <<>> /\ Head(x) = h /\ Executed(coord.run, b) = Tail(x)
    <3>1. outbox \in Seq(S)
      BY Parts DEF Sequence
    <3>2. CASE coord.run.phase \in {"kept", "refused"}
      <4>1. Len(outbox) >= 2
        BY <1>3, <1>10, <3>2, Parts
      <4>2. x = SubSeq(outbox, 1, Len(outbox) - 1)
            /\ Executed(coord.run, b) = SubSeq(b, 1, Len(b) - 1)
        BY <3>2 DEF Executed, Front
      <4>3. /\ SubSeq(outbox, 1, Len(outbox) - 1) \in Seq(S)
            /\ SubSeq(outbox, 1, Len(outbox) - 1) # <<>>
            /\ Head(SubSeq(outbox, 1, Len(outbox) - 1)) = Head(outbox)
            /\ SubSeq(Tail(outbox), 1, Len(Tail(outbox)) - 1)
                 = Tail(SubSeq(outbox, 1, Len(outbox) - 1))
        BY <3>1, <4>1, FrontOfTail
      <4> QED
        BY <3>1, <4>1, <4>2, <4>3 DEF h, b
    <3>3. CASE coord.run.phase \notin {"kept", "refused"}
      <4>1. x = outbox /\ Executed(coord.run, b) = b
        BY <3>3 DEF Executed
      <4> QED
        BY <1>1, <3>1, <4>1 DEF h, b
    <3> QED
      BY <3>2, <3>3
  <2>7. a \in Seq(T) /\ h \in T
    <3>1. a \in Seq(Batches(coord.tail))
      BY Parts, TailBatches
    <3> QED
      BY <3>1
  <2>8. /\ AcksOf(Append(coord.tail, o)) = Append(a, h)
        /\ RecordsOf(Append(coord.tail, o)) = RecordsOf(coord.tail)
    BY <1>2, Parts, QueueSplit
  <2>9. doc = Play(Play(Play(z, a), x), RecordsOf(coord.tail))
    BY <2>1 DEF SheetInv, Sheet
  <2>10. Sheet(Append(coord.tail, o), serverLog, Executed(coord.run, b), coord.seq)
           = Play(Play(Play(z, Append(a, h)), Tail(x)), RecordsOf(coord.tail))
    BY <2>6, <2>8 DEF Sheet
  <2> HIDE DEF S, T, x, z, a
  <2>11. Play(z, Append(a, h)) = Over(Play(z, a), h.ops)
    BY <2>7, PlayMore
  <2>12. Play(Play(z, a), x) = Play(Over(Play(z, a), Head(x).ops), Tail(x))
    BY <2>6, PlayFirst
  <2>13. doc = Sheet(Append(coord.tail, o), serverLog, Executed(coord.run, b), coord.seq)
    BY <2>6, <2>9, <2>10, <2>11, <2>12
  <2> QED
    BY <1>5, <1>8, <2>2, <2>5, <2>13 DEF SheetInv
<1> QED
  BY <1>11, <1>12, <1>13, <1>14, <1>15 DEF UndoInv, JournalInv

-----------------------------------------------------------------------------
(* The invariant holds at first and after every step. *)
LEMMA UndoStarts == UndoInit => UndoInv
<1> SUFFICES ASSUME UndoInit PROVE UndoInv
  OBVIOUS
<1>1. /\ serverLog = <<>> /\ fed = 0 /\ outbox = <<>> /\ doc = Blank
      /\ coord = Fresh(0) /\ keys = 0
  BY DEF UndoInit
<1>2. /\ IsCoord(coord) /\ coord.tail = <<>> /\ coord.seq = 0 /\ coord.run = Resting
  BY <1>1, FreshIs
<1>3. Sequence(<<>>) /\ Len(<<>>) = 0 /\ 1..0 = {}
  BY EmptySequence
<1>4. LogInv
  BY <1>1, <1>3 DEF LogInv
<1>5. BoxInv
  BY <1>1, <1>3 DEF BoxInv
<1>6. TailInv
  BY <1>1, <1>2, <1>3, FreshTail DEF TailInv
<1>7. RunInv
  BY <1>2 DEF RunInv, Held, Resting
<1>8. PastInv
  BY <1>1, <1>2, FreshTail DEF PastInv
<1>9. SheetInv
  <2>1. Executed(Resting, <<>>) = <<>>
    BY DEF Executed, Resting
  <2>2. Sheet(<<>>, serverLog, <<>>, Len(serverLog)) = Content(serverLog)
    BY <1>1, <1>3, SheetAfresh
  <2>3. Content(<<>>) = Blank
    BY PlayNothing DEF Content, Play
  <2> QED
    BY <1>1, <1>2, <1>3, <2>1, <2>2, <2>3 DEF SheetInv
<1> QED
  BY <1>4, <1>5, <1>6, <1>7, <1>8, <1>9 DEF UndoInv, JournalInv

LEMMA UndoNextKeeps == UndoInv /\ [UndoNext]_uvars => UndoInv'
<1> SUFFICES ASSUME UndoInv, [UndoNext]_uvars PROVE UndoInv'
  OBVIOUS
<1>1. CASE UNCHANGED uvars
  <2>1. UNCHANGED <<serverLog, fed, outbox, doc, coord, keys, mishaps>>
    BY <1>1 DEF uvars
  <2> QED
    BY <2>1, Parts, QuietStep
<1>2. ASSUME NEW cells \in Ranges, Edit(cells) PROVE UndoInv'
  BY <1>2, EditKeeps
<1>3. ASSUME NEW cells \in Ranges, OtherLogs(cells) PROVE UndoInv'
  BY <1>3, OtherLogsKeeps
<1>4. ASSUME NEW direction \in {"undo", "redo"}, Ask(direction) PROVE UndoInv'
  BY <1>4, AskKeeps
<1>5. CASE Run
  BY <1>5, SkipKeeps, RunRecordKeeps, RunPlanKeeps, ExecuteKeeps, FinishPlanKeeps,
     CancelPlanKeeps, RunRemoteKeeps, RunAckKeeps, RunRejectKeeps DEF Run
<1>6. CASE RunUnsaved
  BY <1>6, RunUnsavedKeeps
<1>7. CASE HostRefuses
  BY <1>7, HostRefusesKeeps
<1>8. CASE RemoteRefused
  BY <1>8, RemoteRefusedKeeps
<1>9. CASE Reset
  BY <1>9, ResetKeeps
<1>10. CASE Restart
  BY <1>10, RestartKeeps
<1>11. CASE ServerLogs
  BY <1>11, ServerLogsKeeps
<1>12. CASE Acked
  BY <1>12, AckedKeeps
<1>13. CASE Feed
  BY <1>13, FeedKeeps
<1>14. ASSUME NEW i \in DOMAIN outbox, Withdraw(i) PROVE UndoInv'
  BY <1>14, WithdrawKeeps
<1> QED
  BY <1>1, <1>2, <1>3, <1>4, <1>5, <1>6, <1>7, <1>8, <1>9, <1>10, <1>11, <1>12, <1>13,
     <1>14 DEF UndoNext

(* The journal and the coordinator agree on what is outbound and, while the
   coordinator is active and what the code does not cope with has not happened, the
   sheet is the log with that on top (recordLocal, executePlan, receiveRemote,
   acknowledge). *)
THEOREM UndoInductive == UndoSpec => []UndoInv
<1>1. UndoInit => UndoInv
  BY UndoStarts
<1>2. UndoInv /\ [UndoNext]_uvars => UndoInv'
  BY UndoNextKeeps
<1> QED
  BY <1>1, <1>2, PTL DEF UndoSpec

LEMMA UndoInvFollows == UndoInv => DocFollowsLogIfCoped
<1> SUFFICES ASSUME UndoInv, Coped, coord.status = "active" PROVE doc = Content(Writes)
  BY DEF DocFollowsLogIfCoped, DocFollowsLog, Coped
<1>1. PastInv /\ SheetInv
  BY DEF UndoInv
<1> QED
  BY <1>1, SheetIsWrites

(* Undo, redo, remote batches and acknowledgements in any order: what the sheet of an
   active coordinator shows is the log with the local batches on top, unless an undo
   was executed over an edit not yet recorded, a write failed, entries outlived a
   restart, the user withdrew a batch, or the coordinator was reset before an edit was
   recorded (executePlan, recordLocal). *)
THEOREM DocAlwaysFollowsLog == UndoSpec => []DocFollowsLogIfCoped
<1>1. UndoInv => DocFollowsLogIfCoped
  BY UndoInvFollows
<1> QED
  BY <1>1, UndoInductive, PTL

=============================================================================
