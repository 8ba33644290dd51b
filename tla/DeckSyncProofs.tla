--------------------------- MODULE DeckSyncProofs ---------------------------
(***************************************************************************)
(* The confirmed deck is the log's, and batches are logged in order, each  *)
(* once: proofs about DeckSync for all decks, numbers of slides, bounds    *)
(* and entries of other editors.                                           *)
(***************************************************************************)
EXTENDS DeckSync, TLAPS

(* Folds of the module. *)
Replay == INSTANCE Folding WITH Op <- ApplyEntry
Owning == INSTANCE Folding WITH Op <- WithOwn
Draining == INSTANCE Folding WITH Op <- TakeHeld
Catching == INSTANCE Folding WITH Op <- TakeNews

-----------------------------------------------------------------------------
(***************************************************************************)
(* The inductive invariant.                                                *)
(***************************************************************************)
(* A sequence, of whatever. *)
IsList(s) == s \in Seq({s[i] : i \in DOMAIN s})

(* The deck the first n entries make. *)
DeckAt(entries, n) == FoldLeft(ApplyEntry, FirstDeck, SubSeq(entries, 1, n))

(* The batches of this tab among the entries. *)
OwnOf(entries) == FoldLeft(WithOwn, <<>>, entries)

(* No acknowledgement came late; no call was lost. *)
Timely(m) == "late acknowledgement" \notin m
NoneLost(m) == "call lost" \notin m

Done(e) == Len(e.made) - Len(e.pending)

IsEngine(e) ==
  DOMAIN e = {"base", "applied", "pending", "made", "submit", "tries", "held",
              "reload", "catching"}

(* What is pending was made last, in the order made. *)
PendingIsLast(e) ==
  /\ IsList(e.pending) /\ IsList(e.made)
  /\ Len(e.pending) <= Len(e.made)
  /\ \A i \in 1..Len(e.pending) :
       e.pending[i] = [n |-> Done(e) + i, ops |-> e.made[Done(e) + i]]

DoneIsLogged(e, entries) ==
  \A i \in 1..Done(e) :
    \E j \in 1..Len(OwnOf(entries)) : OwnOf(entries)[j] = e.made[i]

(* A catch-up asks no later than at the applied position, and answers with what
   follows there without a gap. *)
CallSound(call, applied, entries, m) ==
  /\ call.phase \in {"asked", "answered"}
  /\ call.phase = "asked" =>
       call.from \in 0..Len(entries) /\ (Timely(m) => call.from <= applied)
  /\ call.phase = "answered" =>
       /\ IsList(call.todo)
       /\ \E from \in 0..Len(entries) :
            /\ Timely(m) => from <= applied
            /\ \A i \in 1..Len(call.todo) :
                 call.todo[i] = from + i /\ from + i <= Len(entries)

(* The engine apart from its submission. *)
Core(e, entries, m) ==
  /\ IsEngine(e)
  /\ e.applied \in 0..Len(entries)
  /\ e.held \in SUBSET (1..Len(entries))
  /\ Timely(m) => e.base = DeckAt(entries, e.applied)
  /\ PendingIsLast(e)
  /\ DoneIsLogged(e, entries)
  /\ \A call \in e.catching : CallSound(call, e.applied, entries, m)

(* The loop awaits one submission, of the oldest batch, or one catch-up. *)
Waiting(e) == {call \in e.catching : call.who = "submit"}

OneLoop(e) ==
  /\ e.submit.phase \in {"idle", "asked", "answered", "catching"}
  /\ IF e.submit.phase = "catching"
     THEN \E call \in e.catching : Waiting(e) = {call}
     ELSE Waiting(e) = {}

SubmissionSound(e, entries, m) ==
  /\ e.submit.phase = "asked" =>
       /\ e.pending # <<>> /\ e.submit.batch = Head(e.pending)
       /\ e.submit.base \in 0..Len(entries)
       /\ Timely(m) => e.submit.base <= e.applied
  /\ e.submit.phase = "answered" =>
       /\ e.pending # <<>> /\ e.submit.seq \in 0..Len(entries)
       /\ e.submit.seq # 0 =>
            /\ entries[e.submit.seq].ops = Head(e.pending).ops
            /\ entries[e.submit.seq].client # 0
            /\ Timely(m) => e.submit.seq <= e.applied + 1

EngineSound(e, entries, m) ==
  Core(e, entries, m) /\ OneLoop(e) /\ SubmissionSound(e, entries, m)

RoomSound ==
  /\ IsList(log)
  /\ ident \in Nat \ {0}
  /\ feed \in Seq(0..Len(log))

OwnLogged(entries) ==
  /\ IsList(OwnOf(entries))
  /\ \A k \in 1..Len(entries) : entries[k].client # 0 =>
       \E j \in 1..Len(OwnOf(entries)) : OwnOf(entries)[j] = entries[k].ops

RequestSound(r, e) ==
  /\ r.batch \in 1..Len(e.made)
  /\ r.ops = e.made[r.batch]
  /\ r.client \in Nat \ {0}

Acknowledged(e) == e.submit.phase = "answered" /\ e.submit.seq # 0

(* The log holds what was made, up to the batch under way. *)
LoggedOnce(e, entries) ==
  /\ Len(OwnOf(entries)) = Done(e) + (IF Acknowledged(e) THEN 1 ELSE 0)
  /\ \A i \in 1..Len(OwnOf(entries)) : OwnOf(entries)[i] = e.made[i]

(* Nothing is under way but the submission that is awaited. *)
WireFits(w, e) ==
  IF e.submit.phase = "asked"
  THEN \E r \in w : w = {r} /\ r.base = e.submit.base /\ r.batch = e.submit.batch.n
  ELSE w = {}

IInv ==
  /\ RoomSound
  /\ EngineSound(deck, log, mishaps)
  /\ OwnLogged(log)
  /\ \A r \in wire : RequestSound(r, deck)
  /\ NoneLost(mishaps) => LoggedOnce(deck, log) /\ WireFits(wire, deck)

-----------------------------------------------------------------------------
(***************************************************************************)
(* Sequences, replays and what of the log is this tab's.                   *)
(***************************************************************************)
LEMMA ListFacts ==
  ASSUME NEW s, IsList(s)
  PROVE  Len(s) \in Nat /\ DOMAIN s = 1..Len(s)
BY DEF IsList

(* The empty sequence is a list. *)
LEMMA ListEmpty == IsList(<<>>) /\ Len(<<>>) = 0
BY DEF IsList

(* A list grows at its end. *)
LEMMA ListAppend ==
  ASSUME NEW s, NEW x, IsList(s)
  PROVE  /\ IsList(Append(s, x))
         /\ Len(Append(s, x)) = Len(s) + 1
         /\ \A i \in 1..Len(s) : Append(s, x)[i] = s[i]
         /\ Append(s, x)[Len(s) + 1] = x
<1> DEFINE S == {s[i] : i \in DOMAIN s} \cup {x}
           t == Append(s, x)
<1>1. s \in Seq(S) /\ x \in S
  BY DEF IsList
<1> HIDE DEF S
<1>2. t \in Seq(S) /\ Len(t) = Len(s) + 1 /\ Len(s) \in Nat
  BY <1>1
<1>3. /\ \A i \in 1..Len(s) : t[i] = s[i]
      /\ t[Len(s) + 1] = x
  BY <1>1
<1>4. t \in Seq({t[i] : i \in DOMAIN t})
  <2> HIDE DEF t
  <2> QED
    BY <1>2
<1> QED
  BY <1>2, <1>3, <1>4 DEF IsList

(* A list loses its head. *)
LEMMA ListTail ==
  ASSUME NEW s, IsList(s), s # <<>>
  PROVE  /\ IsList(Tail(s))
         /\ Len(s) > 0 /\ Len(Tail(s)) = Len(s) - 1
         /\ \A i \in 1..Len(Tail(s)) : Tail(s)[i] = s[i + 1]
         /\ Head(s) = s[1]
<1> DEFINE S == {s[i] : i \in DOMAIN s}
           t == Tail(s)
<1>1. s \in Seq(S)
  BY DEF IsList
<1> HIDE DEF S
<1>2. t \in Seq(S) /\ Len(t) = Len(s) - 1 /\ Len(s) > 0 /\ Head(s) = s[1]
  BY <1>1
<1>3. \A i \in 1..Len(t) : t[i] = s[i + 1]
  BY <1>1, <1>2
<1>4. t \in Seq({t[i] : i \in DOMAIN t})
  <2> HIDE DEF t
  <2> QED
    BY <1>2
<1> QED
  BY <1>2, <1>3, <1>4 DEF IsList

(* Applying the log is a fold, as Folding has it. *)
LEMMA ReplayIsFold ==
  ASSUME NEW d, NEW s
  PROVE  FoldLeft(ApplyEntry, d, s) = Replay!Folded(d, s)
BY DEF Replay!Folded, FoldLeft, MapThenFoldSet, Replay!FoldLeft,
       Replay!MapThenFoldSet, Replay!Max, Max

(* So is picking this tab's batches out of the log. *)
LEMMA OwningIsFold ==
  ASSUME NEW d, NEW s
  PROVE  FoldLeft(WithOwn, d, s) = Owning!Folded(d, s)
BY DEF Owning!Folded, FoldLeft, MapThenFoldSet, Owning!FoldLeft,
       Owning!MapThenFoldSet, Owning!Max, Max

(* So is drain. *)
LEMMA DrainIsFold ==
  ASSUME NEW d, NEW s
  PROVE  FoldLeft(TakeHeld, d, s) = Draining!Folded(d, s)
BY DEF Draining!Folded, FoldLeft, MapThenFoldSet, Draining!FoldLeft,
       Draining!MapThenFoldSet, Draining!Max, Max

(* So is taking in the answer of a catch-up. *)
LEMMA CatchUpIsFold ==
  ASSUME NEW d, NEW s
  PROVE  FoldLeft(TakeNews, d, s) = Catching!Folded(d, s)
BY DEF Catching!Folded, FoldLeft, MapThenFoldSet, Catching!FoldLeft,
       Catching!MapThenFoldSet, Catching!Max, Max

(* Nothing applied, the deck is as loaded. *)
LEMMA DeckAtStart == ASSUME NEW entries PROVE DeckAt(entries, 0) = FirstDeck
<1>1. SubSeq(entries, 1, 0) = <<>>
  OBVIOUS
<1> QED
  BY <1>1, ReplayIsFold, Replay!FoldEmpty DEF DeckAt

(* The deck at a position is the one before it with that entry applied. *)
LEMMA DeckAtNext ==
  ASSUME NEW entries, IsList(entries), NEW n \in 0..(Len(entries) - 1)
  PROVE  DeckAt(entries, n + 1) = ApplyEntry(DeckAt(entries, n), entries[n + 1])
<1> DEFINE S == {entries[i] : i \in DOMAIN entries}
           s == SubSeq(entries, 1, n)
<1>1. entries \in Seq(S) /\ entries[n + 1] \in S
  BY DEF IsList
<1> HIDE DEF S
<1>2. s \in Seq(S)
  BY <1>1
<1>3. SubSeq(entries, 1, n + 1) = Append(s, entries[n + 1])
  BY <1>1
<1> HIDE DEF s
<1>4. Replay!Folded(FirstDeck, Append(s, entries[n + 1]))
        = ApplyEntry(Replay!Folded(FirstDeck, s), entries[n + 1])
  BY <1>1, <1>2, Replay!FoldAppend
<1> QED
  BY <1>3, <1>4, ReplayIsFold DEF DeckAt, s

(* What is logged later changes no deck before. *)
LEMMA DeckAtLonger ==
  ASSUME NEW entries, IsList(entries), NEW x, NEW n \in 0..Len(entries)
  PROVE  DeckAt(Append(entries, x), n) = DeckAt(entries, n)
<1>1. SubSeq(Append(entries, x), 1, n) = SubSeq(entries, 1, n)
  <2> DEFINE S == {entries[i] : i \in DOMAIN entries} \cup {x}
  <2>1. entries \in Seq(S) /\ x \in S
    BY DEF IsList
  <2> HIDE DEF S
  <2> QED
    BY <2>1
<1> QED
  BY <1>1 DEF DeckAt

(* Of an empty log nothing is this tab's. *)
LEMMA OwnOfNothing == OwnOf(<<>>) = <<>>
BY OwningIsFold, Owning!FoldEmpty DEF OwnOf

(* What is this tab's grows with an entry of its own and no other. *)
LEMMA OwnOfLonger ==
  ASSUME NEW entries, IsList(entries), NEW x
  PROVE  OwnOf(Append(entries, x)) = WithOwn(OwnOf(entries), x)
<1> DEFINE S == {entries[i] : i \in DOMAIN entries} \cup {x}
<1>1. entries \in Seq(S) /\ x \in S
  BY DEF IsList
<1> HIDE DEF S
<1>2. Owning!Folded(<<>>, Append(entries, x)) = WithOwn(Owning!Folded(<<>>, entries), x)
  BY <1>1, Owning!FoldAppend
<1> QED
  BY <1>2, OwningIsFold DEF OwnOf

-----------------------------------------------------------------------------
(***************************************************************************)
(* The engine takes in entries: the applied position moves on, and the     *)
(* base with it as long as no position is left out.                        *)
(***************************************************************************)
Advances(e, u) ==
  /\ IsEngine(u)
  /\ u.applied \in e.applied..Len(log)
  /\ u.held \in SUBSET e.held
  /\ u.pending = e.pending /\ u.made = e.made /\ u.submit = e.submit
  /\ u.tries = e.tries /\ u.reload = e.reload /\ u.catching = e.catching

Follows(e) == e.base = DeckAt(log, e.applied)

(* Applying the next entry keeps the deck the fold of the log. *)
LEMMA ApplyAdvances ==
  ASSUME IsList(log), NEW e, IsEngine(e), e.applied \in 0..Len(log),
         NEW n \in 1..Len(log), n > e.applied
  PROVE  /\ Advances(e, Apply(e, n))
         /\ Apply(e, n).applied = n
         /\ n = e.applied + 1 /\ Follows(e) => Follows(Apply(e, n))
<1> DEFINE u == Apply(e, n)
<1>1. Len(log) \in Nat
  BY ListFacts
<1>2. Advances(e, u) /\ u.applied = n /\ u.base = ApplyEntry(e.base, log[n])
  BY <1>1 DEF Apply, Advances, IsEngine
<1>3. n = e.applied + 1 /\ Follows(e) => Follows(u)
  <2> HIDE DEF u
  <2>1. SUFFICES ASSUME n = e.applied + 1, Follows(e) PROVE Follows(u)
    OBVIOUS
  <2>2. DeckAt(log, e.applied + 1) = ApplyEntry(DeckAt(log, e.applied), log[e.applied + 1])
    <3>1. e.applied \in 0..(Len(log) - 1)
      BY <1>1, <2>1
    <3> QED
      BY <3>1, DeckAtNext
  <2> QED
    BY <1>2, <2>1, <2>2 DEF Follows
<1> QED
  BY <1>2, <1>3

(* One position of drain. *)
LEMMA TakeHeldAdvances ==
  ASSUME IsList(log), NEW e, IsEngine(e), e.applied \in 0..Len(log),
         NEW n \in 1..Len(log)
  PROVE  Advances(e, TakeHeld(e, n)) /\ (Follows(e) => Follows(TakeHeld(e, n)))
<1>1. Len(log) \in Nat
  BY ListFacts
<1>2. CASE ~(n = e.applied + 1 /\ n \in e.held)
  BY <1>1, <1>2 DEF TakeHeld, Advances, IsEngine
<1>3. CASE n = e.applied + 1 /\ n \in e.held
  <2> DEFINE v == [e EXCEPT !.held = @ \ {n}]
             u == Apply(v, n)
  <2>1. Advances(e, v) /\ v.applied = e.applied /\ v.base = e.base
    BY <1>1 DEF Advances, IsEngine
  <2>2. TakeHeld(e, n) = u
    BY <1>3 DEF TakeHeld
  <2> HIDE DEF v
  <2>3. IsEngine(v) /\ v.applied \in 0..Len(log) /\ n > v.applied
    BY <1>3, <2>1 DEF Advances
  <2>4. Advances(v, u) /\ (n = v.applied + 1 /\ Follows(v) => Follows(u))
    BY <2>3, ApplyAdvances
  <2> HIDE DEF u
  <2>5. Advances(e, u)
    BY <2>1, <2>4 DEF Advances
  <2>6. Follows(e) => Follows(u)
    BY <1>3, <2>1, <2>4 DEF Follows
  <2> QED
    BY <2>2, <2>5, <2>6
<1> QED
  BY <1>2, <1>3

(* Two such steps make one. *)
LEMMA AdvancesOn ==
  ASSUME NEW e, NEW u, NEW v, Len(log) \in Nat, e.applied \in 0..Len(log),
         Advances(e, u), Advances(u, v)
  PROVE  Advances(e, v)
BY DEF Advances

(* drain leaves out no position. *)
LEMMA DrainAdvances ==
  ASSUME IsList(log), NEW e, IsEngine(e), e.applied \in 0..Len(log)
  PROVE  Advances(e, Drain(e)) /\ (Follows(e) => Follows(Drain(e)))
<1> DEFINE m == Len(log)
           s == [n \in 1..m |-> n]
<1>1. m \in Nat /\ DOMAIN s = 1..m /\ \A k \in 0..(m - 1) : s[k + 1] = k + 1
  BY ListFacts
<1>2. Drain(e) = Draining!Folded(e, s)
  BY DrainIsFold DEF Drain
<1> HIDE DEF s
<1>3. PICK c : Draining!IsChain(c, m, e, s) /\ Draining!Folded(e, s) = c[m]
  BY <1>1, Draining!FoldChain
<1> DEFINE S == {k \in 0..m : Advances(e, c[k]) /\ (Follows(e) => Follows(c[k]))}
<1>4. 0 \in S
  <2>1. c[0] = e
    BY <1>3 DEF Draining!IsChain
  <2>2. Advances(e, e)
    BY <1>1 DEF Advances
  <2> QED
    BY <1>1, <2>1, <2>2
<1>5. ASSUME NEW k \in 0..(m - 1), k \in S PROVE k + 1 \in S
  <2>1. Advances(e, c[k]) /\ (Follows(e) => Follows(c[k]))
    BY <1>5
  <2>2. c[k + 1] = TakeHeld(c[k], k + 1)
    BY <1>1, <1>3 DEF Draining!IsChain
  <2>3. IsEngine(c[k]) /\ c[k].applied \in 0..m /\ k + 1 \in 1..m
    BY <1>1, <2>1 DEF Advances
  <2>4. /\ Advances(c[k], TakeHeld(c[k], k + 1))
        /\ Follows(c[k]) => Follows(TakeHeld(c[k], k + 1))
    BY <2>3, TakeHeldAdvances
  <2>5. Advances(e, c[k + 1])
    BY <1>1, <2>1, <2>2, <2>4, AdvancesOn
  <2> QED
    BY <1>1, <2>1, <2>2, <2>4, <2>5
<1>6. 0..m \subseteq S
  <2> HIDE DEF S, m
  <2> QED
    BY <1>1, <1>4, <1>5, Draining!Induction
<1>7. m \in S
  BY <1>1, <1>6
<1> QED
  BY <1>2, <1>3, <1>7

(* An answer without a gap, from the applied position or before. *)
LEMMA NewsAdvance ==
  ASSUME IsList(log), NEW e, IsEngine(e), e.applied \in 0..Len(log),
         NEW todo, IsList(todo), NEW from \in 0..Len(log),
         \A i \in 1..Len(todo) : todo[i] = from + i /\ from + i <= Len(log)
  PROVE  LET u == FoldLeft(TakeNews, e, todo)
         IN  Advances(e, u) /\ (Follows(e) /\ from <= e.applied => Follows(u))
<1> DEFINE m == Len(todo)
           On == Follows(e) /\ from <= e.applied
<1>1. m \in Nat /\ DOMAIN todo = 1..m /\ Len(log) \in Nat
  BY ListFacts
<1>2. PICK c : Catching!IsChain(c, m, e, todo) /\ Catching!Folded(e, todo) = c[m]
  BY <1>1, Catching!FoldChain
<1> DEFINE S == {k \in 0..m : /\ Advances(e, c[k])
                              /\ On => Follows(c[k]) /\ c[k].applied >= from + k}
<1>3. 0 \in S
  <2>1. c[0] = e
    BY <1>2 DEF Catching!IsChain
  <2>2. Advances(e, e)
    BY <1>1 DEF Advances
  <2> QED
    BY <1>1, <2>1, <2>2
<1>4. ASSUME NEW k \in 0..(m - 1), k \in S PROVE k + 1 \in S
  <2> DEFINE u == c[k]
             v == c[k + 1]
             n == from + (k + 1)
  <2>1. Advances(e, u) /\ (On => Follows(u) /\ u.applied >= from + k)
    BY <1>4
  <2>2. v = TakeNews(u, todo[k + 1])
    BY <1>1, <1>2 DEF Catching!IsChain
  <2>3. todo[k + 1] = n /\ n <= Len(log) /\ n \in 1..Len(log)
    <3>1. k + 1 \in 1..Len(todo)
      BY <1>1
    <3> QED
      BY <1>1, <3>1
  <2>4. IsEngine(u) /\ u.applied \in 0..Len(log)
    BY <1>1, <2>1 DEF Advances
  <2> HIDE DEF u, v
  <2>5. CASE n <= u.applied
    <3>1. v = u
      BY <2>2, <2>3, <2>4, <2>5 DEF TakeNews
    <3>2. k + 1 \in 0..m /\ (On => v.applied >= from + (k + 1))
      BY <1>1, <2>5, <3>1
    <3>3. Advances(e, v) /\ (On => Follows(v))
      BY <2>1, <3>1
    <3> QED
      BY <3>2, <3>3 DEF v
  <2>6. CASE n > u.applied
    <3>1. v = Apply(u, n)
      BY <2>2, <2>3, <2>4, <2>6 DEF TakeNews
    <3>2. /\ Advances(u, v) /\ v.applied = n
          /\ n = u.applied + 1 /\ Follows(u) => Follows(v)
      <4> HIDE DEF n
      <4> QED
        BY <2>3, <2>4, <2>6, <3>1, ApplyAdvances
    <3>3. Advances(e, v)
      BY <1>1, <2>1, <3>2, AdvancesOn
    <3>4. On => Follows(v) /\ v.applied >= from + (k + 1)
      <4>1. On => n = u.applied + 1
        BY <2>1, <2>4, <2>6
      <4> QED
        BY <2>1, <3>2, <4>1
    <3> QED
      BY <1>1, <3>3, <3>4 DEF v
  <2> QED
    BY <2>4, <2>5, <2>6
<1>5. 0..m \subseteq S
  <2> HIDE DEF S, m
  <2> QED
    BY <1>1, <1>3, <1>4, Catching!Induction
<1>6. m \in S
  BY <1>1, <1>5
<1> QED
  BY <1>2, <1>6, CatchUpIsFold

-----------------------------------------------------------------------------
(***************************************************************************)
(* What the engine's handlers keep.                                        *)
(***************************************************************************)
(* Taking in entries keeps an engine sound. *)
LEMMA AdvanceIsSound ==
  ASSUME NEW e, NEW u, NEW m, Len(log) \in Nat, EngineSound(e, log, m), Advances(e, u),
         Timely(m) /\ Follows(e) => Follows(u)
  PROVE  EngineSound(u, log, m)
<1>1. e.applied \in 0..Len(log) /\ u.applied \in 0..Len(log) /\ e.applied <= u.applied
  BY DEF EngineSound, Core, Advances
<1>2. Core(u, log, m)
  <2>1. IsEngine(u) /\ u.held \in SUBSET (1..Len(log))
    BY DEF EngineSound, Core, Advances
  <2>2. Timely(m) => u.base = DeckAt(log, u.applied)
    BY DEF EngineSound, Core, Follows
  <2>3. PendingIsLast(u) /\ DoneIsLogged(u, log)
    BY DEF EngineSound, Core, Advances, PendingIsLast, DoneIsLogged, Done
  <2>4. ASSUME NEW call \in u.catching PROVE CallSound(call, u.applied, log, m)
    <3>1. CallSound(call, e.applied, log, m)
      BY <2>4 DEF EngineSound, Core, Advances
    <3> QED
      BY <1>1, <3>1 DEF CallSound
  <2> QED
    BY <1>1, <2>1, <2>2, <2>3, <2>4 DEF Core
<1>3. OneLoop(u)
  BY DEF EngineSound, Advances, OneLoop, Waiting
<1>4. SubmissionSound(u, log, m)
  <2>1. u.submit = e.submit /\ u.pending = e.pending
    BY DEF Advances
  <2>2. u.submit.phase = "asked" =>
          /\ u.pending # <<>> /\ u.submit.batch = Head(u.pending)
          /\ u.submit.base \in 0..Len(log)
          /\ Timely(m) => u.submit.base <= u.applied
    BY <1>1, <2>1 DEF EngineSound, SubmissionSound
  <2>3. u.submit.phase = "answered" =>
          /\ u.pending # <<>> /\ u.submit.seq \in 0..Len(log)
          /\ u.submit.seq # 0 =>
               /\ log[u.submit.seq].ops = Head(u.pending).ops
               /\ log[u.submit.seq].client # 0
               /\ Timely(m) => u.submit.seq <= u.applied + 1
    BY <1>1, <2>1 DEF EngineSound, SubmissionSound
  <2> QED
    BY <2>2, <2>3 DEF SubmissionSound
<1> QED
  BY <1>2, <1>3, <1>4 DEF EngineSound

(* What a step of the loop may change. *)
Resumes(e, u) ==
  /\ u.made = e.made /\ u.pending = e.pending
  /\ \/ u.submit = e.submit
     \/ e.submit.phase \in {"idle", "catching"} /\ u.submit.phase \in {"idle", "asked"}

(* The loop, once nothing is awaited. *)
LEMMA SubmitLoopSound ==
  ASSUME NEW e, NEW m, Len(log) \in Nat, Core(e, log, m), Waiting(e) = {}
  PROVE  /\ EngineSound(SubmitLoop(e), log, m)
         /\ SubmitLoop(e).made = e.made /\ SubmitLoop(e).pending = e.pending
         /\ SubmitLoop(e).submit.phase \in {"idle", "asked"}
<1> DEFINE u == SubmitLoop(e)
           sent == [phase |-> "asked", base |-> e.applied, batch |-> Head(e.pending)]
<1>1. /\ IsEngine(u)
      /\ u.base = e.base /\ u.applied = e.applied /\ u.held = e.held
      /\ u.pending = e.pending /\ u.made = e.made /\ u.catching = e.catching
      /\ u.submit = Idle \/ (e.pending # <<>> /\ u.submit = sent)
  BY DEF Core, IsEngine, SubmitLoop
<1>2. sent.phase = "asked" /\ sent.base = e.applied /\ sent.batch = Head(e.pending)
  OBVIOUS
<1> HIDE DEF u, sent
<1>3. Core(u, log, m)
  BY <1>1 DEF Core, PendingIsLast, DoneIsLogged, Done
<1>4. OneLoop(u) /\ u.submit.phase \in {"idle", "asked"}
  BY <1>1, <1>2 DEF OneLoop, Waiting, Idle
<1>5. SubmissionSound(u, log, m)
  <2>1. CASE u.submit = Idle
    BY <2>1 DEF SubmissionSound, Idle
  <2>2. CASE e.pending # <<>> /\ u.submit = sent
    <3>1. e.applied \in 0..Len(log)
      BY DEF Core
    <3> QED
      BY <1>1, <1>2, <2>2, <3>1 DEF SubmissionSound
  <2> QED
    BY <1>1, <2>1, <2>2
<1> QED
  BY <1>1, <1>3, <1>4, <1>5 DEF EngineSound, u

(* Sending the oldest batch, unless one is under way, keeps the engine in order. *)
LEMMA SubmitUnlessBusySound ==
  ASSUME NEW e, NEW m, Len(log) \in Nat, EngineSound(e, log, m)
  PROVE  LET u == SubmitUnlessBusy(e)
         IN  EngineSound(u, log, m) /\ Resumes(e, u)
<1>1. CASE e.submit.phase # "idle"
  BY <1>1 DEF SubmitUnlessBusy, Resumes
<1>2. CASE e.submit.phase = "idle"
  <2>1. Core(e, log, m) /\ Waiting(e) = {}
    BY <1>2 DEF EngineSound, OneLoop
  <2>2. SubmitUnlessBusy(e) = SubmitLoop(e)
    BY <1>2 DEF SubmitUnlessBusy
  <2> QED
    BY <1>2, <2>1, <2>2, SubmitLoopSound DEF Resumes
<1> QED
  BY <1>1, <1>2

(* A catch-up more, from the applied position. *)
Adds(e, u, who) ==
  \E call \in u.catching : u.catching = e.catching \cup {call} /\ call.who = who

(* To ask for a catch-up changes no more than the calls under way. *)
LEMMA AskIsCore ==
  ASSUME NEW e, NEW m, NEW who, Len(log) \in Nat, Core(e, log, m)
  PROVE  /\ Core(Ask(e, who), log, m)
         /\ Adds(e, Ask(e, who), who)
         /\ Ask(e, who).made = e.made /\ Ask(e, who).pending = e.pending
         /\ Ask(e, who).submit = e.submit /\ Ask(e, who).applied = e.applied
<1> DEFINE u == Ask(e, who)
           call == [who |-> who, phase |-> "asked", from |-> e.applied]
<1>1. /\ IsEngine(u)
      /\ u.base = e.base /\ u.applied = e.applied /\ u.held = e.held
      /\ u.pending = e.pending /\ u.made = e.made /\ u.submit = e.submit
      /\ u.catching = e.catching \cup {call}
  BY DEF Core, IsEngine, Ask
<1>2. call.who = who /\ call.phase = "asked" /\ call.from = e.applied
  OBVIOUS
<1> HIDE DEF u, call
<1>3. e.applied \in 0..Len(log) /\ e.applied <= e.applied
  BY DEF Core
<1>4. CallSound(call, e.applied, log, m)
  BY <1>2, <1>3 DEF CallSound
<1>5. Core(u, log, m)
  BY <1>1, <1>4 DEF Core, PendingIsLast, DoneIsLogged, Done
<1> QED
  BY <1>1, <1>2, <1>5 DEF u, Adds

(* To ask for a catch-up keeps the engine in order. *)
LEMMA AskSound ==
  ASSUME NEW e, NEW m, NEW who, Len(log) \in Nat, EngineSound(e, log, m), who # "submit"
  PROVE  LET u == Ask(e, who)
         IN  EngineSound(u, log, m) /\ Resumes(e, u)
<1> DEFINE u == Ask(e, who)
<1>1. Core(e, log, m)
  BY DEF EngineSound
<1>2. /\ Core(u, log, m)
      /\ Adds(e, u, who)
      /\ u.made = e.made /\ u.pending = e.pending /\ u.submit = e.submit
      /\ u.applied = e.applied
  BY <1>1, AskIsCore
<1> HIDE DEF u
<1>3. Waiting(u) = Waiting(e)
  BY <1>2 DEF Waiting, Adds
<1>4. OneLoop(u)
  BY <1>2, <1>3 DEF EngineSound, OneLoop, Adds
<1>5. SubmissionSound(u, log, m)
  BY <1>2 DEF EngineSound, SubmissionSound
<1> QED
  BY <1>2, <1>4, <1>5 DEF EngineSound, Resumes, u

(* receiveEntry. *)
LEMMA ReceiveSound ==
  ASSUME NEW e, NEW m, IsList(log), EngineSound(e, log, m), NEW n \in 1..Len(log)
  PROVE  LET u == Receive(e, n)
         IN  EngineSound(u, log, m) /\ Resumes(e, u)
<1>1. Len(log) \in Nat /\ IsEngine(e) /\ e.applied \in 0..Len(log)
  BY ListFacts DEF EngineSound, Core
<1>2. CASE n <= e.applied
  BY <1>2 DEF Receive, Resumes
<1>3. CASE n = e.applied + 1
  <2> DEFINE v == Apply(e, n)
             u == Drain(v)
  <2>1. n > e.applied
    BY <1>1, <1>3
  <2>2. Advances(e, v) /\ (Follows(e) => Follows(v))
    BY <1>1, <1>3, <2>1, ApplyAdvances
  <2> HIDE DEF v
  <2>3. IsEngine(v) /\ v.applied \in 0..Len(log)
    BY <1>1, <2>2 DEF Advances
  <2>4. Advances(v, u) /\ (Follows(v) => Follows(u))
    BY <2>3, DrainAdvances
  <2> HIDE DEF u
  <2>5. Advances(e, u) /\ (Follows(e) => Follows(u))
    BY <1>1, <2>2, <2>4, AdvancesOn
  <2>6. EngineSound(u, log, m)
    BY <1>1, <2>5, AdvanceIsSound
  <2>7. Receive(e, n) = u
    BY <1>1, <1>3 DEF Receive, u, v
  <2> QED
    BY <2>5, <2>6, <2>7 DEF Resumes, Advances
<1>4. CASE n > e.applied + 1
  <2> DEFINE v == [e EXCEPT !.held = @ \cup {n}]
  <2>1. /\ IsEngine(v) /\ v.held = e.held \cup {n}
        /\ v.base = e.base /\ v.applied = e.applied /\ v.pending = e.pending
        /\ v.made = e.made /\ v.submit = e.submit /\ v.catching = e.catching
    BY <1>1 DEF IsEngine
  <2>2. Receive(e, n) = Ask(v, "live")
    BY <1>1, <1>4 DEF Receive
  <2> HIDE DEF v
  <2>3. Core(v, log, m)
    BY <2>1 DEF EngineSound, Core, PendingIsLast, DoneIsLogged, Done
  <2>4. OneLoop(v) /\ SubmissionSound(v, log, m)
    BY <2>1 DEF EngineSound, OneLoop, Waiting, SubmissionSound
  <2>5. EngineSound(v, log, m)
    BY <2>3, <2>4 DEF EngineSound
  <2>6. EngineSound(Ask(v, "live"), log, m) /\ Resumes(v, Ask(v, "live"))
    BY <1>1, <2>5, AskSound
  <2> QED
    BY <2>1, <2>2, <2>6 DEF Resumes
<1> QED
  BY <1>1, <1>2, <1>3, <1>4

(* catchUp, up to what its caller does next. *)
LEMMA CatchUpSound ==
  ASSUME NEW e, NEW m, IsList(log), EngineSound(e, log, m),
         NEW call \in e.catching, call.phase = "answered"
  PROVE  LET u == CatchUp(e, call)
         IN  /\ EngineSound(u, log, m)
             /\ u.made = e.made /\ u.pending = e.pending /\ u.submit = e.submit
             /\ u.catching = e.catching
<1>1. Len(log) \in Nat /\ IsEngine(e) /\ e.applied \in 0..Len(log)
  BY ListFacts DEF EngineSound, Core
<1>2. CASE call.reset
  <2> DEFINE u == [e EXCEPT !.reload = TRUE]
  <2>1. /\ IsEngine(u) /\ u.held = e.held
        /\ u.base = e.base /\ u.applied = e.applied /\ u.pending = e.pending
        /\ u.made = e.made /\ u.submit = e.submit /\ u.catching = e.catching
    BY <1>1 DEF IsEngine
  <2>2. CatchUp(e, call) = u
    BY <1>2 DEF CatchUp
  <2> HIDE DEF u
  <2>3. Core(u, log, m)
    BY <2>1 DEF EngineSound, Core, PendingIsLast, DoneIsLogged, Done
  <2>4. OneLoop(u) /\ SubmissionSound(u, log, m)
    BY <2>1 DEF EngineSound, OneLoop, Waiting, SubmissionSound
  <2> QED
    BY <2>1, <2>2, <2>3, <2>4 DEF EngineSound
<1>3. CASE ~call.reset
  <2>1. CallSound(call, e.applied, log, m)
    BY DEF EngineSound, Core
  <2>2. IsList(call.todo)
    BY <2>1 DEF CallSound
  <2>3. PICK from \in 0..Len(log) :
          /\ Timely(m) => from <= e.applied
          /\ \A i \in 1..Len(call.todo) :
               call.todo[i] = from + i /\ from + i <= Len(log)
    BY <2>1 DEF CallSound
  <2> DEFINE v == FoldLeft(TakeNews, e, call.todo)
             u == Drain(v)
  <2>4. Advances(e, v) /\ (Follows(e) /\ from <= e.applied => Follows(v))
    BY <1>1, <2>2, <2>3, NewsAdvance
  <2>5. CatchUp(e, call) = u
    BY <1>3 DEF CatchUp
  <2> HIDE DEF v
  <2>6. IsEngine(v) /\ v.applied \in 0..Len(log)
    BY <1>1, <2>4 DEF Advances
  <2>7. Advances(v, u) /\ (Follows(v) => Follows(u))
    BY <2>6, DrainAdvances
  <2> HIDE DEF u
  <2>8. Advances(e, u)
    BY <1>1, <2>4, <2>7, AdvancesOn
  <2>9. EngineSound(u, log, m)
    BY <1>1, <2>3, <2>4, <2>7, <2>8, AdvanceIsSound
  <2> QED
    BY <2>5, <2>8, <2>9 DEF Advances
<1> QED
  BY <1>2, <1>3

(* What the caller of catchUp does next. *)
LEMMA EndCatchUpSound ==
  ASSUME NEW e, NEW m, Len(log) \in Nat, EngineSound(e, log, m), NEW call \in e.catching
  PROVE  /\ EngineSound(EndCatchUp(e, call), log, m)
         /\ Resumes(e, EndCatchUp(e, call))
<1> DEFINE u == [e EXCEPT !.catching = @ \ {call}]
<1>1. /\ IsEngine(u) /\ u.held = e.held
      /\ u.base = e.base /\ u.applied = e.applied /\ u.pending = e.pending
      /\ u.made = e.made /\ u.submit = e.submit /\ u.catching = e.catching \ {call}
  BY DEF EngineSound, Core, IsEngine
<1>2. EndCatchUp(e, call) =
        CASE call.who = "submit" -> SubmitLoop(u)
          [] call.who = "resume" -> SubmitUnlessBusy(u)
          [] OTHER -> u
  BY DEF EndCatchUp
<1> HIDE DEF u
<1>3. Core(u, log, m)
  BY <1>1 DEF EngineSound, Core, PendingIsLast, DoneIsLogged, Done
<1>4. CASE call.who = "submit"
  <2>1. e.submit.phase = "catching" /\ Waiting(u) = {}
    BY <1>1, <1>4 DEF EngineSound, OneLoop, Waiting
  <2>2. EndCatchUp(e, call) = SubmitLoop(u)
    BY <1>2, <1>4
  <2>3. /\ EngineSound(SubmitLoop(u), log, m)
        /\ SubmitLoop(u).made = u.made /\ SubmitLoop(u).pending = u.pending
        /\ SubmitLoop(u).submit.phase \in {"idle", "asked"}
    BY <1>3, <2>1, SubmitLoopSound
  <2> QED
    BY <1>1, <2>1, <2>2, <2>3 DEF Resumes
<1>5. CASE call.who # "submit"
  <2>1. Waiting(u) = Waiting(e)
    BY <1>1, <1>5 DEF Waiting
  <2>2. OneLoop(u)
    BY <1>1, <2>1 DEF EngineSound, OneLoop, Waiting
  <2>3. EngineSound(u, log, m)
    BY <1>1, <1>3, <2>2 DEF EngineSound, SubmissionSound
  <2>4. EngineSound(SubmitUnlessBusy(u), log, m) /\ Resumes(u, SubmitUnlessBusy(u))
    BY <2>3, SubmitUnlessBusySound
  <2>5. EndCatchUp(e, call) \in {SubmitUnlessBusy(u), u}
    BY <1>2, <1>5
  <2> QED
    BY <1>1, <2>3, <2>4, <2>5 DEF Resumes
<1> QED
  BY <1>4, <1>5

(* Mishaps only weaken what is asked of an engine. *)
LEMMA MishapsWeaken ==
  ASSUME NEW e, NEW m, NEW n, EngineSound(e, log, m), m \subseteq n
  PROVE  EngineSound(e, log, n)
<1>1. Timely(n) => Timely(m)
  BY DEF Timely
<1>2. \A call : CallSound(call, e.applied, log, m) => CallSound(call, e.applied, log, n)
  BY <1>1 DEF CallSound
<1>3. Core(e, log, n)
  BY <1>1, <1>2 DEF EngineSound, Core
<1>4. SubmissionSound(e, log, n)
  BY <1>1 DEF EngineSound, SubmissionSound
<1> QED
  BY <1>3, <1>4 DEF EngineSound

(* An acknowledgement in time applies the batch where the log has it. *)
LEMMA AckedSound ==
  ASSUME NEW e, NEW m, IsList(log), EngineSound(e, log, m), OwnLogged(log),
         e.submit.phase = "answered", e.submit.seq # 0,
         Timely(m) => e.submit.seq > e.applied
  PROVE  /\ Core(Acked(e), log, m) /\ Waiting(Acked(e)) = {}
         /\ Acked(e).made = e.made /\ Acked(e).pending = Tail(e.pending)
         /\ Done(Acked(e)) = Done(e) + 1
<1> DEFINE u == Acked(e)
           seq == e.submit.seq
<1>1. /\ IsEngine(u) /\ u.held = e.held /\ u.catching = e.catching /\ u.made = e.made
      /\ u.base = ApplyDeckOps(e.base, Head(e.pending).ops)
      /\ u.pending = Tail(e.pending) /\ u.applied = seq
  BY DEF EngineSound, Core, IsEngine, Acked
<1>2. /\ e.pending # <<>> /\ seq \in 1..Len(log) /\ Len(log) \in Nat
      /\ log[seq].ops = Head(e.pending).ops /\ log[seq].client # 0
      /\ Timely(m) => seq <= e.applied + 1
  <2>1. Len(log) \in Nat
    BY ListFacts
  <2> QED
    BY <2>1 DEF EngineSound, SubmissionSound
<1> HIDE DEF u, seq
<1>3. e.applied \in 0..Len(log) /\ (Timely(m) => seq = e.applied + 1)
  BY <1>2 DEF EngineSound, Core, seq
<1>4. Timely(m) => u.base = DeckAt(log, seq)
  <2> SUFFICES ASSUME Timely(m) PROVE u.base = DeckAt(log, seq)
    OBVIOUS
  <2>1. e.base = DeckAt(log, e.applied)
    BY DEF EngineSound, Core
  <2>2. DeckAt(log, e.applied + 1) = ApplyEntry(DeckAt(log, e.applied), log[e.applied + 1])
    <3>1. e.applied \in 0..(Len(log) - 1)
      BY <1>2, <1>3
    <3> QED
      BY <3>1, DeckAtNext
  <2> QED
    BY <1>1, <1>2, <1>3, <2>1, <2>2 DEF ApplyEntry
<1>5. /\ IsList(u.pending) /\ Len(u.pending) = Len(e.pending) - 1
      /\ \A i \in 1..Len(u.pending) : u.pending[i] = e.pending[i + 1]
      /\ Head(e.pending) = e.pending[1] /\ Len(e.pending) > 0
      /\ Len(e.pending) \in Nat /\ Len(u.pending) \in Nat /\ Len(e.made) \in Nat
      /\ Len(e.pending) <= Len(e.made) /\ IsList(e.made)
      /\ \A i \in 1..Len(e.pending) :
           e.pending[i] = [n |-> Done(e) + i, ops |-> e.made[Done(e) + i]]
  <2>1. /\ IsList(e.pending) /\ IsList(e.made)
        /\ Len(e.pending) <= Len(e.made)
        /\ \A i \in 1..Len(e.pending) :
             e.pending[i] = [n |-> Done(e) + i, ops |-> e.made[Done(e) + i]]
    BY DEF EngineSound, Core, PendingIsLast
  <2>2. /\ IsList(Tail(e.pending))
        /\ Len(e.pending) > 0 /\ Len(Tail(e.pending)) = Len(e.pending) - 1
        /\ \A i \in 1..Len(Tail(e.pending)) : Tail(e.pending)[i] = e.pending[i + 1]
        /\ Head(e.pending) = e.pending[1]
    BY <1>2, <2>1, ListTail
  <2>3. Len(e.pending) \in Nat /\ Len(e.made) \in Nat
    BY <2>1, ListFacts
  <2> QED
    BY <1>1, <2>1, <2>2, <2>3
<1>6. Done(u) = Done(e) + 1 /\ Done(e) \in Nat
  <2>1. /\ u.made = e.made /\ Len(u.pending) = Len(e.pending) - 1
        /\ Len(e.pending) \in Nat /\ Len(e.made) \in Nat
        /\ Len(e.pending) <= Len(e.made)
    BY <1>1, <1>5
  <2> QED
    BY <2>1 DEF Done
<1>7. PendingIsLast(u)
  <2>1. ASSUME NEW i \in 1..Len(u.pending)
        PROVE  u.pending[i] = [n |-> Done(u) + i, ops |-> u.made[Done(u) + i]]
    <3>1. i + 1 \in 1..Len(e.pending) /\ Done(e) + (i + 1) = Done(u) + i
      <4>1. Len(u.pending) = Len(e.pending) - 1 /\ Len(e.pending) \in Nat
        BY <1>5
      <4> QED
        BY <1>6, <4>1
    <3>2. e.pending[i + 1] = [n |-> Done(e) + (i + 1), ops |-> e.made[Done(e) + (i + 1)]]
      BY <1>5, <3>1
    <3> QED
      BY <1>1, <1>5, <3>1, <3>2
  <2> QED
    BY <1>1, <1>5, <2>1 DEF PendingIsLast
<1>8. DoneIsLogged(u, log)
  <2>1. \A i \in 1..Done(e) :
          \E j \in 1..Len(OwnOf(log)) : OwnOf(log)[j] = u.made[i]
    BY <1>1 DEF EngineSound, Core, DoneIsLogged
  <2>2. log[seq].ops = u.made[Done(u)]
    <3>1. 1 \in 1..Len(e.pending)
      BY <1>5
    <3>2. e.pending[1] = [n |-> Done(e) + 1, ops |-> e.made[Done(e) + 1]]
      BY <1>5, <3>1
    <3> QED
      BY <1>1, <1>2, <1>5, <1>6, <3>2
  <2>3. \E j \in 1..Len(OwnOf(log)) : OwnOf(log)[j] = log[seq].ops
    BY <1>2 DEF OwnLogged
  <2> QED
    BY <1>6, <2>1, <2>2, <2>3 DEF DoneIsLogged
<1>9. \A call \in u.catching : CallSound(call, u.applied, log, m)
  <2>1. ASSUME NEW call \in e.catching PROVE CallSound(call, seq, log, m)
    <3>1. CallSound(call, e.applied, log, m)
      BY DEF EngineSound, Core
    <3> QED
      BY <1>2, <1>3, <3>1 DEF CallSound
  <2> QED
    BY <1>1, <2>1
<1>10. Core(u, log, m)
  <2>1. u.applied \in 0..Len(log) /\ u.held \in SUBSET (1..Len(log))
    BY <1>1, <1>2 DEF EngineSound, Core
  <2> QED
    BY <1>1, <1>4, <1>7, <1>8, <1>9, <2>1 DEF Core
<1>11. Waiting(u) = {}
  BY <1>1 DEF EngineSound, OneLoop, Waiting
<1> QED
  BY <1>1, <1>6, <1>10, <1>11 DEF u

-----------------------------------------------------------------------------
(***************************************************************************)
(* The log grows.                                                          *)
(***************************************************************************)
LEMMA OwnLoggedLater ==
  ASSUME NEW entries, IsList(entries), OwnLogged(entries), NEW x
  PROVE  /\ OwnLogged(Append(entries, x))
         /\ Len(OwnOf(entries)) <= Len(OwnOf(Append(entries, x)))
         /\ \A j \in 1..Len(OwnOf(entries)) : OwnOf(Append(entries, x))[j] = OwnOf(entries)[j]
<1> DEFINE more == Append(entries, x)
           own == OwnOf(entries)
<1>1. OwnOf(more) = IF x.client = 0 THEN own ELSE Append(own, x.ops)
  BY OwnOfLonger DEF WithOwn
<1>2. /\ IsList(own) /\ Len(own) \in Nat /\ Len(entries) \in Nat
      /\ IsList(Append(own, x.ops)) /\ Len(Append(own, x.ops)) = Len(own) + 1
      /\ \A j \in 1..Len(own) : Append(own, x.ops)[j] = own[j]
      /\ Append(own, x.ops)[Len(own) + 1] = x.ops
  <2>1. IsList(own)
    BY DEF OwnLogged
  <2> HIDE DEF own
  <2> QED
    BY <2>1, ListFacts, ListAppend
<1>3. /\ Len(more) = Len(entries) + 1
      /\ \A k \in 1..Len(entries) : more[k] = entries[k]
      /\ more[Len(entries) + 1] = x
  BY ListAppend
<1>4. \A k \in 1..Len(entries) : entries[k].client # 0 =>
        \E j \in 1..Len(own) : own[j] = entries[k].ops
  BY DEF OwnLogged
<1> HIDE DEF more, own
<1>5. /\ IsList(OwnOf(more)) /\ Len(own) <= Len(OwnOf(more))
      /\ \A j \in 1..Len(own) : OwnOf(more)[j] = own[j]
  BY <1>1, <1>2
<1>6. ASSUME NEW k \in 1..Len(more), more[k].client # 0
      PROVE  \E j \in 1..Len(OwnOf(more)) : OwnOf(more)[j] = more[k].ops
  <2>1. CASE k \in 1..Len(entries)
    <3>1. PICK j \in 1..Len(own) : own[j] = more[k].ops
      BY <1>3, <1>4, <1>6, <2>1
    <3>2. j \in 1..Len(OwnOf(more)) /\ OwnOf(more)[j] = more[k].ops
      BY <1>1, <1>2, <3>1
    <3> QED
      BY <3>2
  <2>2. CASE k = Len(entries) + 1
    <3>1. OwnOf(more) = Append(own, x.ops) /\ more[k] = x
      BY <1>1, <1>3, <1>6, <2>2
    <3>2. Len(own) + 1 \in 1..Len(OwnOf(more)) /\ OwnOf(more)[Len(own) + 1] = more[k].ops
      BY <1>2, <3>1
    <3> QED
      BY <3>2
  <2> QED
    BY <1>2, <1>3, <2>1, <2>2
<1> QED
  BY <1>5, <1>6 DEF OwnLogged, more, own

(* An engine that was sound before is. *)
LEMMA SoundLater ==
  ASSUME NEW e, NEW m, NEW entries, IsList(entries), OwnLogged(entries), NEW x,
         EngineSound(e, entries, m)
  PROVE  EngineSound(e, Append(entries, x), m)
<1> DEFINE more == Append(entries, x)
<1>1. /\ Len(entries) \in Nat /\ Len(more) = Len(entries) + 1
      /\ \A k \in 1..Len(entries) : more[k] = entries[k]
  BY ListFacts, ListAppend
<1>2. /\ Len(OwnOf(entries)) <= Len(OwnOf(more))
      /\ Len(OwnOf(entries)) \in Nat /\ Len(OwnOf(more)) \in Nat
      /\ \A j \in 1..Len(OwnOf(entries)) : OwnOf(more)[j] = OwnOf(entries)[j]
  <2>1. IsList(OwnOf(entries)) /\ IsList(OwnOf(more))
    BY OwnLoggedLater DEF OwnLogged
  <2> QED
    BY <2>1, OwnLoggedLater, ListFacts
<1>3. \A n \in 0..Len(entries) : DeckAt(more, n) = DeckAt(entries, n)
  BY DeckAtLonger
<1> HIDE DEF more
<1>4. e.applied \in 0..Len(entries) /\ e.applied \in 0..Len(more)
  BY <1>1 DEF EngineSound, Core
<1>5. DoneIsLogged(e, more)
  <2>1. DoneIsLogged(e, entries)
    BY DEF EngineSound, Core
  <2>2. ASSUME NEW i \in 1..Done(e)
        PROVE  \E j \in 1..Len(OwnOf(more)) : OwnOf(more)[j] = e.made[i]
    <3>1. PICK j \in 1..Len(OwnOf(entries)) : OwnOf(entries)[j] = e.made[i]
      BY <2>1 DEF DoneIsLogged
    <3>2. j \in 1..Len(OwnOf(more)) /\ OwnOf(more)[j] = e.made[i]
      BY <1>2, <3>1
    <3> QED
      BY <3>2
  <2> QED
    BY <2>2 DEF DoneIsLogged
<1>6. ASSUME NEW call \in e.catching PROVE CallSound(call, e.applied, more, m)
  <2>1. CallSound(call, e.applied, entries, m)
    BY DEF EngineSound, Core
  <2> QED
    BY <1>1, <2>1 DEF CallSound
<1>7. Core(e, more, m)
  <2>1. e.held \in SUBSET (1..Len(more))
    BY <1>1 DEF EngineSound, Core
  <2>2. Timely(m) => e.base = DeckAt(more, e.applied)
    BY <1>3, <1>4 DEF EngineSound, Core
  <2>3. IsEngine(e) /\ PendingIsLast(e)
    BY DEF EngineSound, Core
  <2> QED
    BY <1>4, <1>5, <1>6, <2>1, <2>2, <2>3 DEF Core
<1>8. SubmissionSound(e, more, m)
  <2>1. SubmissionSound(e, entries, m)
    BY DEF EngineSound
  <2> QED
    BY <1>1, <2>1 DEF SubmissionSound
<1> QED
  BY <1>7, <1>8 DEF EngineSound, more

-----------------------------------------------------------------------------
(***************************************************************************)
(* What the steps of the tab keep.                                         *)
(***************************************************************************)
LEMMA LossesLast ==
  ASSUME NEW m, NEW n, m \subseteq n
  PROVE  NoneLost(n) => NoneLost(m)
<1>1. \A x : x \in m => x \in n
  OBVIOUS
<1> QED
  BY <1>1 DEF NoneLost

(* A submission carries the oldest batch. *)
LEMMA SentSound ==
  ASSUME NEW u, NEW entries, NEW m, EngineSound(u, entries, m), ident \in Nat \ {0}
  PROVE  \A r \in Sent(u) : RequestSound(r, u)
<1> SUFFICES ASSUME NEW r \in Sent(u) PROVE RequestSound(r, u)
  OBVIOUS
<1>1. /\ u.submit.phase = "asked"
      /\ r = [base |-> u.submit.base, ops |-> u.submit.batch.ops,
              batch |-> u.submit.batch.n, client |-> ident]
  BY DEF Sent
<1>2. /\ u.pending # <<>> /\ u.submit.batch = Head(u.pending)
      /\ IsList(u.pending) /\ IsList(u.made) /\ Len(u.pending) <= Len(u.made)
      /\ \A i \in 1..Len(u.pending) :
           u.pending[i] = [n |-> Done(u) + i, ops |-> u.made[Done(u) + i]]
  BY <1>1 DEF EngineSound, Core, PendingIsLast, SubmissionSound
<1>3. /\ Len(u.pending) \in Nat /\ Len(u.made) \in Nat
      /\ Len(u.pending) > 0 /\ Head(u.pending) = u.pending[1]
  BY <1>2, ListFacts, ListTail
<1>4. u.pending[1] = [n |-> Done(u) + 1, ops |-> u.made[Done(u) + 1]]
  <2>1. 1 \in 1..Len(u.pending)
    BY <1>3
  <2> QED
    BY <1>2, <2>1
<1>5. Done(u) + 1 \in 1..Len(u.made)
  <2>1. /\ Len(u.pending) \in Nat /\ Len(u.made) \in Nat
        /\ Len(u.pending) > 0 /\ Len(u.pending) <= Len(u.made)
    BY <1>2, <1>3
  <2>2. \A a, b \in Nat : a > 0 /\ a <= b => b - a + 1 \in 1..b
    OBVIOUS
  <2> QED
    BY <2>1, <2>2, Zenon DEF Done
<1>6. r.batch = Done(u) + 1 /\ r.ops = u.made[Done(u) + 1] /\ r.client = ident
  BY <1>1, <1>2, <1>3, <1>4
<1> QED
  BY <1>5, <1>6 DEF RequestSound

(* The engine moves and the log does not. *)
LEMMA EngineStep ==
  ASSUME IInv, RoomSound', log' = log, mishaps \subseteq mishaps', ident' = ident,
         EngineSound(deck', log, mishaps'),
         \A r \in wire : RequestSound(r, deck'),
         NoneLost(mishaps') => LoggedOnce(deck', log),
         deck'.submit = deck.submit \/ deck.submit.phase # "asked",
         wire' \subseteq wire \cup Sent(deck'),
         NoneLost(mishaps') => wire' = wire \cup Sent(deck')
  PROVE  IInv'
<1>1. NoneLost(mishaps') => NoneLost(mishaps)
  BY LossesLast
<1>2. \A r \in wire' : RequestSound(r, deck')
  BY SentSound DEF IInv, RoomSound
<1>3. NoneLost(mishaps') => WireFits(wire', deck')
  <2> SUFFICES ASSUME NoneLost(mishaps') PROVE WireFits(wire', deck')
    OBVIOUS
  <2>1. WireFits(wire, deck) /\ wire' = wire \cup Sent(deck')
    BY <1>1 DEF IInv
  <2>2. CASE deck'.submit = deck.submit
    BY <2>1, <2>2 DEF WireFits, Sent
  <2>3. CASE deck'.submit # deck.submit /\ deck.submit.phase # "asked"
    <3>1. wire' = Sent(deck')
      BY <2>1, <2>3 DEF WireFits
    <3>2. CASE deck'.submit.phase = "asked"
      <4> DEFINE r == [base |-> deck'.submit.base, ops |-> deck'.submit.batch.ops,
                       batch |-> deck'.submit.batch.n, client |-> ident]
      <4>1. Sent(deck') = {r}
        BY <2>3, <3>2 DEF Sent
      <4>2. r.base = deck'.submit.base /\ r.batch = deck'.submit.batch.n
        OBVIOUS
      <4> HIDE DEF r
      <4> QED
        BY <3>1, <3>2, <4>1, <4>2 DEF WireFits
    <3>3. CASE deck'.submit.phase # "asked"
      BY <3>1, <3>3 DEF WireFits, Sent
    <3> QED
      BY <3>2, <3>3
  <2> QED
    BY <2>2, <2>3
<1>4. OwnLogged(log)
  BY DEF IInv
<1> QED
  BY <1>2, <1>3, <1>4 DEF IInv

(* A step that only resumes the loop. *)
LEMMA ResumesKeeps ==
  ASSUME NEW e, NEW u, NEW entries, Resumes(e, u)
  PROVE  /\ LoggedOnce(e, entries) => LoggedOnce(u, entries)
         /\ \A r : RequestSound(r, e) => RequestSound(r, u)
         /\ u.submit = e.submit \/ e.submit.phase # "asked"
BY DEF Resumes, LoggedOnce, Acknowledged, Done, RequestSound

(* A step after which the engine asks for its place again keeps the invariant. *)
LEMMA ResumingStep ==
  ASSUME IInv, RoomSound', log' = log, mishaps \subseteq mishaps', ident' = ident,
         EngineSound(deck', log, mishaps'), Resumes(deck, deck'),
         wire' \subseteq wire \cup Sent(deck'),
         NoneLost(mishaps') => wire' = wire \cup Sent(deck')
  PROVE  IInv'
<1>1. NoneLost(mishaps') => LoggedOnce(deck, log)
  BY LossesLast DEF IInv
<1>2. \A r \in wire : RequestSound(r, deck)
  BY DEF IInv
<1> QED
  BY <1>1, <1>2, ResumesKeeps, EngineStep

(* change: a batch more is pending. *)
Changed(e, ops) ==
  [e EXCEPT !.made = Append(@, ops),
            !.pending = Append(@, [n |-> Len(e.made) + 1, ops |-> ops])]

(* A batch added by the user is pending and made. *)
LEMMA ChangedSound ==
  ASSUME NEW e, NEW m, NEW ops, EngineSound(e, log, m)
  PROVE  /\ EngineSound(Changed(e, ops), log, m)
         /\ Changed(e, ops).submit = e.submit
         /\ LoggedOnce(e, log) => LoggedOnce(Changed(e, ops), log)
         /\ \A r : RequestSound(r, e) => RequestSound(r, Changed(e, ops))
<1> DEFINE u == Changed(e, ops)
           batch == [n |-> Len(e.made) + 1, ops |-> ops]
<1>1. /\ IsEngine(u)
      /\ u.base = e.base /\ u.applied = e.applied /\ u.held = e.held
      /\ u.pending = Append(e.pending, batch) /\ u.made = Append(e.made, ops)
      /\ u.submit = e.submit /\ u.catching = e.catching
  BY DEF EngineSound, Core, IsEngine, Changed
<1> HIDE DEF u
<1>2. /\ IsList(e.pending) /\ IsList(e.made) /\ Len(e.pending) <= Len(e.made)
      /\ \A i \in 1..Len(e.pending) :
           e.pending[i] = [n |-> Done(e) + i, ops |-> e.made[Done(e) + i]]
  BY DEF EngineSound, Core, PendingIsLast
<1>3. /\ IsList(u.made) /\ Len(u.made) = Len(e.made) + 1
      /\ \A i \in 1..Len(e.made) : u.made[i] = e.made[i]
      /\ u.made[Len(e.made) + 1] = ops
  BY <1>1, <1>2, ListAppend
<1>4. /\ IsList(u.pending) /\ Len(u.pending) = Len(e.pending) + 1
      /\ \A i \in 1..Len(e.pending) : u.pending[i] = e.pending[i]
      /\ u.pending[Len(e.pending) + 1] = batch
  BY <1>1, <1>2, ListAppend
<1>5. Len(e.pending) \in Nat /\ Len(e.made) \in Nat
  BY <1>2, ListFacts
<1>6. /\ Done(u) = Done(e) /\ Done(e) \in Nat
      /\ Done(e) + Len(e.pending) = Len(e.made)
  <2>1. Len(u.pending) = Len(e.pending) + 1 /\ Len(u.made) = Len(e.made) + 1
    BY <1>3, <1>4
  <2>2. \A a, b \in Nat : a <= b => /\ (b + 1) - (a + 1) = b - a
                                   /\ b - a \in Nat /\ (b - a) + a = b
    OBVIOUS
  <2>3. Len(e.pending) <= Len(e.made)
    BY <1>2
  <2> QED
    BY <1>5, <2>1, <2>2, <2>3, ZenonT(30) DEF Done
<1>7. PendingIsLast(u)
  <2>1. ASSUME NEW i \in 1..Len(u.pending)
        PROVE  u.pending[i] = [n |-> Done(u) + i, ops |-> u.made[Done(u) + i]]
    <3>1. CASE i \in 1..Len(e.pending)
      <4>1. Done(e) + i \in 1..Len(e.made)
        BY <1>5, <1>6, <3>1
      <4> QED
        BY <1>2, <1>3, <1>4, <1>6, <3>1, <4>1, ZenonT(30)
    <3>2. CASE i = Len(e.pending) + 1
      <4>1. Done(u) + i = Len(e.made) + 1
        BY <1>5, <1>6, <3>2
      <4> QED
        BY <1>3, <1>4, <3>2, <4>1
    <3>3. i \in 1..(Len(e.pending) + 1)
      BY <1>4
    <3> QED
      BY <1>5, <3>1, <3>2, <3>3
  <2>2. Len(u.pending) <= Len(u.made)
    BY <1>2, <1>3, <1>4, <1>5
  <2> QED
    BY <1>3, <1>4, <2>1, <2>2 DEF PendingIsLast
<1>8. DoneIsLogged(u, log)
  <2>1. DoneIsLogged(e, log)
    BY DEF EngineSound, Core
  <2>2. \A i \in 1..Done(e) : u.made[i] = e.made[i]
    BY <1>3, <1>5, <1>6
  <2> QED
    BY <1>6, <2>1, <2>2 DEF DoneIsLogged
<1>9. Core(u, log, m)
  BY <1>1, <1>7, <1>8 DEF EngineSound, Core
<1>10. e.pending # <<>> => u.pending # <<>> /\ Head(u.pending) = Head(e.pending)
  <2> SUFFICES ASSUME e.pending # <<>>
               PROVE  u.pending # <<>> /\ Head(u.pending) = Head(e.pending)
    OBVIOUS
  <2>1. Len(e.pending) > 0 /\ Head(e.pending) = e.pending[1]
    BY <1>2, ListTail
  <2>2. u.pending # <<>>
    BY <1>4, <1>5
  <2>3. Head(u.pending) = u.pending[1]
    BY <1>4, <2>2, ListTail
  <2>4. u.pending[1] = e.pending[1]
    BY <1>4, <1>5, <2>1
  <2> QED
    BY <2>1, <2>2, <2>3, <2>4
<1>11. OneLoop(u) /\ SubmissionSound(u, log, m)
  BY <1>1, <1>10 DEF EngineSound, OneLoop, Waiting, SubmissionSound
<1>12. LoggedOnce(e, log) => LoggedOnce(u, log)
  <2> SUFFICES ASSUME LoggedOnce(e, log) PROVE LoggedOnce(u, log)
    OBVIOUS
  <2>1. /\ Len(OwnOf(log)) = Done(e) + (IF Acknowledged(e) THEN 1 ELSE 0)
        /\ \A i \in 1..Len(OwnOf(log)) : OwnOf(log)[i] = e.made[i]
    BY DEF LoggedOnce
  <2>2. Acknowledged(u) = Acknowledged(e)
    BY <1>1 DEF Acknowledged
  <2>3. Acknowledged(e) => Len(e.pending) > 0
    BY <1>2, ListTail DEF Acknowledged, EngineSound, SubmissionSound
  <2>4. Len(OwnOf(log)) \in Nat /\ Len(OwnOf(log)) <= Len(e.made)
    BY <1>5, <1>6, <2>1, <2>3
  <2>5. \A i \in 1..Len(OwnOf(log)) : OwnOf(log)[i] = u.made[i]
    BY <1>3, <1>5, <2>1, <2>4, SMTT(30)
  <2> QED
    BY <1>6, <2>1, <2>2, <2>5 DEF LoggedOnce
<1>13. \A r : RequestSound(r, e) => RequestSound(r, u)
  BY <1>3, <1>5 DEF RequestSound
<1> QED
  BY <1>1, <1>9, <1>11, <1>12, <1>13 DEF EngineSound, u

(* DeckChange keeps the invariant. *)
LEMMA ChangeStep ==
  ASSUME IInv, NEW next, DeckChange(next)
  PROVE  IInv'
<1> DEFINE ops == DiffDeck(Visible(deck), next)
           v == IF ops = <<Refusal>> \/ ops = <<>> THEN deck ELSE Changed(deck, ops)
<1>1. /\ log' = log /\ feed' = feed /\ ident' = ident /\ mishaps' = mishaps
      /\ wire' = wire \cup Sent(deck')
      /\ deck' = v \/ deck' = SubmitUnlessBusy(v)
  BY DEF DeckChange, Changed
<1>2. RoomSound' /\ Len(log) \in Nat
  BY <1>1, ListFacts DEF IInv, RoomSound
<1>3. /\ EngineSound(v, log, mishaps) /\ v.submit = deck.submit
      /\ LoggedOnce(deck, log) => LoggedOnce(v, log)
      /\ \A r : RequestSound(r, deck) => RequestSound(r, v)
  <2> HIDE DEF ops
  <2> QED
    BY ChangedSound DEF IInv
<1> HIDE DEF v
<1>4. EngineSound(deck', log, mishaps) /\ Resumes(v, deck')
  <2>1. EngineSound(SubmitUnlessBusy(v), log, mishaps) /\ Resumes(v, SubmitUnlessBusy(v))
    BY <1>2, <1>3, SubmitUnlessBusySound
  <2> QED
    BY <1>1, <1>3, <2>1 DEF Resumes
<1>5. /\ LoggedOnce(v, log) => LoggedOnce(deck', log)
      /\ \A r : RequestSound(r, v) => RequestSound(r, deck')
      /\ deck'.submit = deck.submit \/ deck.submit.phase # "asked"
  BY <1>3, <1>4, ResumesKeeps
<1>6. /\ NoneLost(mishaps) => LoggedOnce(deck', log)
      /\ \A r \in wire : RequestSound(r, deck')
  BY <1>3, <1>5 DEF IInv
<1> QED
  BY <1>1, <1>2, <1>4, <1>5, <1>6, EngineStep

(* DeckEvent keeps the invariant. *)
LEMMA EventStep ==
  ASSUME IInv, DeckEvent
  PROVE  IInv'
<1>1. /\ log' = log /\ ident' = ident /\ mishaps' = mishaps
      /\ feed # <<>> /\ feed' = Tail(feed)
      /\ wire' = wire \cup Sent(deck')
      /\ deck' = IF Head(feed) = 0 THEN [deck EXCEPT !.reload = TRUE]
                 ELSE Receive(deck, Head(feed))
  BY DEF DeckEvent, Arrive
<1>2. /\ IsList(log) /\ EngineSound(deck, log, mishaps) /\ feed \in Seq(0..Len(log))
      /\ Len(log) \in Nat
  BY ListFacts DEF IInv, RoomSound
<1>3. Tail(feed) \in Seq(0..Len(log)) /\ Head(feed) \in 0..Len(log)
  BY <1>1, <1>2
<1>4. RoomSound'
  BY <1>1, <1>3 DEF IInv, RoomSound
<1>5. EngineSound(deck', log, mishaps) /\ Resumes(deck, deck')
  <2>1. CASE Head(feed) = 0
    <3> DEFINE u == [deck EXCEPT !.reload = TRUE]
    <3>1. /\ IsEngine(u) /\ u.held = deck.held /\ u.base = deck.base
          /\ u.applied = deck.applied /\ u.pending = deck.pending /\ u.made = deck.made
          /\ u.submit = deck.submit /\ u.catching = deck.catching
      BY <1>2 DEF EngineSound, Core, IsEngine
    <3>2. deck' = u
      BY <1>1, <2>1
    <3> HIDE DEF u
    <3>3. Core(u, log, mishaps) /\ OneLoop(u) /\ SubmissionSound(u, log, mishaps)
      BY <1>2, <3>1 DEF EngineSound, Core, PendingIsLast, DoneIsLogged, Done, OneLoop,
                        Waiting, SubmissionSound
    <3> QED
      BY <3>1, <3>2, <3>3 DEF EngineSound, Resumes
  <2>2. CASE Head(feed) # 0
    <3>1. Head(feed) \in 1..Len(log)
      BY <1>2, <1>3, <2>2
    <3> QED
      BY <1>1, <1>2, <2>2, <3>1, ReceiveSound
  <2> QED
    BY <2>1, <2>2
<1> QED
  BY <1>1, <1>4, <1>5, ResumingStep

(* DeckCatchUpReturns keeps the invariant. *)
LEMMA CatchUpStep ==
  ASSUME IInv, NEW call \in deck.catching, DeckCatchUpReturns(call)
  PROVE  IInv'
<1> DEFINE caught == CatchUp(deck, call)
<1>1. /\ call.phase = "answered" /\ deck' = EndCatchUp(caught, call)
      /\ log' = log /\ feed' = feed /\ ident' = ident /\ mishaps' = mishaps
      /\ wire' = wire \cup Sent(deck')
  BY DEF DeckCatchUpReturns, Quiet
<1>2. IsList(log) /\ Len(log) \in Nat /\ EngineSound(deck, log, mishaps)
  BY ListFacts DEF IInv, RoomSound
<1>3. RoomSound'
  BY <1>1 DEF IInv, RoomSound
<1>4. /\ EngineSound(caught, log, mishaps)
      /\ caught.made = deck.made /\ caught.pending = deck.pending
      /\ caught.submit = deck.submit /\ caught.catching = deck.catching
  BY <1>1, <1>2, CatchUpSound
<1> HIDE DEF caught
<1>5. EngineSound(deck', log, mishaps) /\ Resumes(caught, deck')
  BY <1>1, <1>2, <1>4, EndCatchUpSound
<1>6. Resumes(deck, deck')
  BY <1>4, <1>5 DEF Resumes
<1> QED
  BY <1>1, <1>3, <1>5, <1>6, ResumingStep

(* A call is lost: some of what was sent may be, too. *)
LEMMA LosingStep ==
  ASSUME IInv, EngineSound(deck', log, mishaps), Lose(Sent(deck')),
         \A r \in wire : RequestSound(r, deck'),
         deck'.submit = deck.submit \/ deck.submit.phase # "asked"
  PROVE  IInv'
<1>1. /\ log' = log /\ feed' = feed /\ ident' = ident
      /\ mishaps' = mishaps \cup {"call lost"}
      /\ wire' \subseteq wire \cup Sent(deck')
  BY DEF Lose
<1>2. RoomSound'
  BY <1>1 DEF IInv, RoomSound
<1>3. ~NoneLost(mishaps') /\ mishaps \subseteq mishaps'
  BY <1>1 DEF NoneLost
<1>4. EngineSound(deck', log, mishaps')
  BY <1>3, MishapsWeaken
<1>5. \A r \in wire' : RequestSound(r, deck')
  BY <1>1, <1>4, SentSound DEF IInv, RoomSound
<1> QED
  BY <1>1, <1>2, <1>3, <1>4, <1>5 DEF IInv

(* DeckCatchUpLost keeps the invariant. *)
LEMMA CatchUpLostStep ==
  ASSUME IInv, NEW call \in deck.catching, DeckCatchUpLost(call)
  PROVE  IInv'
<1>1. Len(log) \in Nat /\ EngineSound(deck, log, mishaps)
  BY ListFacts DEF IInv, RoomSound
<1>2. EngineSound(deck', log, mishaps) /\ Resumes(deck, deck')
  BY <1>1, EndCatchUpSound DEF DeckCatchUpLost
<1>3. \A r \in wire : RequestSound(r, deck)
  BY DEF IInv
<1> QED
  BY <1>2, <1>3, ResumesKeeps, LosingStep DEF DeckCatchUpLost

(* DeckSubmitLost keeps the invariant. *)
LEMMA SubmitLostStep ==
  ASSUME IInv, DeckSubmitLost
  PROVE  IInv'
<1> DEFINE u == [deck EXCEPT !.submit = Idle, !.tries = 0]
<1>1. EngineSound(deck, log, mishaps) /\ deck.submit.phase = "asked"
  BY DEF IInv, DeckSubmitLost
<1>2. /\ IsEngine(u) /\ u.held = deck.held /\ u.base = deck.base
      /\ u.applied = deck.applied /\ u.pending = deck.pending /\ u.made = deck.made
      /\ u.submit = Idle /\ u.catching = deck.catching
  BY <1>1 DEF EngineSound, Core, IsEngine
<1>3. deck' = u /\ Lose({})
  BY DEF DeckSubmitLost
<1> HIDE DEF u
<1>4. EngineSound(u, log, mishaps)
  <2>1. Core(u, log, mishaps)
    BY <1>1, <1>2 DEF EngineSound, Core, PendingIsLast, DoneIsLogged, Done
  <2>2. OneLoop(u) /\ SubmissionSound(u, log, mishaps)
    BY <1>1, <1>2 DEF EngineSound, OneLoop, Waiting, SubmissionSound, Idle
  <2> QED
    BY <2>1, <2>2 DEF EngineSound
<1>5. /\ log' = log /\ feed' = feed /\ ident' = ident
      /\ mishaps' = mishaps \cup {"call lost"} /\ wire' \subseteq wire
  BY <1>3 DEF Lose
<1>6. ~NoneLost(mishaps') /\ mishaps \subseteq mishaps'
  BY <1>5 DEF NoneLost
<1>7. EngineSound(deck', log, mishaps')
  BY <1>3, <1>4, <1>6, MishapsWeaken
<1>8. \A r \in wire' : RequestSound(r, deck')
  BY <1>2, <1>3, <1>5 DEF IInv, RequestSound
<1>9. RoomSound'
  BY <1>5 DEF IInv, RoomSound
<1> QED
  BY <1>5, <1>6, <1>7, <1>8, <1>9 DEF IInv

(* DeckServeCatchUp keeps the invariant. *)
LEMMA ServeCatchUpStep ==
  ASSUME IInv, NEW call \in deck.catching, DeckServeCatchUp(call)
  PROVE  IInv'
<1> DEFINE since == Since(call.from)
           answered == [who |-> call.who, phase |-> since.phase,
                        reset |-> since.reset, todo |-> since.todo]
           u == [deck EXCEPT !.catching = (@ \ {call}) \cup {answered}]
<1>1. /\ log' = log /\ feed' = feed /\ ident' = ident /\ mishaps' = mishaps
      /\ wire' = wire /\ call.phase = "asked" /\ deck' = u
  BY DEF DeckServeCatchUp, room
<1>2. Len(log) \in Nat /\ EngineSound(deck, log, mishaps)
  BY ListFacts DEF IInv, RoomSound
<1>3. /\ IsEngine(u) /\ u.held = deck.held /\ u.base = deck.base
      /\ u.applied = deck.applied /\ u.pending = deck.pending /\ u.made = deck.made
      /\ u.submit = deck.submit
      /\ u.catching = (deck.catching \ {call}) \cup {answered}
  BY <1>2 DEF EngineSound, Core, IsEngine
<1>4. /\ answered.who = call.who /\ answered.phase = "answered"
      /\ answered.todo = [i \in 1..(Len(log) - call.from) |-> call.from + i]
  BY DEF Since
<1> HIDE DEF u, answered
<1>5. call.from \in 0..Len(log) /\ (Timely(mishaps) => call.from <= deck.applied)
  BY <1>1, <1>2 DEF EngineSound, Core, CallSound
<1>6. CallSound(answered, deck.applied, log, mishaps)
  <2> DEFINE from == call.from
             todo == [i \in 1..(Len(log) - from) |-> from + i]
  <2>1. IsList(todo) /\ Len(todo) = Len(log) - from
    BY <1>2, <1>5 DEF IsList
  <2>2. \A i \in 1..Len(todo) : todo[i] = from + i /\ from + i <= Len(log)
    BY <1>2, <1>5, <2>1
  <2> HIDE DEF todo
  <2>3. answered.todo = todo
    BY <1>4 DEF todo
  <2> QED
    BY <1>4, <1>5, <2>1, <2>2, <2>3 DEF CallSound
<1>7. Core(u, log, mishaps)
  BY <1>2, <1>3, <1>6 DEF EngineSound, Core, PendingIsLast, DoneIsLogged, Done
<1>8. OneLoop(u)
  <2>1. CASE call.who = "submit"
    <3>1. deck.submit.phase = "catching" /\ Waiting(deck) = {call}
      BY <1>2, <2>1 DEF EngineSound, OneLoop, Waiting
    <3>2. Waiting(u) = {answered}
      BY <1>3, <1>4, <2>1, <3>1 DEF Waiting
    <3> QED
      BY <1>3, <3>1, <3>2 DEF OneLoop
  <2>2. CASE call.who # "submit"
    <3>1. Waiting(u) = Waiting(deck)
      BY <1>3, <1>4, <2>2 DEF Waiting
    <3>2. \A c : Waiting(deck) = {c} => c \in u.catching
      BY <1>3, <2>2 DEF Waiting
    <3> QED
      BY <1>2, <1>3, <3>1, <3>2 DEF EngineSound, OneLoop
  <2> QED
    BY <2>1, <2>2
<1>9. EngineSound(deck', log, mishaps)
  BY <1>1, <1>2, <1>3, <1>7, <1>8 DEF EngineSound, SubmissionSound
<1>10. Resumes(deck, deck') /\ Sent(deck') = {}
  BY <1>1, <1>3 DEF Resumes, Sent
<1>11. RoomSound'
  BY <1>1 DEF IInv, RoomSound
<1> QED
  BY <1>1, <1>9, <1>10, <1>11, ResumingStep

(* DeckDrop keeps the invariant. *)
LEMMA DropStep ==
  ASSUME IInv, DeckDrop
  PROVE  IInv'
<1>1. /\ log' = log /\ feed' = <<>> /\ ident' = ident /\ mishaps' = mishaps
      /\ wire' = wire /\ deck' = deck
  BY DEF DeckDrop, Drop
<1>2. RoomSound'
  BY <1>1 DEF IInv, RoomSound
<1> QED
  BY <1>1, <1>2 DEF IInv

(* DeckReconnect keeps the invariant. *)
LEMMA ReconnectStep ==
  ASSUME IInv, DeckReconnect
  PROVE  IInv'
<1>1. /\ log' = log /\ feed' = feed /\ ident' = ident + 1 /\ mishaps' = mishaps
      /\ wire' = wire /\ deck' = Ask(deck, "resume")
  BY DEF DeckReconnect, Rejoin
<1>2. RoomSound'
  BY <1>1 DEF IInv, RoomSound
<1>3. Len(log) \in Nat /\ EngineSound(deck, log, mishaps)
  BY ListFacts DEF IInv, RoomSound
<1>4. EngineSound(deck', log, mishaps) /\ deck'.made = deck.made
      /\ deck'.pending = deck.pending /\ deck'.submit = deck.submit
  <2>1. EngineSound(deck', log, mishaps)
    BY <1>1, <1>3, AskSound
  <2>2. Core(deck, log, mishaps)
    BY <1>3 DEF EngineSound
  <2> QED
    BY <1>1, <1>3, <2>1, <2>2, AskIsCore
<1>5. NoneLost(mishaps) => LoggedOnce(deck', log) /\ WireFits(wire', deck')
  BY <1>1, <1>4 DEF IInv, LoggedOnce, Acknowledged, Done, WireFits
<1>6. \A r \in wire' : RequestSound(r, deck')
  BY <1>1, <1>4 DEF IInv, RequestSound
<1> QED
  BY <1>1, <1>2, <1>4, <1>5, <1>6 DEF IInv

(* An entry of this tab's or of another editor's joins the log. *)
LEMMA LogGrows ==
  ASSUME IInv, NEW x, log' = Append(log, x)
  PROVE  /\ IsList(log') /\ OwnLogged(log') /\ EngineSound(deck, log', mishaps)
         /\ Len(log) \in Nat /\ Len(log') = Len(log) + 1
         /\ log'[Len(log) + 1] = x
         /\ \A s \in Seq(0..Len(log)) : s \in Seq(0..Len(log'))
<1>1. IsList(log) /\ OwnLogged(log) /\ EngineSound(deck, log, mishaps)
  BY DEF IInv, RoomSound
<1>2. /\ IsList(log') /\ Len(log) \in Nat /\ Len(log') = Len(log) + 1
      /\ log'[Len(log) + 1] = x
  BY <1>1, ListFacts, ListAppend
<1>3. OwnLogged(log') /\ EngineSound(deck, log', mishaps)
  BY <1>1, OwnLoggedLater, SoundLater
<1>4. ASSUME NEW s \in Seq(0..Len(log)) PROVE s \in Seq(0..Len(log'))
  <2>1. \A k \in 0..Len(log) : k \in 0..Len(log')
    BY <1>2
  <2> DEFINE A == 0..Len(log)
             B == 0..Len(log')
  <2>2. s \in Seq(A) /\ A \subseteq B
    BY <2>1
  <2> HIDE DEF A, B
  <2>3. s \in Seq(B)
    BY <2>2
  <2> QED
    BY <2>3 DEF B
<1> QED
  BY <1>2, <1>3, <1>4

(* DeckOther keeps the invariant. *)
LEMMA OtherStep ==
  ASSUME IInv, DeckOther
  PROVE  IInv'
<1>1. PICK ops : /\ log' = Append(log, Entry(0, ops))
                 /\ \E k \in {0, Len(log) + 1} : Notify(k, 0)
                 /\ wire' = wire /\ ident' = ident /\ mishaps' = mishaps /\ deck' = deck
  BY DEF DeckOther, OtherSubmits, FileReplaced
<1>2. Entry(0, ops).client = 0
  BY DEF Entry
<1>3. /\ IsList(log') /\ OwnLogged(log') /\ EngineSound(deck, log', mishaps)
      /\ Len(log) \in Nat /\ Len(log') = Len(log) + 1
      /\ \A s \in Seq(0..Len(log)) : s \in Seq(0..Len(log'))
  BY <1>1, LogGrows
<1>4. OwnOf(log') = OwnOf(log)
  BY <1>1, <1>2, OwnOfLonger DEF IInv, RoomSound, WithOwn
<1>5. LoggedOnce(deck, log) => LoggedOnce(deck, log')
  BY <1>4 DEF LoggedOnce
<1>6. feed' \in Seq(0..Len(log'))
  <2>1. feed \in Seq(0..Len(log'))
    BY <1>3 DEF IInv, RoomSound
  <2>2. PICK k \in 0..Len(log') : feed' \in {Append(feed, k), feed}
    BY <1>1, <1>3 DEF Notify
  <2> QED
    BY <2>1, <2>2
<1>7. RoomSound'
  BY <1>1, <1>3, <1>6 DEF IInv, RoomSound
<1> QED
  BY <1>1, <1>3, <1>5, <1>7 DEF IInv

(* The server takes the awaited submission or one given up, or refuses it. *)
LEMMA ServeStep ==
  ASSUME IInv, NEW r \in wire, DeckServeSubmit(r)
  PROVE  IInv'
<1> DEFINE awaited == /\ deck.submit.phase = "asked"
                      /\ deck.submit.base = r.base /\ deck.submit.batch.n = r.batch
           u == [deck EXCEPT !.submit = [phase |-> "answered", seq |-> Verdict(r)]]
<1>1. /\ wire' = wire \ {r} /\ ident' = ident /\ mishaps' = mishaps
      /\ deck' = IF awaited THEN u ELSE deck
      /\ IF Fits(r) THEN /\ log' = Append(log, Entry(r.client, r.ops))
                         /\ Notify(Len(log) + 1, r.client)
         ELSE log' = log /\ feed' = feed
  BY DEF DeckServeSubmit, Serve
<1>2. /\ EngineSound(deck, log, mishaps) /\ RequestSound(r, deck)
      /\ IsList(log) /\ Len(log) \in Nat
      /\ NoneLost(mishaps) => LoggedOnce(deck, log) /\ WireFits(wire, deck)
  BY ListFacts DEF IInv, RoomSound
<1>3. /\ IsEngine(u) /\ u.held = deck.held /\ u.base = deck.base
      /\ u.applied = deck.applied /\ u.pending = deck.pending /\ u.made = deck.made
      /\ u.catching = deck.catching
      /\ u.submit.phase = "answered" /\ u.submit.seq = Verdict(r)
  BY <1>2 DEF EngineSound, Core, IsEngine
<1> HIDE DEF u
<1>4. NoneLost(mishaps) => awaited /\ wire' = {}
  BY <1>1, <1>2 DEF WireFits
<1>5. \A q \in wire' : RequestSound(q, deck')
  BY <1>1, <1>3 DEF IInv, RequestSound
<1>6. NoneLost(mishaps) => WireFits(wire', deck')
  BY <1>1, <1>3, <1>4 DEF WireFits
<1>7. ASSUME awaited
      PROVE  /\ r.batch = Done(deck) + 1 /\ deck.pending # <<>>
             /\ r.ops = Head(deck.pending).ops /\ r.ops = deck.made[Done(deck) + 1]
  <2>1. /\ deck.pending # <<>> /\ deck.submit.batch = Head(deck.pending)
        /\ IsList(deck.pending)
        /\ \A i \in 1..Len(deck.pending) :
             deck.pending[i] = [n |-> Done(deck) + i, ops |-> deck.made[Done(deck) + i]]
    BY <1>2, <1>7 DEF EngineSound, Core, PendingIsLast, SubmissionSound
  <2>2. Len(deck.pending) \in Nat /\ Len(deck.pending) > 0
        /\ Head(deck.pending) = deck.pending[1]
    BY <2>1, ListFacts, ListTail
  <2>3. deck.pending[1] = [n |-> Done(deck) + 1, ops |-> deck.made[Done(deck) + 1]]
    <3>1. 1 \in 1..Len(deck.pending)
      BY <2>2
    <3> QED
      BY <2>1, <3>1
  <2> QED
    BY <1>2, <1>7, <2>1, <2>2, <2>3 DEF RequestSound
<1>8. CASE ~Fits(r)
  <2>1. log' = log /\ feed' = feed /\ Verdict(r) = 0
    BY <1>1, <1>8 DEF Verdict
  <2>2. Core(u, log, mishaps)
    BY <1>2, <1>3 DEF EngineSound, Core, PendingIsLast, DoneIsLogged, Done
  <2>3. awaited => OneLoop(u) /\ SubmissionSound(u, log, mishaps)
    BY <1>2, <1>3, <1>7, <2>1 DEF EngineSound, OneLoop, Waiting, SubmissionSound
  <2>4. EngineSound(deck', log, mishaps)
    BY <1>1, <1>2, <2>2, <2>3 DEF EngineSound
  <2>5. NoneLost(mishaps) => LoggedOnce(deck', log)
    BY <1>1, <1>2, <1>3, <1>4, <2>1 DEF LoggedOnce, Acknowledged, Done
  <2>6. RoomSound'
    BY <1>1, <2>1 DEF IInv, RoomSound
  <2> QED
    BY <1>1, <1>5, <1>6, <2>1, <2>4, <2>5, <2>6 DEF IInv
<1>9. CASE Fits(r)
  <2> DEFINE entry == Entry(r.client, r.ops)
  <2>1. log' = Append(log, entry) /\ Notify(Len(log) + 1, r.client)
        /\ Verdict(r) = Len(log) + 1 /\ r.base = Len(log)
    BY <1>1, <1>9 DEF Verdict, Fits
  <2>2. entry.client = r.client /\ entry.ops = r.ops /\ r.client # 0
    BY <1>2 DEF Entry, RequestSound
  <2> HIDE DEF entry
  <2>3. /\ IsList(log') /\ OwnLogged(log') /\ EngineSound(deck, log', mishaps)
        /\ Len(log) \in Nat /\ Len(log') = Len(log) + 1
        /\ log'[Len(log) + 1] = entry
        /\ \A s \in Seq(0..Len(log)) : s \in Seq(0..Len(log'))
    BY <2>1, LogGrows
  <2>4. RoomSound'
    <3>1. feed \in Seq(0..Len(log'))
      BY <2>3 DEF IInv, RoomSound
    <3>2. Len(log) + 1 \in 0..Len(log') /\ feed' \in {Append(feed, Len(log) + 1), feed}
      BY <2>1, <2>3 DEF Notify
    <3>3. feed' \in Seq(0..Len(log'))
      BY <3>1, <3>2
    <3> QED
      BY <1>1, <2>3, <3>3 DEF IInv, RoomSound
  <2>5. Core(u, log', mishaps)
    BY <1>3, <2>3 DEF EngineSound, Core, PendingIsLast, DoneIsLogged, Done
  <2>6. awaited => SubmissionSound(u, log', mishaps) /\ OneLoop(u)
    <3> SUFFICES ASSUME awaited PROVE SubmissionSound(u, log', mishaps) /\ OneLoop(u)
      OBVIOUS
    <3>1. Timely(mishaps) => Len(log) <= deck.applied
      BY <1>2, <2>1 DEF EngineSound, SubmissionSound
    <3>2. deck.applied \in 0..Len(log)
      BY <1>2 DEF EngineSound, Core
    <3>3. /\ u.submit.seq = Len(log) + 1 /\ Len(log) + 1 \in 0..Len(log')
          /\ log'[u.submit.seq].ops = Head(u.pending).ops
          /\ log'[u.submit.seq].client # 0 /\ u.pending # <<>>
      BY <1>3, <1>7, <2>1, <2>2, <2>3
    <3>4. Timely(mishaps) => u.submit.seq <= u.applied + 1
      BY <1>2, <1>3, <3>1, <3>2, <3>3
    <3>5. OneLoop(u)
      BY <1>2, <1>3 DEF EngineSound, OneLoop, Waiting
    <3> QED
      BY <1>3, <3>3, <3>4, <3>5 DEF SubmissionSound
  <2>7. EngineSound(deck', log', mishaps)
    BY <1>1, <2>3, <2>5, <2>6 DEF EngineSound
  <2>8. NoneLost(mishaps) => LoggedOnce(deck', log')
    <3> SUFFICES ASSUME NoneLost(mishaps) PROVE LoggedOnce(deck', log')
      OBVIOUS
    <3> DEFINE own == OwnOf(log)
    <3>1. deck' = u /\ Done(u) = Done(deck) /\ awaited
      BY <1>1, <1>3, <1>4 DEF Done
    <3>2. Len(own) = Done(deck) /\ \A i \in 1..Len(own) : own[i] = deck.made[i]
      <4>1. LoggedOnce(deck, log) /\ ~Acknowledged(deck)
        BY <1>2, <3>1 DEF Acknowledged
      <4>2. Len(deck.made) - Len(deck.pending) \in Int
        <5>1. IsList(deck.made) /\ IsList(deck.pending)
          BY <1>2 DEF EngineSound, Core, PendingIsLast
        <5> QED
          BY <5>1, ListFacts
      <4> QED
        BY <4>1, <4>2 DEF LoggedOnce, Done
    <3>3. IsList(own) /\ OwnOf(log') = Append(own, r.ops)
      BY <1>2, <2>1, <2>2, OwnOfLonger DEF IInv, OwnLogged, WithOwn
    <3> HIDE DEF own
    <3>4. /\ Len(OwnOf(log')) = Len(own) + 1
          /\ \A i \in 1..Len(own) : OwnOf(log')[i] = own[i]
          /\ OwnOf(log')[Len(own) + 1] = r.ops
      BY <3>3, ListAppend
    <3>5. Acknowledged(u)
      BY <1>3, <2>1, <2>3 DEF Acknowledged
    <3>6. r.ops = deck.made[Len(own) + 1]
      BY <1>7, <3>1, <3>2
    <3>7. \A i \in 1..Len(OwnOf(log')) : OwnOf(log')[i] = u.made[i]
      <4> TAKE i \in 1..Len(OwnOf(log'))
      <4>1. Len(own) \in Nat
        BY <3>3, ListFacts
      <4>2. i \in 1..Len(own) \/ i = Len(own) + 1
        BY <3>4, <4>1
      <4> QED
        BY <1>3, <3>2, <3>4, <3>6, <4>2
    <3> QED
      BY <3>1, <3>2, <3>4, <3>5, <3>7 DEF LoggedOnce
  <2> QED
    BY <1>1, <1>5, <1>6, <2>3, <2>4, <2>7, <2>8 DEF IInv
<1> QED
  BY <1>8, <1>9

(* A stale submission, and an acknowledgement, early or late. *)
LEMMA StaleSound ==
  ASSUME NEW e, NEW m, Len(log) \in Nat, EngineSound(e, log, m),
         e.submit.phase = "answered"
  PROVE  LET u == Ask([e EXCEPT !.submit = [phase |-> "catching"]], "submit")
         IN  /\ EngineSound(u, log, m)
             /\ u.made = e.made /\ u.pending = e.pending /\ u.submit.phase = "catching"
<1> DEFINE v == [e EXCEPT !.submit = [phase |-> "catching"]]
           u == Ask(v, "submit")
<1>1. /\ IsEngine(v) /\ v.held = e.held /\ v.base = e.base
      /\ v.applied = e.applied /\ v.pending = e.pending /\ v.made = e.made
      /\ v.catching = e.catching /\ v.submit = [phase |-> "catching"]
  BY DEF EngineSound, Core, IsEngine
<1> HIDE DEF v
<1>2. Core(v, log, m)
  BY <1>1 DEF EngineSound, Core, PendingIsLast, DoneIsLogged, Done
<1>3. /\ Core(u, log, m) /\ Adds(v, u, "submit")
      /\ u.made = v.made /\ u.pending = v.pending /\ u.submit = v.submit
  BY <1>2, AskIsCore
<1> HIDE DEF u
<1>4. Waiting(v) = {}
  BY <1>1 DEF EngineSound, OneLoop, Waiting
<1>5. u.submit.phase = "catching"
  BY <1>1, <1>3
<1>6. OneLoop(u)
  BY <1>3, <1>4, <1>5 DEF OneLoop, Waiting, Adds
<1>7. SubmissionSound(u, log, m)
  BY <1>5 DEF SubmissionSound
<1> QED
  BY <1>1, <1>3, <1>5, <1>6, <1>7 DEF EngineSound, u, v

(* DeckSubmitReturns keeps the invariant. *)
LEMMA SubmitReturnsStep ==
  ASSUME IInv, DeckSubmitReturns
  PROVE  IInv'
<1> DEFINE noted == IF deck.submit.seq \in 1..deck.applied
                    THEN {"late acknowledgement"} ELSE {}
<1>1. /\ log' = log /\ feed' = feed /\ ident' = ident
      /\ mishaps' = mishaps \cup noted /\ wire' = wire \cup Sent(deck')
      /\ deck.submit.phase = "answered"
      /\ deck' = IF deck.submit.seq = 0
                 THEN Ask([deck EXCEPT !.submit = [phase |-> "catching"]], "submit")
                 ELSE SubmitLoop(Acked(deck))
  BY DEF DeckSubmitReturns, Quiet
<1>2. /\ IsList(log) /\ Len(log) \in Nat /\ mishaps \subseteq mishaps'
      /\ EngineSound(deck, log, mishaps') /\ OwnLogged(log)
      /\ NoneLost(mishaps') => LoggedOnce(deck, log)
  BY <1>1, ListFacts, MishapsWeaken, LossesLast DEF IInv, RoomSound
<1>3. RoomSound'
  BY <1>1 DEF IInv, RoomSound
<1>4. CASE deck.submit.seq = 0
  <2>1. /\ EngineSound(deck', log, mishaps')
        /\ deck'.made = deck.made /\ deck'.pending = deck.pending
        /\ deck'.submit.phase = "catching"
    BY <1>1, <1>2, <1>4, StaleSound
  <2>2. NoneLost(mishaps') => LoggedOnce(deck', log)
    BY <1>1, <1>2, <1>4, <2>1 DEF LoggedOnce, Acknowledged, Done
  <2>3. \A r \in wire : RequestSound(r, deck')
    BY <2>1 DEF IInv, RequestSound
  <2> QED
    BY <1>1, <1>2, <1>3, <2>1, <2>2, <2>3, EngineStep
<1>5. CASE deck.submit.seq # 0
  <2> DEFINE v == Acked(deck)
             u == SubmitLoop(v)
  <2>1. Timely(mishaps') => deck.submit.seq > deck.applied
    <3>1. deck.submit.seq \in 0..Len(log) /\ deck.applied \in 0..Len(log)
      BY <1>1, <1>2 DEF EngineSound, Core, SubmissionSound
    <3>2. Timely(mishaps') => deck.submit.seq \notin 1..deck.applied
      BY <1>1 DEF Timely
    <3> QED
      BY <1>2, <1>5, <3>1, <3>2
  <2>2. /\ Core(v, log, mishaps') /\ Waiting(v) = {}
        /\ v.made = deck.made /\ v.pending = Tail(deck.pending)
        /\ Done(v) = Done(deck) + 1
    BY <1>1, <1>2, <1>5, <2>1, AckedSound
  <2> HIDE DEF v
  <2>3. /\ EngineSound(u, log, mishaps') /\ u.made = v.made /\ u.pending = v.pending
        /\ u.submit.phase \in {"idle", "asked"}
    BY <1>2, <2>2, SubmitLoopSound
  <2>4. deck' = u
    BY <1>1, <1>5 DEF v
  <2> HIDE DEF u
  <2>5. NoneLost(mishaps') => LoggedOnce(u, log)
    <3> SUFFICES ASSUME NoneLost(mishaps') PROVE LoggedOnce(u, log)
      OBVIOUS
    <3>1. Acknowledged(deck) /\ ~Acknowledged(u)
      BY <1>1, <1>5, <2>3 DEF Acknowledged
    <3>2. Done(u) = Done(deck) + 1
      BY <2>2, <2>3 DEF Done
    <3>3. /\ Len(OwnOf(log)) = Done(deck) + 1
          /\ \A i \in 1..Len(OwnOf(log)) : OwnOf(log)[i] = deck.made[i]
      BY <1>2, <3>1 DEF LoggedOnce
    <3>4. Len(OwnOf(log)) \in Nat
      BY <1>2, ListFacts DEF OwnLogged
    <3>5. Len(OwnOf(log)) = Done(u) /\ Done(u) + 0 = Done(u)
      BY <3>2, <3>3, <3>4
    <3> QED
      BY <2>2, <2>3, <3>1, <3>3, <3>5 DEF LoggedOnce
  <2>6. \A r \in wire : RequestSound(r, u)
    BY <2>2, <2>3 DEF IInv, RequestSound
  <2> QED
    BY <1>1, <1>2, <1>3, <2>3, <2>4, <2>5, <2>6, EngineStep
<1> QED
  BY <1>4, <1>5

-----------------------------------------------------------------------------
(***************************************************************************)
(* The theorems.                                                           *)
(***************************************************************************)
LEMMA InitSound == ASSUME DeckInit PROVE IInv
<1>1. /\ log = <<>> /\ wire = {} /\ feed = <<>> /\ mishaps = {} /\ ident = 1
      /\ IsEngine(deck)
      /\ deck.base = FirstDeck /\ deck.applied = 0 /\ deck.pending = <<>>
      /\ deck.made = <<>> /\ deck.submit = Idle /\ deck.held = {}
      /\ deck.catching = {[who |-> "boot", phase |-> "asked", from |-> 0]}
  BY DEF DeckInit, RoomInit, IsEngine
<1>2. IsList(<<>>) /\ Len(<<>>) = 0
  BY ListEmpty
<1>3. Done(deck) = 0
  BY <1>1, <1>2 DEF Done
<1>4. \A call \in deck.catching :
        call.who = "boot" /\ CallSound(call, deck.applied, log, mishaps)
  BY <1>1, <1>2 DEF CallSound
<1>5. PendingIsLast(deck) /\ DoneIsLogged(deck, log)
  BY <1>1, <1>2, <1>3 DEF PendingIsLast, DoneIsLogged
<1>6. Core(deck, log, mishaps)
  BY <1>1, <1>2, <1>4, <1>5, DeckAtStart DEF Core
<1>7. OneLoop(deck) /\ SubmissionSound(deck, log, mishaps)
  BY <1>1, <1>4 DEF OneLoop, Waiting, SubmissionSound, Idle
<1>8. OwnLogged(log) /\ LoggedOnce(deck, log) /\ WireFits(wire, deck)
  BY <1>1, <1>2, <1>3, OwnOfNothing DEF OwnLogged, LoggedOnce, Acknowledged, WireFits, Idle
<1>9. RoomSound
  BY <1>1, <1>2 DEF RoomSound
<1> QED
  BY <1>1, <1>6, <1>7, <1>8, <1>9 DEF IInv, EngineSound

(* Every step keeps the invariant. *)
LEMMA StepSound == ASSUME IInv, [DeckNext]_kvars PROVE IInv'
<1>1. ASSUME NEW next \in Rewrites(Visible(deck), Len(deck.made) + 1), DeckChange(next)
      PROVE  IInv'
  BY <1>1, ChangeStep
<1>2. ASSUME NEW r \in wire, DeckServeSubmit(r) PROVE IInv'
  BY <1>2, ServeStep
<1>3. ASSUME NEW call \in deck.catching, DeckServeCatchUp(call) PROVE IInv'
  BY <1>3, ServeCatchUpStep
<1>4. ASSUME NEW call \in deck.catching, DeckCatchUpReturns(call) PROVE IInv'
  BY <1>4, CatchUpStep
<1>5. ASSUME NEW call \in deck.catching, DeckCatchUpLost(call) PROVE IInv'
  BY <1>5, CatchUpLostStep
<1>6. CASE DeckOther
  BY <1>6, OtherStep
<1>7. CASE DeckEvent
  BY <1>7, EventStep
<1>8. CASE DeckSubmitReturns
  BY <1>8, SubmitReturnsStep
<1>9. CASE DeckSubmitLost
  BY <1>9, SubmitLostStep
<1>10. CASE DeckDrop
  BY <1>10, DropStep
<1>11. CASE DeckReconnect
  BY <1>11, ReconnectStep
<1>12. CASE UNCHANGED kvars
  BY <1>12 DEF kvars, room, IInv, RoomSound
<1> QED
  BY <1>1, <1>2, <1>3, <1>4, <1>5, <1>6, <1>7, <1>8, <1>9, <1>10, <1>11, <1>12 DEF DeckNext

(* The invariant the two theorems below rest on. *)
THEOREM DeckInductive == DeckSpec => []IInv
<1>1. DeckInit => IInv
  BY InitSound
<1>2. IInv /\ [DeckNext]_kvars => IInv'
  BY StepSound
<1> QED
  BY <1>1, <1>2, PTL DEF DeckSpec

(* Whatever other editors log, whichever calls are lost and however events,
   answers and reconnects interleave: the confirmed deck is the loaded one with
   the log applied up to a position, in order and without a gap, unless an
   acknowledgement comes behind the entries that follow it or the host was told
   to reload. *)
THEOREM BaseAlwaysFollowsLog == DeckSpec => []BaseFollowsLogIfCoped
<1>1. IInv => BaseFollowsLogIfCoped
  <2> SUFFICES ASSUME IInv, mishaps \ {"call lost"} = {} PROVE BaseFollowsLog
    BY DEF BaseFollowsLogIfCoped
  <2>1. Timely(mishaps)
    <3>1. \A x \in mishaps : x = "call lost"
      OBVIOUS
    <3>2. "late acknowledgement" # "call lost"
      BY Zenon
    <3> QED
      BY <3>1, <3>2, Zenon DEF Timely
  <2> QED
    BY <2>1 DEF IInv, EngineSound, Core, DeckAt, BaseFollowsLog
<1> QED
  BY <1>1, DeckInductive, PTL

(* No batch is lost, overtaken or forgotten, and none is logged twice unless a
   call is lost. *)
THEOREM BatchesAlwaysKept == DeckSpec => []BatchesKept
<1>1. ASSUME IInv PROVE BatchesKept
  <2> DEFINE sent == FoldLeft(WithOwn, <<>>, log)
             done == Len(deck.made) - Len(deck.pending)
  <2>1. sent = OwnOf(log) /\ done = Done(deck)
    BY DEF OwnOf, Done
  <2> HIDE DEF sent, done
  <2>2. /\ PendingIsLast(deck) /\ DoneIsLogged(deck, log) /\ OwnLogged(log)
        /\ SubmissionSound(deck, log, mishaps)
        /\ NoneLost(mishaps) => LoggedOnce(deck, log)
    BY <1>1 DEF IInv, EngineSound, Core
  <2>3. /\ IsList(deck.pending) /\ IsList(deck.made) /\ IsList(sent)
        /\ Len(deck.pending) <= Len(deck.made)
        /\ Len(deck.pending) \in Nat /\ Len(deck.made) \in Nat /\ Len(sent) \in Nat
    BY <2>1, <2>2, ListFacts DEF PendingIsLast, OwnLogged
  <2>4. done \in Nat /\ done <= Len(deck.made)
    <3>1. \A a, b \in Nat : a <= b => b - a \in Nat /\ b - a <= b
      OBVIOUS
    <3> QED
      BY <2>3, <3>1, Zenon DEF done
  <2>5. deck.pending = [i \in 1..Len(deck.pending) |->
                          [n |-> done + i, ops |-> deck.made[done + i]]]
    <3> DEFINE S == {deck.pending[i] : i \in DOMAIN deck.pending}
    <3>1. deck.pending \in Seq(S)
      BY <2>3 DEF IsList
    <3> HIDE DEF S
    <3>2. deck.pending = [i \in 1..Len(deck.pending) |-> deck.pending[i]]
      BY <3>1
    <3>3. \A i \in 1..Len(deck.pending) :
            deck.pending[i] = [n |-> done + i, ops |-> deck.made[done + i]]
      BY <2>1, <2>2 DEF PendingIsLast
    <3> QED
      BY <3>2, <3>3, Zenon
  <2>6. ToSet(SubSeq(deck.made, 1, done)) \subseteq ToSet(sent)
    <3>1. DOMAIN sent = 1..Len(sent)
      BY <2>3, ListFacts
    <3>2. /\ DOMAIN SubSeq(deck.made, 1, done) = 1..done
          /\ \A i \in 1..done : SubSeq(deck.made, 1, done)[i] = deck.made[i]
      <4> DEFINE S == {deck.made[i] : i \in DOMAIN deck.made}
      <4>1. deck.made \in Seq(S)
        BY <2>3 DEF IsList
      <4> HIDE DEF S
      <4> QED
        BY <2>3, <2>4, <4>1
    <3>3. \A i \in 1..done : \E j \in 1..Len(sent) : sent[j] = deck.made[i]
      BY <2>1, <2>2 DEF DoneIsLogged
    <3> QED
      BY <3>1, <3>2, <3>3 DEF ToSet
  <2>7. ASSUME mishaps \ {"late acknowledgement"} = {}
        PROVE  IsPrefix(sent, deck.made) /\ Len(sent) \in {done, done + 1}
    <3>1. NoneLost(mishaps)
      <4>1. \A x \in mishaps : x = "late acknowledgement"
        BY <2>7
      <4>2. "late acknowledgement" # "call lost"
        BY Zenon
      <4> QED
        BY <4>1, <4>2, Zenon DEF NoneLost
    <3>2. /\ Len(sent) = done + (IF Acknowledged(deck) THEN 1 ELSE 0)
          /\ \A i \in 1..Len(sent) : sent[i] = deck.made[i]
      BY <2>1, <2>2, <3>1 DEF LoggedOnce
    <3>3. Acknowledged(deck) => Len(deck.pending) > 0
      BY <2>2, <2>3, ListTail DEF Acknowledged, SubmissionSound
    <3>4. Len(sent) \in {done, done + 1} /\ Len(sent) <= Len(deck.made)
      <4>1. Acknowledged(deck) => done + 1 <= Len(deck.made)
        BY <2>3, <3>3 DEF done
      <4> QED
        BY <2>3, <2>4, <3>2, <4>1
    <3>5. SubSeq(sent, 1, Len(sent)) = SubSeq(deck.made, 1, Len(sent))
      <4> DEFINE S == {deck.made[i] : i \in DOMAIN deck.made}
                 T == {sent[i] : i \in DOMAIN sent}
      <4>1. deck.made \in Seq(S) /\ sent \in Seq(T)
        BY <2>3 DEF IsList
      <4> HIDE DEF S, T
      <4> QED
        BY <2>3, <3>2, <3>4, <4>1
    <3> QED
      BY <3>4, <3>5 DEF IsPrefix
  <2> QED
    BY <2>5, <2>6, <2>7 DEF BatchesKept, sent, done
<1> QED
  BY <1>1, DeckInductive, PTL

=============================================================================
