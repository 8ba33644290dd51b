--------------------------- MODULE DocSyncProofs ---------------------------
(***************************************************************************)
(* A document tab takes the log in, in order and nothing twice, and keeps  *)
(* what was typed: proofs about DocSync for all bounds, attempts and       *)
(* orders of calls, answers and events, as long as the host applies at     *)
(* once and none of the mishaps has happened that the engine does not      *)
(* cope with.                                                              *)
(***************************************************************************)
EXTENDS DocSync, TLAPS

(* Folds of the module. *)
Texts == INSTANCE Folding WITH Op <- WithEdits
Owning == INSTANCE Folding WITH Op <- WithOwn

-----------------------------------------------------------------------------
(***************************************************************************)
(* The inductive invariant.                                                *)
(***************************************************************************)
EntrySet == [client : Nat, ops : Seq(Int)]

(* The edits of the first n entries. *)
EditsAt(entries, n) == FoldLeft(WithEdits, <<>>, SubSeq(entries, 1, n))

IsDoc(e) ==
  DOMAIN e = {"applied", "seen", "pending", "made", "submit", "tries", "resuming",
              "catch", "held", "tasks", "reload"}

(* The positions follow one another from the one after from, all of them logged. *)
Follow(todo, from, entries) ==
  /\ todo \in Seq(Nat)
  /\ \A i \in 1..Len(todo) : todo[i] = from + i /\ from + i <= Len(entries)

Done(e) == e.made - Len(e.pending)

(* What was typed: a part of it confirmed, the rest pending, in the order typed. *)
TypedSound(e) ==
  /\ e.made \in Nat /\ e.pending \in Seq(Nat) /\ Len(e.pending) <= e.made
  /\ \A i \in 1..Len(e.pending) : e.pending[i] = Done(e) + i
  /\ Own(e.seen) = [i \in 1..Done(e) |-> i]

(* A catch-up asks from no later than the applied position. *)
CatchSound(e, entries) ==
  /\ e.catch.phase \in {"idle", "asked", "answered", "applying"}
  /\ e.catch.phase = "asked" => e.catch.from \in 0..e.applied
  /\ e.catch.phase = "answered" /\ ~e.catch.reset =>
       \E from \in 0..e.applied : Follow(e.catch.todo, from, entries)

(* Something is the first part of what is pending. *)
Leads(ops, pending) == ops = SubSeq(pending, 1, Len(ops)) /\ Len(ops) <= Len(pending)

(* A submission under way, then acknowledged at the position that is next. *)
SubmissionSound(e, entries) ==
  /\ e.submit.phase \in {"idle", "booting", "asked", "answered", "catching", "draining"}
  /\ e.submit.phase \in {"asked", "answered"} =>
       e.submit.ops \in Seq(Nat) /\ Leads(e.submit.ops, e.pending)
  /\ e.submit.phase = "asked" => e.submit.base \in 0..e.applied
  /\ e.submit.phase = "answered" /\ e.submit.seq # 0 =>
       /\ e.submit.seq = e.applied + 1 /\ e.applied < Len(entries)
       /\ entries[e.submit.seq].ops = e.submit.ops
       /\ entries[e.submit.seq].client # 0

(* This tab's entries are applied, but for one whose acknowledgement is coming. *)
OwnApplied(e, entries) ==
  \A k \in 1..Len(entries) :
    /\ entries[k].client = 0 => \A i \in 1..Len(entries[k].ops) : entries[k].ops[i] <= 0
    /\ entries[k].client # 0 =>
         k <= e.applied \/ (e.submit.phase = "answered" /\ e.submit.seq = k)

Core(e, entries) ==
  /\ IsDoc(e)
  /\ e.applied \in 0..Len(entries) /\ e.held \in SUBSET (1..Len(entries))
  /\ e.seen = EditsAt(entries, e.applied)
  /\ TypedSound(e) /\ CatchSound(e, entries) /\ SubmissionSound(e, entries)
  /\ OwnApplied(e, entries)

(* At most one entry is being applied, and it is the next one. *)
TaskSound(task, e, entries) ==
  /\ task.at = e.applied + 1 /\ e.applied < Len(entries)
  /\ Follow(task.todo, task.at, entries)
  /\ task.who \in {"live", "catch", "submit"}
  /\ task.who = "submit" => e.submit.phase = "draining"

OneTask(e, entries) ==
  e.tasks # {} => \E task \in e.tasks : e.tasks = {task} /\ TaskSound(task, e, entries)

(* Nothing is under way but the submission that is awaited. *)
WireFits(w, e) ==
  IF e.submit.phase = "asked"
  THEN \E r \in w : w = {r} /\ r.base = e.submit.base /\ r.ops = e.submit.ops
                    /\ r.client \in Nat \ {0}
  ELSE w = {}

RoomSound ==
  /\ log \in Seq(EntrySet)
  /\ ident \in Nat \ {0}
  /\ feed \in Seq(0..Len(log))

Sound ==
  RoomSound /\ Core(doc, log) /\ OneTask(doc, log) /\ WireFits(wire, doc)

IInv == IsDoc(doc) /\ (DocCoped => Sound)

-----------------------------------------------------------------------------
(***************************************************************************)
(* Edits of a log, and this tab's among them.                              *)
(***************************************************************************)
LEMMA TextIsFold ==
  ASSUME NEW d, NEW s
  PROVE  FoldLeft(WithEdits, d, s) = Texts!Folded(d, s)
BY DEF Texts!Folded, FoldLeft, MapThenFoldSet, Texts!FoldLeft,
       Texts!MapThenFoldSet, Texts!Max, Max

(* Picking this tab's edits is a fold, as Folding has it. *)
LEMMA OwnIsFold ==
  ASSUME NEW s
  PROVE  Own(s) = Owning!Folded(<<>>, s)
BY DEF Own, Owning!Folded, FoldLeft, MapThenFoldSet, Owning!FoldLeft,
       Owning!MapThenFoldSet, Owning!Max, Max

(* Nothing applied, no edits. *)
LEMMA EditsAtStart == ASSUME NEW entries PROVE EditsAt(entries, 0) = <<>>
<1>1. SubSeq(entries, 1, 0) = <<>>
  OBVIOUS
<1> QED
  BY <1>1, TextIsFold, Texts!FoldEmpty DEF EditsAt

(* The next entry's edits follow. *)
LEMMA EditsAtNext ==
  ASSUME NEW entries \in Seq(EntrySet), NEW n \in 0..(Len(entries) - 1)
  PROVE  EditsAt(entries, n + 1) = EditsAt(entries, n) \o entries[n + 1].ops
<1> DEFINE s == SubSeq(entries, 1, n)
<1>1. entries[n + 1] \in EntrySet
  OBVIOUS
<1>2. s \in Seq(EntrySet) /\ SubSeq(entries, 1, n + 1) = Append(s, entries[n + 1])
  OBVIOUS
<1> HIDE DEF s
<1>3. Texts!Folded(<<>>, Append(s, entries[n + 1]))
        = WithEdits(Texts!Folded(<<>>, s), entries[n + 1])
  BY <1>1, <1>2, Texts!FoldAppend
<1> QED
  BY <1>2, <1>3, TextIsFold DEF EditsAt, WithEdits, s

(* What is logged later changes nothing before. *)
LEMMA EditsAtLonger ==
  ASSUME NEW entries \in Seq(EntrySet), NEW x \in EntrySet, NEW n \in 0..Len(entries)
  PROVE  EditsAt(Append(entries, x), n) = EditsAt(entries, n)
<1>1. SubSeq(Append(entries, x), 1, n) = SubSeq(entries, 1, n)
  OBVIOUS
<1> QED
  BY <1>1 DEF EditsAt

(* At the end of the log its edits are all edits. *)
LEMMA EditsAtEnd ==
  ASSUME log \in Seq(EntrySet)
  PROVE  Edits = EditsAt(log, Len(log))
<1>1. SubSeq(log, 1, Len(log)) = log
  OBVIOUS
<1> QED
  BY <1>1 DEF Edits, EditsAt

(* Edits are numbers, and more entries bring more of them. *)
LEMMA EditsGrow ==
  ASSUME NEW entries \in Seq(EntrySet), NEW n \in 0..Len(entries)
  PROVE  /\ EditsAt(entries, n) \in Seq(Int)
         /\ IsPrefix(EditsAt(entries, n), EditsAt(entries, Len(entries)))
<1> DEFINE m == Len(entries)
           E == [k \in 0..m |-> EditsAt(entries, k)]
           S == {k \in 0..m : E[k] \in Seq(Int) /\ (n <= k => IsPrefix(E[n], E[k]))}
           T == {k \in 0..m : E[k] \in Seq(Int)}
<1>1. m \in Nat
  OBVIOUS
<1>2. ASSUME NEW k \in 0..(m - 1)
      PROVE  E[k + 1] = E[k] \o entries[k + 1].ops /\ entries[k + 1].ops \in Seq(Int)
  <2>1. k \in 0..m /\ k + 1 \in 0..m /\ entries[k + 1] \in EntrySet
    BY <1>1
  <2>2. EditsAt(entries, k + 1) = EditsAt(entries, k) \o entries[k + 1].ops
    BY EditsAtNext
  <2>3. entries[k + 1].ops \in Seq(Int)
    BY <2>1 DEF EntrySet
  <2> QED
    BY <2>1, <2>2, <2>3
<1>3. E[0] = <<>> /\ \A k \in 0..m : E[k] = EditsAt(entries, k)
  BY <1>1, EditsAtStart
<1> HIDE DEF E
<1>4. 0..m \subseteq T
  <2>1. 0 \in T
    <3>1. <<>> \in Seq(Int)
      OBVIOUS
    <3>2. 0 \in 0..m
      BY <1>1
    <3> QED
      BY <1>3, <3>1, <3>2, Zenon
  <2>2. ASSUME NEW k \in 0..(m - 1), k \in T PROVE k + 1 \in T
    <3>1. E[k] \in Seq(Int) /\ k + 1 \in 0..m
      BY <1>1, <2>2
    <3>2. E[k + 1] = E[k] \o entries[k + 1].ops /\ entries[k + 1].ops \in Seq(Int)
      BY <1>2
    <3>3. \A u, v \in Seq(Int) : u \o v \in Seq(Int)
      OBVIOUS
    <3>4. E[k + 1] \in Seq(Int)
      BY <3>1, <3>2, <3>3, Zenon
    <3> QED
      BY <3>1, <3>4
  <2> HIDE DEF T, m
  <2> QED
    BY <1>1, <2>1, <2>2, Texts!Induction
<1>5. \A k \in 0..m : E[k] \in Seq(Int)
  BY <1>4
<1>6. \A s, t \in Seq(Int) : IsPrefix(s, s) /\ IsPrefix(s, s \o t)
  BY DEF IsPrefix
<1>7. \A s, t, u \in Seq(Int) : IsPrefix(s, t) => IsPrefix(s, t \o u)
  <2> TAKE s, t, u \in Seq(Int)
  <2> HAVE IsPrefix(s, t)
  <2>1. Len(s) <= Len(t) /\ SubSeq(s, 1, Len(s)) = SubSeq(t, 1, Len(s))
    BY DEF IsPrefix
  <2>2. SubSeq(t \o u, 1, Len(s)) = SubSeq(t, 1, Len(s))
    BY <2>1
  <2>3. Len(s) <= Len(t \o u)
    BY <2>1
  <2> QED
    BY <2>1, <2>2, <2>3 DEF IsPrefix
<1>8. 0..m \subseteq S
  <2>1. 0 \in S
    <3>1. n <= 0 => n = 0
      OBVIOUS
    <3> QED
      BY <1>1, <1>5, <1>6, <3>1
  <2>2. ASSUME NEW k \in 0..(m - 1), k \in S PROVE k + 1 \in S
    <3>1. k + 1 \in 0..m /\ k \in 0..m /\ (n <= k + 1 => n <= k \/ n = k + 1)
      BY <1>1
    <3>2. E[n] \in Seq(Int) /\ E[k] \in Seq(Int) /\ E[k + 1] \in Seq(Int)
      BY <1>5, <3>1
    <3>3. n <= k => IsPrefix(E[n], E[k])
      BY <2>2
    <3>4. n <= k => IsPrefix(E[n], E[k + 1])
      BY <1>2, <1>7, <3>2, <3>3
    <3>5. n = k + 1 => IsPrefix(E[n], E[k + 1])
      BY <1>6, <3>2
    <3> QED
      BY <3>1, <3>2, <3>4, <3>5
  <2> HIDE DEF S, m
  <2> QED
    BY <1>1, <2>1, <2>2, Texts!Induction
<1>9. m \in S
  BY <1>1, <1>8
<1> QED
  BY <1>1, <1>3, <1>5, <1>9

(* Of no edits none is this tab's. *)
LEMMA OwnOfNothing == Own(<<>>) = <<>>
BY OwnIsFold, Owning!FoldEmpty

(* This tab's edits grow with those that are its own. *)
LEMMA OwnOfLonger ==
  ASSUME NEW s \in Seq(Int), NEW n \in Int
  PROVE  Own(Append(s, n)) = IF n > 0 THEN Append(Own(s), n) ELSE Own(s)
<1>1. Owning!Folded(<<>>, Append(s, n)) = WithOwn(Owning!Folded(<<>>, s), n)
  BY Owning!FoldAppend
<1> QED
  BY <1>1, OwnIsFold DEF WithOwn

(* What goes for every part of a sequence from its beginning goes for it. *)
Parts(s, t, k) == s \o SubSeq(t, 1, k)

(* Edits join a text one after another. *)
LEMMA PartsGrow ==
  ASSUME NEW s \in Seq(Int), NEW t \in Seq(Int)
  PROVE  /\ Parts(s, t, 0) = s /\ Parts(s, t, Len(t)) = s \o t
         /\ \A k \in 0..(Len(t) - 1) :
              /\ Parts(s, t, k) \in Seq(Int) /\ t[k + 1] \in Int
              /\ Parts(s, t, k + 1) = Append(Parts(s, t, k), t[k + 1])
<1>1. Parts(s, t, 0) = s /\ Parts(s, t, Len(t)) = s \o t
  <2>1. SubSeq(t, 1, 0) = <<>> /\ SubSeq(t, 1, Len(t)) = t
    OBVIOUS
  <2>2. s \o <<>> = s
    OBVIOUS
  <2> QED
    BY <2>1, <2>2 DEF Parts
<1>2. ASSUME NEW k \in 0..(Len(t) - 1)
      PROVE  /\ Parts(s, t, k) \in Seq(Int) /\ t[k + 1] \in Int
             /\ Parts(s, t, k + 1) = Append(Parts(s, t, k), t[k + 1])
  <2>1. SubSeq(t, 1, k) \in Seq(Int) /\ t[k + 1] \in Int
    OBVIOUS
  <2>2. SubSeq(t, 1, k + 1) = Append(SubSeq(t, 1, k), t[k + 1])
    OBVIOUS
  <2>3. \A u \in Seq(Int), x \in Int : s \o Append(u, x) = Append(s \o u, x)
    OBVIOUS
  <2> QED
    BY <2>1, <2>2, <2>3, SMTT(30) DEF Parts
<1> QED
  BY <1>1, <1>2

(* Another editor's edits are none of this tab's. *)
LEMMA OwnOfOthers ==
  ASSUME NEW s \in Seq(Int), NEW t \in Seq(Int), \A i \in 1..Len(t) : t[i] <= 0
  PROVE  Own(s \o t) = Own(s)
<1> DEFINE m == Len(t)
           S == {k \in 0..m : Own(Parts(s, t, k)) = Own(s)}
<1>1. m \in Nat
  OBVIOUS
<1>2. 0 \in S
  BY <1>1, PartsGrow
<1>3. ASSUME NEW k \in 0..(m - 1), k \in S PROVE k + 1 \in S
  <2>1. t[k + 1] <= 0 /\ k + 1 \in 0..m
    BY <1>1
  <2>2. /\ Parts(s, t, k) \in Seq(Int) /\ t[k + 1] \in Int
        /\ Parts(s, t, k + 1) = Append(Parts(s, t, k), t[k + 1])
    BY PartsGrow
  <2>3. Own(Append(Parts(s, t, k), t[k + 1])) = Own(Parts(s, t, k))
    BY <2>1, <2>2, OwnOfLonger
  <2> QED
    BY <1>3, <2>1, <2>2, <2>3
<1>4. 0..m \subseteq S
  <2> HIDE DEF S, m
  <2> QED
    BY <1>1, <1>2, <1>3, Owning!Induction
<1>5. m \in S
  <2> HIDE DEF S
  <2> QED
    BY <1>1, <1>4
<1> QED
  BY <1>5, PartsGrow

(* What this tab made is its own. *)
LEMMA OwnOfOwn ==
  ASSUME NEW s \in Seq(Int), Own(s) \in Seq(Int),
         NEW t \in Seq(Int), \A i \in 1..Len(t) : t[i] > 0
  PROVE  Own(s \o t) = Own(s) \o t
<1> DEFINE m == Len(t)
           S == {k \in 0..m : Own(Parts(s, t, k)) = Parts(Own(s), t, k)}
<1>1. m \in Nat
  OBVIOUS
<1>2. 0 \in S
  BY <1>1, PartsGrow
<1>3. ASSUME NEW k \in 0..(m - 1), k \in S PROVE k + 1 \in S
  <2>1. t[k + 1] > 0 /\ k + 1 \in 0..m
    BY <1>1
  <2>2. /\ Parts(s, t, k) \in Seq(Int) /\ t[k + 1] \in Int
        /\ Parts(s, t, k + 1) = Append(Parts(s, t, k), t[k + 1])
    BY PartsGrow
  <2>3. Parts(Own(s), t, k + 1) = Append(Parts(Own(s), t, k), t[k + 1])
    BY PartsGrow
  <2>4. Own(Append(Parts(s, t, k), t[k + 1])) = Append(Own(Parts(s, t, k)), t[k + 1])
    BY <2>1, <2>2, OwnOfLonger
  <2> QED
    BY <1>3, <2>1, <2>2, <2>3, <2>4
<1>4. 0..m \subseteq S
  <2> HIDE DEF S, m
  <2> QED
    BY <1>1, <1>2, <1>3, Owning!Induction
<1>5. m \in S
  <2> HIDE DEF S
  <2> QED
    BY <1>1, <1>4
<1> QED
  BY <1>5, PartsGrow

(* Nothing of this tab's is logged after a position: all of it is before. *)
LEMMA OwnUpTo ==
  ASSUME NEW entries \in Seq(EntrySet), NEW n \in 0..Len(entries),
         \A k \in (n + 1)..Len(entries) :
           \A i \in 1..Len(entries[k].ops) : entries[k].ops[i] <= 0
  PROVE  Own(EditsAt(entries, Len(entries))) = Own(EditsAt(entries, n))
<1> DEFINE m == Len(entries)
           S == {k \in 0..m : n <= k => Own(EditsAt(entries, k)) = Own(EditsAt(entries, n))}
<1>1. m \in Nat
  OBVIOUS
<1>2. 0 \in S
  <2>1. n <= 0 => n = 0
    OBVIOUS
  <2> QED
    BY <1>1, <2>1
<1>3. ASSUME NEW k \in 0..(m - 1), k \in S PROVE k + 1 \in S
  <2>1. k \in 0..m /\ k + 1 \in 0..m /\ (n <= k + 1 => n <= k \/ n = k + 1)
    BY <1>1
  <2> SUFFICES ASSUME n <= k
               PROVE  Own(EditsAt(entries, k + 1)) = Own(EditsAt(entries, n))
    BY <2>1
  <2>2. k + 1 \in (n + 1)..m
    BY <1>1
  <2>3. entries[k + 1].ops \in Seq(Int)
        /\ \A i \in 1..Len(entries[k + 1].ops) : entries[k + 1].ops[i] <= 0
    <3>1. entries[k + 1] \in EntrySet
      BY <1>1
    <3>2. entries[k + 1].ops \in Seq(Int)
      BY <3>1 DEF EntrySet
    <3> QED
      BY <2>2, <3>2
  <2>4. EditsAt(entries, k + 1) = EditsAt(entries, k) \o entries[k + 1].ops
    BY EditsAtNext
  <2>5. EditsAt(entries, k) \in Seq(Int)
    BY <2>1, EditsGrow
  <2>6. Own(EditsAt(entries, k + 1)) = Own(EditsAt(entries, k))
    BY <2>3, <2>4, <2>5, OwnOfOthers
  <2> QED
    BY <1>3, <2>6
<1>4. 0..m \subseteq S
  <2> HIDE DEF S, m
  <2> QED
    BY <1>1, <1>2, <1>3, Owning!Induction
<1>5. m \in S
  <2> HIDE DEF S
  <2> QED
    BY <1>1, <1>4
<1> QED
  BY <1>5

-----------------------------------------------------------------------------
(***************************************************************************)
(* No handler forgets that the host was told to reload.                    *)
(***************************************************************************)
Keeps(e, u) == IsDoc(u) /\ u.reload = e.reload

(* Starting a submission or a catch-up does not forget it. *)
LEMMA LoopKeeps ==
  ASSUME NEW e, IsDoc(e)
  PROVE  Keeps(e, SubmitLoop(e)) /\ Keeps(e, SubmitSoon(e)) /\ Keeps(e, CatchUp(e))
BY DEF Keeps, IsDoc, SubmitLoop, SubmitSoon, CatchUp

(* Nor does the end of a catch-up. *)
LEMMA EndCatchUpKeeps ==
  ASSUME NEW e, IsDoc(e)
  PROVE  Keeps(e, EndCatchUp(e))
<1> DEFINE u == [e EXCEPT !.catch = Idle, !.resuming = FALSE]
           v == IF u.submit.phase \in {"catching", "booting"} THEN SubmitLoop(u) ELSE u
<1>1. Keeps(e, u)
  BY DEF IsDoc, Keeps
<1>2. EndCatchUp(e) \in {v, SubmitSoon(v)}
  BY DEF EndCatchUp
<1> HIDE DEF u
<1>3. Keeps(u, v)
  BY <1>1, LoopKeeps DEF Keeps
<1> HIDE DEF v
<1>4. Keeps(v, SubmitSoon(v))
  BY <1>3, LoopKeeps DEF Keeps
<1> QED
  BY <1>1, <1>2, <1>3, <1>4 DEF Keeps

(* Going on with held entries keeps text and position in step. *)
LEMMA GoOnKeeps ==
  ASSUME NEW e, NEW who, NEW todo, IsDoc(e)
  PROVE  Keeps(e, GoOn(e, who, todo))
<1> DEFINE next == e.applied + 1
           v == [e EXCEPT !.held = @ \ {next}]
<1>1. \A n, rest : Keeps(e, Start(e, who, n, rest)) /\ Keeps(v, Start(v, who, n, rest))
  BY DEF Keeps, IsDoc, Start
<1>2. Keeps(e, v)
  BY DEF Keeps, IsDoc
<1>3. Keeps(e, EndTask(e, who))
  BY LoopKeeps, EndCatchUpKeeps DEF EndTask, Keeps
<1>4. \/ \E n, rest : GoOn(e, who, todo) = Start(e, who, n, rest)
      \/ GoOn(e, who, todo) = Start(v, who, next, <<>>)
      \/ GoOn(e, who, todo) = EndTask(e, who)
  BY DEF GoOn
<1> HIDE DEF v
<1> QED
  BY <1>1, <1>2, <1>3, <1>4 DEF Keeps

(* So does receiving an entry. *)
LEMMA ReceiveKeeps ==
  ASSUME NEW e, NEW n, IsDoc(e)
  PROVE  Keeps(e, Receive(e, n))
<1> DEFINE v == [e EXCEPT !.held = @ \cup {n}]
<1>1. Keeps(e, v) /\ Keeps(e, Start(e, "live", n, <<>>)) /\ Keeps(e, e)
  BY DEF Keeps, IsDoc, Start
<1>2. Receive(e, n) \in {e, Start(e, "live", n, <<>>), CatchUp(v)}
  BY DEF Receive
<1> HIDE DEF v
<1>3. Keeps(v, CatchUp(v))
  BY <1>1, LoopKeeps DEF Keeps
<1> QED
  BY <1>1, <1>2, <1>3 DEF Keeps

(* What is lost, refused or shared stays noted, and a host is what it is. *)
LEMMA CopedBefore ==
  ASSUME IsDoc(doc), [DocNext]_dvars
  PROVE  IsDoc(doc') /\ (DocCoped' => DocCoped)
<1> SUFFICES ASSUME TRUE
             PROVE  /\ IsDoc(doc') /\ host' = host /\ mishaps \subseteq mishaps'
                    /\ doc.reload => doc'.reload
  BY DEF DocCoped
<1>1. CASE Type
  <2> DEFINE v == [doc EXCEPT !.made = @ + 1, !.pending = Append(@, doc.made + 1)]
  <2>1. Keeps(doc, v) /\ doc' = SubmitSoon(v) /\ host' = host /\ mishaps' = mishaps
    BY <1>1 DEF Type, Keeps, IsDoc
  <2> HIDE DEF v
  <2> QED
    BY <2>1, LoopKeeps DEF Keeps
<1>2. CASE DocOther
  BY <1>2 DEF DocOther, OtherSubmits, FileReplaced
<1>3. CASE DocEvent
  <2>1. /\ host' = host /\ mishaps' = mishaps
        /\ doc' = IF Head(feed) = 0 THEN [doc EXCEPT !.reload = TRUE]
                  ELSE Receive(doc, Head(feed))
    BY <1>3 DEF DocEvent, Arrive
  <2>2. IsDoc([doc EXCEPT !.reload = TRUE]) /\ [doc EXCEPT !.reload = TRUE].reload
    BY DEF IsDoc
  <2>3. Keeps(doc, Receive(doc, Head(feed)))
    BY ReceiveKeeps
  <2> QED
    BY <2>1, <2>2, <2>3 DEF Keeps
<1>4. ASSUME NEW task \in doc.tasks, Applied(task) PROVE /\ IsDoc(doc') /\ host' = host
             /\ mishaps \subseteq mishaps' /\ (doc.reload => doc'.reload)
  <2> DEFINE u == ApplyHook(doc, log[task.at])
             v == [u EXCEPT !.tasks = @ \ {task}, !.applied = Later(@, task.at)]
  <2>1. Keeps(doc, u)
    BY DEF Keeps, IsDoc, ApplyHook, Confirm
  <2>2. doc' = GoOn(v, task.who, task.todo) /\ host' = host /\ mishaps \subseteq mishaps'
    BY <1>4 DEF Applied, Quiet
  <2> HIDE DEF u
  <2>3. Keeps(u, v)
    BY <2>1 DEF Keeps, IsDoc
  <2> HIDE DEF v
  <2>4. Keeps(v, doc')
    BY <2>2, <2>3, GoOnKeeps DEF Keeps
  <2> QED
    BY <2>1, <2>2, <2>3, <2>4 DEF Keeps
<1>5. ASSUME NEW task \in doc.tasks, Refused(task) PROVE /\ IsDoc(doc') /\ host' = host
             /\ mishaps \subseteq mishaps' /\ (doc.reload => doc'.reload)
  <2> DEFINE v == [doc EXCEPT !.tasks = @ \ {task}, !.reload = TRUE]
  <2>1. doc' = GoOn(v, task.who, task.todo) /\ host' = host /\ mishaps' = mishaps
    BY <1>5 DEF Refused
  <2>2. IsDoc(v) /\ v.reload
    BY DEF IsDoc
  <2> HIDE DEF v
  <2>3. Keeps(v, doc')
    BY <2>1, <2>2, GoOnKeeps
  <2> QED
    BY <2>1, <2>2, <2>3 DEF Keeps
<1>6. ASSUME NEW r \in wire, DocServeSubmit(r) PROVE /\ IsDoc(doc') /\ host' = host
             /\ mishaps \subseteq mishaps' /\ (doc.reload => doc'.reload)
  BY <1>6 DEF DocServeSubmit, Serve, IsDoc
<1>7. CASE DocSubmitReturns
  <2> DEFINE v == [doc EXCEPT !.submit = [phase |-> "catching"]]
             w == [doc EXCEPT !.applied = Later(@, doc.submit.seq),
                              !.submit = [phase |-> "draining"]]
             x == Confirm(w, doc.submit.ops)
  <2>1. host' = host /\ mishaps' = mishaps /\ doc' \in {CatchUp(v), GoOn(x, "submit", <<>>)}
    BY <1>7 DEF DocSubmitReturns, Quiet, Acked
  <2>2. Keeps(doc, v) /\ Keeps(doc, w)
    BY DEF Keeps, IsDoc
  <2> HIDE DEF v, w
  <2>3. Keeps(w, x)
    BY <2>2 DEF Keeps, IsDoc, Confirm
  <2> HIDE DEF x
  <2>4. Keeps(v, CatchUp(v)) /\ Keeps(x, GoOn(x, "submit", <<>>))
    BY <2>2, <2>3, LoopKeeps, GoOnKeeps DEF Keeps
  <2> QED
    BY <2>1, <2>2, <2>3, <2>4 DEF Keeps
<1>8. CASE DocSubmitLost
  BY <1>8 DEF DocSubmitLost, Lose, IsDoc
<1>9. CASE DocServeCatchUp
  BY <1>9 DEF DocServeCatchUp, room, IsDoc
<1>10. CASE DocCatchUpReturns
  <2> DEFINE v == [doc EXCEPT !.reload = TRUE]
             w == [doc EXCEPT !.catch = [phase |-> "applying"]]
             todo == doc.catch.todo
  <2>1. host' = host /\ mishaps' = mishaps /\ doc' \in {EndCatchUp(v), GoOn(w, "catch", todo)}
    BY <1>10 DEF DocCatchUpReturns, Quiet
  <2>2. IsDoc(v) /\ v.reload /\ Keeps(doc, w)
    BY DEF IsDoc, Keeps
  <2> HIDE DEF v, w
  <2>3. Keeps(v, EndCatchUp(v)) /\ Keeps(w, GoOn(w, "catch", todo))
    BY <2>2, EndCatchUpKeeps, GoOnKeeps DEF Keeps
  <2> QED
    BY <2>1, <2>2, <2>3 DEF Keeps
<1>11. CASE DocCatchUpLost
  BY <1>11, EndCatchUpKeeps DEF DocCatchUpLost, Lose, Keeps
<1>12. CASE DocDrop
  BY <1>12 DEF DocDrop, Drop
<1>13. CASE DocReconnect
  <2> DEFINE v == [doc EXCEPT !.resuming = TRUE]
  <2>1. doc' = CatchUp(v) /\ host' = host /\ mishaps \subseteq mishaps'
    BY <1>13 DEF DocReconnect, Rejoin
  <2>2. Keeps(doc, v)
    BY DEF Keeps, IsDoc
  <2> HIDE DEF v
  <2> QED
    BY <2>1, <2>2, LoopKeeps DEF Keeps
<1>14. CASE UNCHANGED dvars
  BY <1>14 DEF dvars, room
<1> QED
  BY <1>1, <1>2, <1>3, <1>4, <1>5, <1>6, <1>7, <1>8, <1>9, <1>10, <1>11, <1>12, <1>13,
     <1>14 DEF DocNext

-----------------------------------------------------------------------------
(***************************************************************************)
(* What the engine's handlers keep.                                        *)
(***************************************************************************)
(* Nothing of a submission is awaited from the server. *)
Settled(e) == e.submit.phase \in {"idle", "booting", "catching", "draining"}

(* What a step of the loop may change. *)
Submits(e, u) ==
  /\ u.tasks = e.tasks
  /\ u.submit = e.submit \/ (Settled(e) /\ u.submit.phase \in {"idle", "asked"})

(* Apart from the submission and the catch-up, an engine stays as it is. *)
LEMMA CoreSame ==
  ASSUME NEW e, NEW u, NEW entries, Core(e, entries), IsDoc(u),
         u.applied = e.applied, u.seen = e.seen, u.pending = e.pending, u.made = e.made,
         u.held \in SUBSET (1..Len(entries)),
         CatchSound(u, entries), SubmissionSound(u, entries),
         u.submit = e.submit \/ Settled(e)
  PROVE  Core(u, entries)
<1>1. TypedSound(u)
  BY DEF Core, TypedSound, Done
<1>2. OwnApplied(u, entries)
  BY DEF Core, OwnApplied, Settled
<1> QED
  BY <1>1, <1>2 DEF Core

(* Sending the pending edits keeps the engine in order. *)
LEMMA SubmitLoopSound ==
  ASSUME NEW e, NEW entries, Core(e, entries), Settled(e)
  PROVE  Core(SubmitLoop(e), entries) /\ Submits(e, SubmitLoop(e))
<1> DEFINE u == SubmitLoop(e)
           sent == [phase |-> "asked", base |-> e.applied, ops |-> e.pending]
<1>1. /\ IsDoc(u) /\ u.applied = e.applied /\ u.seen = e.seen /\ u.pending = e.pending
      /\ u.made = e.made /\ u.held = e.held /\ u.catch = e.catch /\ u.tasks = e.tasks
      /\ u.submit = Idle \/ u.submit = sent
  BY DEF Core, IsDoc, SubmitLoop
<1>2. sent.phase = "asked" /\ sent.base = e.applied /\ sent.ops = e.pending
  OBVIOUS
<1> HIDE DEF u, sent
<1>3. e.pending \in Seq(Nat) /\ Leads(e.pending, e.pending)
  <2>1. e.pending \in Seq(Nat)
    BY DEF Core, TypedSound
  <2>2. \A s \in Seq(Nat) : s = SubSeq(s, 1, Len(s)) /\ Len(s) <= Len(s)
    OBVIOUS
  <2> QED
    BY <2>1, <2>2 DEF Leads
<1>4. e.applied \in 0..e.applied
  BY DEF Core
<1>5. SubmissionSound(u, entries)
  BY <1>1, <1>2, <1>3, <1>4 DEF SubmissionSound, Idle
<1>6. CatchSound(u, entries)
  BY <1>1 DEF Core, CatchSound
<1>7. Core(u, entries)
  BY <1>1, <1>5, <1>6, CoreSame DEF Core
<1> QED
  BY <1>1, <1>2, <1>7 DEF u, Submits, Idle

(* So does sending them unless a submission is under way. *)
LEMMA SubmitSoonSound ==
  ASSUME NEW e, NEW entries, Core(e, entries)
  PROVE  Core(SubmitSoon(e), entries) /\ Submits(e, SubmitSoon(e))
<1>1. CASE e.submit.phase # "idle"
  BY <1>1 DEF SubmitSoon, Submits
<1>2. CASE e.submit.phase = "idle"
  BY <1>2, SubmitLoopSound DEF SubmitSoon, Settled
<1> QED
  BY <1>1, <1>2

(* So does asking for a catch-up. *)
LEMMA CatchUpSound ==
  ASSUME NEW e, NEW entries, Core(e, entries)
  PROVE  /\ Core(CatchUp(e), entries)
         /\ CatchUp(e).tasks = e.tasks /\ CatchUp(e).submit = e.submit
<1> DEFINE u == CatchUp(e)
           call == [phase |-> "asked", from |-> e.applied]
<1>1. /\ IsDoc(u) /\ u.applied = e.applied /\ u.seen = e.seen /\ u.pending = e.pending
      /\ u.made = e.made /\ u.held = e.held /\ u.tasks = e.tasks /\ u.submit = e.submit
      /\ u.catch \in {e.catch, call}
  BY DEF Core, IsDoc, CatchUp
<1>2. call.phase = "asked" /\ call.from = e.applied
  OBVIOUS
<1> HIDE DEF u, call
<1>3. e.applied \in 0..e.applied
  BY DEF Core
<1>4. CatchSound(u, entries)
  BY <1>1, <1>2, <1>3 DEF Core, CatchSound
<1>5. SubmissionSound(u, entries)
  BY <1>1 DEF Core, SubmissionSound
<1> QED
  BY <1>1, <1>4, <1>5, CoreSame DEF Core, u

(* So does its end, whoever awaits it. *)
LEMMA EndCatchUpSound ==
  ASSUME NEW e, NEW entries, Core(e, entries)
  PROVE  Core(EndCatchUp(e), entries) /\ Submits(e, EndCatchUp(e))
<1> DEFINE u == [e EXCEPT !.catch = Idle, !.resuming = FALSE]
           v == IF u.submit.phase \in {"catching", "booting"} THEN SubmitLoop(u) ELSE u
<1>1. /\ IsDoc(u) /\ u.applied = e.applied /\ u.seen = e.seen /\ u.pending = e.pending
      /\ u.made = e.made /\ u.held = e.held /\ u.tasks = e.tasks /\ u.submit = e.submit
      /\ u.catch = Idle
  BY DEF Core, IsDoc
<1>2. EndCatchUp(e) \in {v, SubmitSoon(v)}
  BY DEF EndCatchUp
<1> HIDE DEF u
<1>3. CatchSound(u, entries) /\ SubmissionSound(u, entries)
  BY <1>1 DEF Core, CatchSound, SubmissionSound, Idle
<1>4. Core(u, entries)
  BY <1>1, <1>3, CoreSame DEF Core
<1>5. Core(v, entries) /\ Submits(u, v)
  BY <1>4, SubmitLoopSound DEF Submits, Settled
<1> HIDE DEF v
<1>6. Core(SubmitSoon(v), entries) /\ Submits(v, SubmitSoon(v))
  BY <1>5, SubmitSoonSound
<1> QED
  BY <1>1, <1>2, <1>5, <1>6 DEF Submits, Settled

(* An engine that has gone on from where it was sound. *)
Advances(e, u, entries) ==
  /\ Core(u, entries) /\ OneTask(u, entries)
  /\ u.submit = e.submit \/ (Settled(e) /\ u.submit.phase \in {"idle", "asked"})

(* The next entry, if there is one to apply, and else the end of the task. *)
LEMMA GoOnSound ==
  ASSUME NEW e, NEW entries, Core(e, entries), e.tasks = {},
         NEW todo, NEW from \in 0..e.applied, Follow(todo, from, entries),
         NEW who \in {"live", "catch", "submit"},
         who = "submit" => e.submit.phase = "draining"
  PROVE  Advances(e, GoOn(e, who, todo), entries)
<1> DEFINE news == {i \in 1..Len(todo) : todo[i] > e.applied}
           next == e.applied + 1
           u == GoOn(e, who, todo)
<1>1. /\ todo \in Seq(Nat) /\ Len(todo) \in Nat
      /\ \A i \in 1..Len(todo) : todo[i] = from + i /\ from + i <= Len(entries)
      /\ e.applied \in Nat /\ e.applied <= Len(entries)
  BY DEF Follow, Core
<1>2. CASE news # {}
  <2> DEFINE k == e.applied - from + 1
             rest == SubSeq(todo, k + 1, Len(todo))
             task == [who |-> who, at |-> next, todo |-> rest]
  <2>1. k \in 1..Len(todo) /\ k \in news /\ \A i \in news : k <= i
    <3>1. PICK i \in 1..Len(todo) : from + i > e.applied
      BY <1>1, <1>2
    <3>2. k \in 1..Len(todo) /\ from + k = next
      BY <1>1, <3>1, SMTT(30)
    <3>3. \A j \in 1..Len(todo) : from + j > e.applied => k <= j
      BY <1>1
    <3>4. todo[k] = next /\ next > e.applied
      BY <1>1, <3>2, SMTT(30)
    <3>5. k \in news
      BY <3>2, <3>4
    <3>6. ASSUME NEW j \in news PROVE k <= j
      <4>1. j \in 1..Len(todo) /\ from + j > e.applied
        BY <1>1
      <4> QED
        BY <3>3, <4>1
    <3> QED
      BY <3>2, <3>5, <3>6
  <2>2. Min(news) = k
    <3>1. \A i \in news : i \in Int
      OBVIOUS
    <3> HIDE DEF news
    <3>2. \A i \in news : (\A j \in news : i <= j) => i = k
      BY <2>1, <3>1
    <3> QED
      BY <2>1, <3>2 DEF Min
  <2>3. todo[k] = next /\ from + k = next /\ next <= Len(entries)
    BY <1>1, <2>1, SMTT(30)
  <2>4. u = Start(e, who, next, rest)
    BY <1>2, <2>2, <2>3 DEF GoOn
  <2>5. Follow(rest, next, entries)
    <3>a. ASSUME NEW t \in Seq(Nat), NEW j \in 1..Len(t)
          PROVE  /\ SubSeq(t, j + 1, Len(t)) \in Seq(Nat)
                 /\ Len(SubSeq(t, j + 1, Len(t))) = Len(t) - j
                 /\ \A i \in 1..(Len(t) - j) : /\ SubSeq(t, j + 1, Len(t))[i] = t[j + i]
                                              /\ j + i \in 1..Len(t)
      OBVIOUS
    <3>1. /\ rest \in Seq(Nat) /\ Len(rest) = Len(todo) - k
          /\ \A i \in 1..(Len(todo) - k) : rest[i] = todo[k + i] /\ k + i \in 1..Len(todo)
      <4> HIDE DEF k
      <4> QED
        BY <1>1, <2>1, <3>a
    <3>2. ASSUME NEW i \in 1..Len(rest)
          PROVE  rest[i] = next + i /\ next + i <= Len(entries)
      <4>1. k + i \in 1..Len(todo) /\ rest[i] = todo[k + i]
        BY <3>1
      <4>2. from + (k + i) = next + i
        BY <1>1, <2>1, <2>3
      <4> QED
        BY <1>1, <4>1, <4>2
    <3> QED
      BY <3>1, <3>2 DEF Follow
  <2> HIDE DEF u, rest
  <2>6. /\ IsDoc(u) /\ u.applied = e.applied /\ u.seen = e.seen /\ u.pending = e.pending
        /\ u.made = e.made /\ u.held = e.held /\ u.catch = e.catch /\ u.submit = e.submit
        /\ u.tasks = {task}
    BY <2>4 DEF Core, IsDoc, Start
  <2>7. CatchSound(u, entries) /\ SubmissionSound(u, entries)
    BY <2>6 DEF Core, CatchSound, SubmissionSound
  <2>8. Core(u, entries)
    BY <2>6, <2>7, CoreSame DEF Core
  <2>9. task.at = next /\ task.todo = rest /\ task.who = who
    OBVIOUS
  <2> HIDE DEF task
  <2>10. TaskSound(task, u, entries)
    BY <1>1, <2>3, <2>5, <2>6, <2>9 DEF TaskSound
  <2> QED
    BY <2>6, <2>8, <2>10 DEF u, OneTask, Advances
<1>3. CASE news = {} /\ next \in e.held
  <2> DEFINE v == [e EXCEPT !.held = @ \ {next}]
             task == [who |-> who, at |-> next, todo |-> <<>>]
  <2>1. u = Start(v, who, next, <<>>)
    BY <1>3 DEF GoOn
  <2>2. /\ IsDoc(v) /\ v.applied = e.applied /\ v.seen = e.seen /\ v.pending = e.pending
        /\ v.made = e.made /\ v.held = e.held \ {next} /\ v.catch = e.catch
        /\ v.submit = e.submit /\ v.tasks = {}
    BY DEF Core, IsDoc
  <2> HIDE DEF u, v
  <2>3. /\ IsDoc(u) /\ u.applied = e.applied /\ u.seen = e.seen /\ u.pending = e.pending
        /\ u.made = e.made /\ u.held = e.held \ {next} /\ u.catch = e.catch
        /\ u.submit = e.submit /\ u.tasks = {task}
    BY <2>1, <2>2 DEF IsDoc, Start
  <2>4. CatchSound(u, entries) /\ SubmissionSound(u, entries)
    BY <2>3 DEF Core, CatchSound, SubmissionSound
  <2>5. Core(u, entries)
    BY <2>3, <2>4, CoreSame DEF Core
  <2>6. task.at = next /\ task.todo = <<>> /\ task.who = who
    OBVIOUS
  <2> HIDE DEF task
  <2>7. Follow(<<>>, next, entries) /\ e.applied < Len(entries)
    BY <1>1, <1>3 DEF Core, Follow
  <2>8. TaskSound(task, u, entries)
    BY <2>3, <2>6, <2>7 DEF TaskSound
  <2> QED
    BY <2>3, <2>5, <2>8 DEF u, OneTask, Advances
<1>4. CASE news = {} /\ next \notin e.held
  <2>1. u = EndTask(e, who)
    BY <1>4 DEF GoOn
  <2>2. Core(EndTask(e, who), entries) /\ Submits(e, EndTask(e, who))
    BY EndCatchUpSound, SubmitLoopSound DEF EndTask, Submits, Settled
  <2> QED
    BY <2>1, <2>2 DEF Submits, OneTask, Advances
<1> QED
  BY <1>2, <1>3, <1>4

(* An entry arrives: passed over, applied next, or held while a catch-up asks. *)
LEMMA ReceiveSound ==
  ASSUME NEW e, NEW entries, Core(e, entries), e.tasks = {}, NEW n \in 1..Len(entries)
  PROVE  Advances(e, Receive(e, n), entries)
<1> DEFINE u == Receive(e, n)
<1>1. e.applied \in 0..Len(entries) /\ e.held \in SUBSET (1..Len(entries))
  BY DEF Core
<1>2. CASE n <= e.applied
  BY <1>2 DEF Receive, Advances, OneTask
<1>3. CASE n = e.applied + 1
  <2> DEFINE task == [who |-> "live", at |-> n, todo |-> <<>>]
  <2>1. ~(n <= e.applied)
    BY <1>1, <1>3
  <2>2. u = Start(e, "live", n, <<>>)
    BY <1>3, <2>1 DEF Receive
  <2> HIDE DEF u
  <2>3. /\ IsDoc(u) /\ u.applied = e.applied /\ u.seen = e.seen /\ u.pending = e.pending
        /\ u.made = e.made /\ u.held = e.held /\ u.catch = e.catch
        /\ u.submit = e.submit /\ u.tasks = {task}
    BY <2>2 DEF Core, IsDoc, Start
  <2>4. CatchSound(u, entries) /\ SubmissionSound(u, entries)
    BY <2>3 DEF Core, CatchSound, SubmissionSound
  <2>5. Core(u, entries)
    BY <2>3, <2>4, CoreSame DEF Core
  <2>6. task.at = n /\ task.todo = <<>> /\ task.who = "live"
    OBVIOUS
  <2> HIDE DEF task
  <2>7. Follow(<<>>, n, entries) /\ e.applied < Len(entries)
    BY <1>1, <1>3 DEF Follow
  <2>8. TaskSound(task, u, entries)
    BY <1>3, <2>3, <2>6, <2>7 DEF TaskSound
  <2> QED
    BY <2>3, <2>5, <2>8 DEF u, OneTask, Advances
<1>4. CASE ~(n <= e.applied) /\ n # e.applied + 1
  <2> DEFINE v == [e EXCEPT !.held = @ \cup {n}]
  <2>1. u = CatchUp(v)
    BY <1>4 DEF Receive
  <2>2. /\ IsDoc(v) /\ v.applied = e.applied /\ v.seen = e.seen /\ v.pending = e.pending
        /\ v.made = e.made /\ v.held = e.held \cup {n} /\ v.catch = e.catch
        /\ v.submit = e.submit /\ v.tasks = {}
    BY DEF Core, IsDoc
  <2> HIDE DEF v, u
  <2>3. CatchSound(v, entries) /\ SubmissionSound(v, entries)
    BY <2>2 DEF Core, CatchSound, SubmissionSound
  <2>4. Core(v, entries)
    BY <1>1, <2>2, <2>3, CoreSame DEF Core
  <2>5. Core(u, entries) /\ u.tasks = {} /\ u.submit = e.submit
    BY <2>1, <2>2, <2>4, CatchUpSound
  <2> QED
    BY <2>5 DEF u, OneTask, Advances
<1> QED
  BY <1>2, <1>3, <1>4

(* Another editor's next entry is taken in. *)
LEMMA TakenInSound ==
  ASSUME NEW e, NEW u, NEW entries \in Seq(EntrySet), Core(e, entries), IsDoc(u),
         e.applied < Len(entries), entries[e.applied + 1].client = 0,
         u.applied = e.applied + 1, u.seen = e.seen \o entries[e.applied + 1].ops,
         u.pending = e.pending, u.made = e.made, u.held = e.held,
         u.catch = e.catch, u.submit = e.submit
  PROVE  Core(u, entries)
<1> DEFINE next == e.applied + 1
           ops == entries[next].ops
<1>1. e.applied \in 0..(Len(entries) - 1) /\ next \in 1..Len(entries)
  BY DEF Core
<1>2. u.seen = EditsAt(entries, next) /\ e.seen \in Seq(Int)
  <2>1. EditsAt(entries, next) = EditsAt(entries, e.applied) \o ops
    BY <1>1, EditsAtNext
  <2>2. EditsAt(entries, e.applied) \in Seq(Int)
    BY <1>1, EditsGrow
  <2> QED
    BY <2>1, <2>2 DEF Core
<1>3. Own(u.seen) = Own(e.seen)
  <2>1. ops \in Seq(Int)
    <3>1. entries[next] \in EntrySet
      BY <1>1
    <3> QED
      BY <3>1 DEF EntrySet
  <2>2. \A i \in 1..Len(ops) : ops[i] <= 0
    BY <1>1 DEF Core, OwnApplied
  <2> QED
    BY <1>2, <2>1, <2>2, OwnOfOthers
<1>4. TypedSound(u)
  BY <1>3 DEF Core, TypedSound, Done
<1>5. 0..e.applied \subseteq 0..u.applied
  BY <1>1
<1>6. CatchSound(u, entries)
  BY <1>5 DEF Core, CatchSound
<1>7. ~(e.submit.phase = "answered" /\ e.submit.seq = next)
  <2>1. next # 0
    BY <1>1
  <2> QED
    BY <2>1 DEF Core, SubmissionSound
<1>8. SubmissionSound(u, entries)
  <2>1. e.submit.phase = "answered" => e.submit.seq = 0
    BY <1>7 DEF Core, SubmissionSound
  <2> QED
    BY <1>5, <2>1 DEF Core, SubmissionSound
<1>9. OwnApplied(u, entries)
  <2> SUFFICES ASSUME NEW k \in 1..Len(entries), entries[k].client # 0
               PROVE  k <= u.applied
    BY DEF Core, OwnApplied
  <2>1. k <= e.applied \/ (e.submit.phase = "answered" /\ e.submit.seq = k)
    BY DEF Core, OwnApplied
  <2>2. e.submit.phase = "answered" /\ e.submit.seq = k => k = next
    BY DEF Core, SubmissionSound
  <2>3. k <= e.applied
    BY <1>7, <2>1, <2>2
  <2> QED
    BY <1>1, <2>3
<1> QED
  BY <1>1, <1>2, <1>4, <1>6, <1>8, <1>9 DEF Core

(* An acknowledged submission is confirmed, and what was typed since is pending. *)
LEMMA AckedSound ==
  ASSUME NEW e, NEW u, NEW entries \in Seq(EntrySet), Core(e, entries), IsDoc(u),
         e.submit.phase = "answered", e.submit.seq # 0,
         u.applied = e.submit.seq, u.seen = e.seen \o e.submit.ops,
         u.pending = SubSeq(e.pending, Len(e.submit.ops) + 1, Len(e.pending)),
         u.made = e.made, u.held = e.held, u.catch = e.catch,
         u.submit = [phase |-> "draining"]
  PROVE  Core(u, entries)
<1> DEFINE next == e.applied + 1
           ops == e.submit.ops
           d == Done(e)
<1>1. /\ e.submit.seq = next /\ entries[next].ops = ops /\ e.applied < Len(entries)
      /\ e.applied \in 0..(Len(entries) - 1) /\ next \in 1..Len(entries)
  BY DEF Core, SubmissionSound
<1>2. u.seen = EditsAt(entries, next) /\ e.seen \in Seq(Int)
  <2>1. EditsAt(entries, next) = EditsAt(entries, e.applied) \o ops
    BY <1>1, EditsAtNext
  <2>2. EditsAt(entries, e.applied) \in Seq(Int)
    BY <1>1, EditsGrow
  <2> QED
    BY <2>1, <2>2 DEF Core
<1>3. TypedSound(u)
  <2>1. /\ ops \in Seq(Nat) /\ ops = SubSeq(e.pending, 1, Len(ops))
        /\ Len(ops) <= Len(e.pending) /\ Len(ops) \in Nat
    BY DEF Core, SubmissionSound, Leads
  <2>2. /\ e.made \in Nat /\ e.pending \in Seq(Nat) /\ Len(e.pending) <= e.made
        /\ Len(e.pending) \in Nat /\ d = e.made - Len(e.pending)
        /\ \A i \in 1..Len(e.pending) : e.pending[i] = d + i
        /\ Own(e.seen) = [i \in 1..d |-> i]
    BY DEF Core, TypedSound, Done
  <2> HIDE DEF d, ops
  <2>3. d \in Nat
    BY <2>2
  <2>4. \A i \in 1..Len(ops) : ops[i] = d + i /\ ops[i] > 0
    <3>1. \A s \in Seq(Nat), n \in Nat : n <= Len(s) =>
            \A i \in 1..n : SubSeq(s, 1, n)[i] = s[i] /\ i \in 1..Len(s)
      OBVIOUS
    <3>2. \A i \in 1..Len(ops) : ops[i] = e.pending[i] /\ i \in 1..Len(e.pending)
      BY <2>1, <2>2, <3>1
    <3> QED
      BY <2>2, <2>3, <3>2
  <2>5. Own(u.seen) = [i \in 1..d |-> i] \o ops
    <3>1. \A s \in Seq(Nat) : s \in Seq(Int)
      OBVIOUS
    <3>2. [i \in 1..d |-> i] \in Seq(Int)
      BY <2>3
    <3>3. ops \in Seq(Int) /\ Own(e.seen) \in Seq(Int) /\ \A i \in 1..Len(ops) : ops[i] > 0
      BY <2>1, <2>2, <2>4, <3>1, <3>2
    <3>4. Own(e.seen \o ops) = Own(e.seen) \o ops
      BY <1>2, <3>3, OwnOfOwn
    <3>5. u.seen = e.seen \o ops
      BY DEF ops
    <3> QED
      BY <2>2, <3>4, <3>5
  <2>6. [i \in 1..d |-> i] \o ops = [i \in 1..(d + Len(ops)) |-> i]
    <3> DEFINE first == [i \in 1..d |-> i]
               n == Len(ops)
               joined == first \o ops
    <3>1. first \in Seq(Nat) /\ Len(first) = d /\ n \in Nat
      BY <2>1, <2>3
    <3>2. \A i \in 1..d : first[i] = i
      OBVIOUS
    <3>3. \A s, t \in Seq(Nat) :
            /\ s \o t \in Seq(Nat) /\ Len(s \o t) = Len(s) + Len(t)
            /\ \A i \in 1..(Len(s) + Len(t)) :
                 (s \o t)[i] = IF i <= Len(s) THEN s[i] ELSE t[i - Len(s)]
      OBVIOUS
    <3> HIDE DEF first
    <3>4. /\ joined \in Seq(Nat) /\ Len(joined) = d + n
          /\ \A i \in 1..(d + n) :
               joined[i] = IF i <= d THEN first[i] ELSE ops[i - d]
      BY <2>1, <3>1, <3>3
    <3> HIDE DEF joined
    <3>5. \A i \in 1..n : ops[i] = d + i
      BY <2>4
    <3> HIDE DEF n
    <3>6. ASSUME NEW i \in 1..(d + n) PROVE joined[i] = i
      <4>1. i <= d => i \in 1..d
        BY <2>3, <3>1
      <4>2. i > d => i - d \in 1..n /\ d + (i - d) = i
        BY <2>3, <3>1
      <4>3. i <= d \/ i > d
        BY <2>3, <3>1
      <4> QED
        BY <3>2, <3>4, <3>5, <4>1, <4>2, <4>3
    <3>7. joined = [i \in 1..(d + n) |-> i]
      BY <3>4, <3>6
    <3> QED
      BY <3>7 DEF joined, first, n
  <2>7. /\ u.pending \in Seq(Nat) /\ Len(u.pending) = Len(e.pending) - Len(ops)
        /\ \A i \in 1..Len(u.pending) : u.pending[i] = e.pending[Len(ops) + i]
                                        /\ Len(ops) + i \in 1..Len(e.pending)
    <3>1. \A t \in Seq(Nat), j \in Nat : j <= Len(t) =>
            /\ SubSeq(t, j + 1, Len(t)) \in Seq(Nat)
            /\ Len(SubSeq(t, j + 1, Len(t))) = Len(t) - j
            /\ \A i \in 1..(Len(t) - j) : /\ SubSeq(t, j + 1, Len(t))[i] = t[j + i]
                                          /\ j + i \in 1..Len(t)
      BY SMTT(30)
    <3>2. u.pending = SubSeq(e.pending, Len(ops) + 1, Len(e.pending))
      BY DEF ops
    <3>3. /\ SubSeq(e.pending, Len(ops) + 1, Len(e.pending)) \in Seq(Nat)
          /\ Len(SubSeq(e.pending, Len(ops) + 1, Len(e.pending))) = Len(e.pending) - Len(ops)
          /\ \A i \in 1..(Len(e.pending) - Len(ops)) :
               /\ SubSeq(e.pending, Len(ops) + 1, Len(e.pending))[i] = e.pending[Len(ops) + i]
               /\ Len(ops) + i \in 1..Len(e.pending)
      BY <2>1, <2>2, <3>1, Zenon
    <3> QED
      BY <3>2, <3>3
  <2>8. \A m, p, o, q \in Nat : q = p - o => m - q = (m - p) + o /\ (p <= m => q <= m)
    OBVIOUS
  <2>9. Len(u.pending) \in Nat /\ u.made = e.made
    BY <2>7
  <2>10. Done(u) = d + Len(ops) /\ Len(u.pending) <= u.made
    <3>1. /\ e.made \in Nat /\ Len(e.pending) \in Nat /\ Len(ops) \in Nat
          /\ Len(u.pending) \in Nat /\ Len(u.pending) = Len(e.pending) - Len(ops)
          /\ Len(e.pending) <= e.made
      BY <2>1, <2>2, <2>7, <2>9
    <3>2. /\ e.made - Len(u.pending) = (e.made - Len(e.pending)) + Len(ops)
          /\ Len(u.pending) <= e.made
      <4> DEFINE p == Len(e.pending)
                 q == Len(u.pending)
                 o == Len(ops)
                 m == e.made
      <4>1. m \in Nat /\ p \in Nat /\ o \in Nat /\ q \in Nat /\ q = p - o /\ p <= m
        BY <3>1
      <4> HIDE DEF p, q, o, m
      <4>2. m - q = (m - p) + o /\ q <= m
        BY <2>8, <4>1
      <4> QED
        BY <4>2 DEF p, q, o, m
    <3>3. Done(u) = e.made - Len(u.pending)
      BY <2>9, Zenon DEF Done
    <3> QED
      BY <2>2, <2>9, <3>2, <3>3, Zenon
  <2>11. \A i \in 1..Len(u.pending) : u.pending[i] = d + Len(ops) + i
    <3> TAKE i \in 1..Len(u.pending)
    <3>1. u.pending[i] = d + (Len(ops) + i)
      BY <2>2, <2>7
    <3> QED
      BY <2>1, <2>3, <3>1
  <2> QED
    BY <2>2, <2>5, <2>6, <2>7, <2>10, <2>11 DEF TypedSound
<1>4. 0..e.applied \subseteq 0..u.applied
  BY <1>1
<1>5. CatchSound(u, entries)
  BY <1>4 DEF Core, CatchSound
<1>6. SubmissionSound(u, entries)
  BY DEF SubmissionSound
<1>7. OwnApplied(u, entries)
  <2> SUFFICES ASSUME NEW k \in 1..Len(entries), entries[k].client # 0
               PROVE  k <= u.applied
    BY DEF Core, OwnApplied
  <2>1. k <= e.applied \/ e.submit.seq = k
    BY DEF Core, OwnApplied
  <2> QED
    BY <1>1, <2>1
<1> QED
  BY <1>1, <1>2, <1>3, <1>5, <1>6, <1>7 DEF Core

(* The log grows by another editor's entry, or by the submission taken. *)
LEMMA LongerLogSound ==
  ASSUME NEW e, NEW u, NEW entries \in Seq(EntrySet), NEW x \in EntrySet,
         Core(e, entries), IsDoc(u),
         u.applied = e.applied, u.seen = e.seen, u.pending = e.pending,
         u.made = e.made, u.held = e.held, u.catch = e.catch,
         SubmissionSound(u, Append(entries, x)),
         \/ /\ x.client = 0 /\ u.submit = e.submit
            /\ \A i \in 1..Len(x.ops) : x.ops[i] <= 0
         \/ /\ x.client # 0 /\ e.submit.phase = "asked"
            /\ u.submit.phase = "answered" /\ u.submit.seq = Len(entries) + 1
  PROVE  Core(u, Append(entries, x))
<1> DEFINE longer == Append(entries, x)
           m == Len(entries)
<1>1. /\ longer \in Seq(EntrySet) /\ Len(longer) = m + 1 /\ m \in Nat /\ longer[m + 1] = x
      /\ \A k \in 1..m : longer[k] = entries[k]
  OBVIOUS
<1>2. EditsAt(longer, e.applied) = EditsAt(entries, e.applied)
  BY EditsAtLonger DEF Core
<1> HIDE DEF longer
<1>3. u.applied \in 0..Len(longer) /\ u.held \in SUBSET (1..Len(longer))
  BY <1>1 DEF Core
<1>4. TypedSound(u)
  BY DEF Core, TypedSound, Done
<1>5. CatchSound(u, longer)
  <2>1. \A todo, from : Follow(todo, from, entries) /\ from \in Nat => Follow(todo, from, longer)
    BY <1>1, SMTT(30) DEF Follow
  <2>2. 0..e.applied \subseteq Nat
    OBVIOUS
  <2> QED
    BY <2>1, <2>2 DEF Core, CatchSound
<1>6. OwnApplied(u, longer)
  <2> SUFFICES ASSUME NEW k \in 1..Len(longer)
               PROVE  /\ longer[k].client = 0 =>
                           \A i \in 1..Len(longer[k].ops) : longer[k].ops[i] <= 0
                      /\ longer[k].client # 0 =>
                           k <= u.applied \/ (u.submit.phase = "answered" /\ u.submit.seq = k)
    BY DEF OwnApplied
  <2>1. k \in 1..m \/ k = m + 1
    BY <1>1
  <2>2. CASE k \in 1..m
    <3>1. longer[k] = entries[k]
      BY <1>1, <2>2
    <3> QED
      BY <2>2, <3>1 DEF Core, OwnApplied
  <2>3. CASE k = m + 1
    BY <1>1, <2>3
  <2> QED
    BY <2>1, <2>2, <2>3
<1> QED
  BY <1>2, <1>3, <1>4, <1>5, <1>6 DEF Core, longer

(* A submission stays sound while others are logged. *)
LEMMA SubmissionOutlives ==
  ASSUME NEW e, NEW entries \in Seq(EntrySet), NEW x \in EntrySet, Core(e, entries)
  PROVE  SubmissionSound(e, Append(entries, x))
<1> DEFINE longer == Append(entries, x)
<1>1. Len(longer) = Len(entries) + 1 /\ Len(entries) \in Nat
      /\ \A k \in 1..Len(entries) : longer[k] = entries[k]
  OBVIOUS
<1> HIDE DEF longer
<1>2. e.applied \in 0..Len(entries) /\ SubmissionSound(e, entries)
  BY DEF Core
<1>3. e.submit.phase = "answered" /\ e.submit.seq # 0 =>
        /\ e.submit.seq = e.applied + 1 /\ e.applied < Len(longer)
        /\ longer[e.submit.seq].ops = e.submit.ops
        /\ longer[e.submit.seq].client # 0
  <2> SUFFICES ASSUME e.submit.phase = "answered", e.submit.seq # 0
               PROVE  /\ e.submit.seq = e.applied + 1 /\ e.applied < Len(longer)
                      /\ longer[e.submit.seq].ops = e.submit.ops
                      /\ longer[e.submit.seq].client # 0
    OBVIOUS
  <2>1. /\ e.submit.seq = e.applied + 1 /\ e.applied < Len(entries)
        /\ entries[e.submit.seq].ops = e.submit.ops
        /\ entries[e.submit.seq].client # 0
    BY <1>2 DEF SubmissionSound
  <2>2. e.submit.seq \in 1..Len(entries) /\ e.applied < Len(longer)
    BY <1>1, <1>2, <2>1
  <2> QED
    BY <1>1, <2>1, <2>2
<1> QED
  BY <1>2, <1>3 DEF SubmissionSound, longer

(* What an engine sends is the only submission there is. *)
LEMMA SentFits ==
  ASSUME NEW u, WireFits(wire, doc), ident \in Nat \ {0},
         u.submit = doc.submit \/ doc.submit.phase # "asked"
  PROVE  WireFits(wire \cup Sent(u), u)
<1> DEFINE r == [base |-> u.submit.base, ops |-> u.submit.ops, client |-> ident]
<1>1. r.base = u.submit.base /\ r.ops = u.submit.ops /\ r.client = ident
  OBVIOUS
<1> HIDE DEF r
<1>2. CASE u.submit = doc.submit
  <2>1. Sent(u) = {}
    BY <1>2 DEF Sent
  <2>2. wire \cup Sent(u) = wire
    BY <2>1
  <2> QED
    BY <1>2, <2>2 DEF WireFits
<1>3. CASE u.submit # doc.submit
  <2>1. wire = {}
    BY <1>3 DEF WireFits
  <2>2. Sent(u) = IF u.submit.phase = "asked" THEN {r} ELSE {}
    BY <1>3 DEF Sent, r
  <2> QED
    BY <1>1, <2>1, <2>2 DEF WireFits
<1> QED
  BY <1>2, <1>3

-----------------------------------------------------------------------------
(***************************************************************************)
(* The actions.                                                            *)
(***************************************************************************)
(* With a host that applies at once nothing else happens while an entry is applied. *)
LEMMA NothingMeanwhile ==
  ASSUME DocCoped, Free
  PROVE  doc.tasks = {}
BY DEF DocCoped, Free

(* A step of the engine alone keeps all of it sound. *)
LEMMA EngineStep ==
  ASSUME Sound, NEW e, e.submit = doc.submit \/ (doc.submit.phase # "asked"),
         Advances(e, doc', log), log' = log, ident' = ident, feed' \in Seq(0..Len(log)),
         wire' = wire \cup Sent(doc')
  PROVE  Sound'
<1>1. /\ RoomSound /\ WireFits(wire, doc) /\ ident \in Nat \ {0}
  BY DEF Sound, RoomSound
<1>2. doc'.submit = doc.submit \/ doc.submit.phase # "asked"
  BY DEF Advances, Settled
<1>3. WireFits(wire', doc')
  BY <1>1, <1>2, SentFits
<1>4. RoomSound'
  BY <1>1 DEF RoomSound
<1>5. Core(doc, log)' /\ OneTask(doc, log)'
  BY DEF Advances
<1> QED
  BY <1>3, <1>4, <1>5 DEF Sound

(* Typing. *)
LEMMA TypeSound ==
  ASSUME Sound, DocCoped, Type
  PROVE  Sound'
<1> DEFINE v == [doc EXCEPT !.made = @ + 1, !.pending = Append(@, doc.made + 1)]
<1>1. /\ Free /\ doc' = SubmitSoon(v) /\ wire' = wire \cup Sent(doc')
      /\ log' = log /\ ident' = ident /\ feed' = feed
  BY DEF Type
<1>2. Core(doc, log) /\ doc.tasks = {} /\ feed \in Seq(0..Len(log))
  BY <1>1, NothingMeanwhile DEF Sound, RoomSound
<1>3. /\ IsDoc(v) /\ v.applied = doc.applied /\ v.seen = doc.seen
      /\ v.pending = Append(doc.pending, doc.made + 1) /\ v.made = doc.made + 1
      /\ v.held = doc.held /\ v.catch = doc.catch /\ v.submit = doc.submit
      /\ v.tasks = doc.tasks
  BY <1>2 DEF Core, IsDoc
<1> HIDE DEF v
<1>4. /\ doc.made \in Nat /\ doc.pending \in Seq(Nat) /\ Len(doc.pending) \in Nat
      /\ Len(doc.pending) <= doc.made
      /\ \A i \in 1..Len(doc.pending) : doc.pending[i] = (doc.made - Len(doc.pending)) + i
      /\ Own(doc.seen) = [i \in 1..(doc.made - Len(doc.pending)) |-> i]
  BY <1>2 DEF Core, TypedSound, Done
<1>5. \A s \in Seq(Nat), n \in Nat :
        /\ Append(s, n) \in Seq(Nat) /\ Len(Append(s, n)) = Len(s) + 1
        /\ Append(s, n)[Len(s) + 1] = n
        /\ \A i \in 1..Len(s) : Append(s, n)[i] = s[i]
  OBVIOUS
<1>6. /\ v.pending \in Seq(Nat) /\ Len(v.pending) = Len(doc.pending) + 1
      /\ v.pending[Len(doc.pending) + 1] = doc.made + 1
      /\ \A i \in 1..Len(doc.pending) : v.pending[i] = doc.pending[i]
  BY <1>3, <1>4, <1>5
<1>7. v.made - Len(v.pending) = doc.made - Len(doc.pending)
  <2>1. \A m, p \in Nat : (m + 1) - (p + 1) = m - p
    OBVIOUS
  <2> QED
    BY <1>3, <1>4, <1>6, <2>1
<1>8. TypedSound(v)
  <2>1. \A m, p \in Nat : (m - p) + (p + 1) = m + 1 /\ (p <= m => p + 1 <= m + 1)
    OBVIOUS
  <2>2. ASSUME NEW i \in 1..Len(v.pending)
        PROVE  v.pending[i] = (doc.made - Len(doc.pending)) + i
    <3>1. i \in 1..Len(doc.pending) \/ i = Len(doc.pending) + 1
      BY <1>4, <1>6
    <3>2. doc.made + 1 = (doc.made - Len(doc.pending)) + (Len(doc.pending) + 1)
      BY <1>4, <2>1
    <3> QED
      BY <1>4, <1>6, <3>1, <3>2
  <2>3. Len(v.pending) <= v.made /\ v.made \in Nat
    BY <1>3, <1>4, <1>6, <2>1
  <2> QED
    BY <1>3, <1>4, <1>6, <1>7, <2>2, <2>3 DEF TypedSound, Done
<1>9. SubmissionSound(v, log)
  <2>1. \A s, t \in Seq(Nat), n \in Nat :
          t = SubSeq(s, 1, Len(t)) /\ Len(t) <= Len(s) =>
            t = SubSeq(Append(s, n), 1, Len(t)) /\ Len(t) <= Len(Append(s, n))
    <3> TAKE s, t \in Seq(Nat), n \in Nat
    <3> HAVE t = SubSeq(s, 1, Len(t)) /\ Len(t) <= Len(s)
    <3>1. SubSeq(Append(s, n), 1, Len(t)) = SubSeq(s, 1, Len(t))
      OBVIOUS
    <3> QED
      BY <3>1
  <2>2. doc.submit.phase \in {"asked", "answered"} =>
          doc.submit.ops \in Seq(Nat) /\ Leads(doc.submit.ops, v.pending)
    <3> SUFFICES ASSUME doc.submit.phase \in {"asked", "answered"}
                 PROVE  doc.submit.ops \in Seq(Nat) /\ Leads(doc.submit.ops, v.pending)
      OBVIOUS
    <3>1. /\ doc.submit.ops \in Seq(Nat)
          /\ doc.submit.ops = SubSeq(doc.pending, 1, Len(doc.submit.ops))
          /\ Len(doc.submit.ops) <= Len(doc.pending)
      BY <1>2 DEF Core, SubmissionSound, Leads
    <3>2. doc.made + 1 \in Nat
      BY <1>4
    <3>3. /\ doc.submit.ops = SubSeq(Append(doc.pending, doc.made + 1), 1, Len(doc.submit.ops))
          /\ Len(doc.submit.ops) <= Len(Append(doc.pending, doc.made + 1))
      BY <1>4, <2>1, <3>1, <3>2, Zenon
    <3> QED
      BY <1>3, <3>1, <3>3, Zenon DEF Leads
  <2> QED
    BY <1>2, <1>3, <2>2 DEF Core, SubmissionSound
<1>10. Core(v, log)
  <2>1. CatchSound(v, log) /\ OwnApplied(v, log)
    BY <1>2, <1>3 DEF Core, CatchSound, OwnApplied
  <2> QED
    BY <1>2, <1>3, <1>8, <1>9, <2>1 DEF Core
<1>11. Advances(v, doc', log)
  BY <1>1, <1>2, <1>3, <1>10, SubmitSoonSound DEF Advances, Submits, OneTask
<1> QED
  BY <1>1, <1>2, <1>3, <1>11, EngineStep

(* Another editor submits, or replaces the file. *)
LEMMA OtherSound ==
  ASSUME Sound, DocCoped, DocOther
  PROVE  Sound'
<1> DEFINE ops == <<-(Len(log) + 1)>>
           x == Entry(0, ops)
<1>1. /\ Free /\ doc' = doc /\ log' = Append(log, x) /\ wire' = wire /\ ident' = ident
      /\ feed' \in {feed, Append(feed, Len(log) + 1), Append(feed, 0)}
  BY DEF DocOther, OtherSubmits, FileReplaced, Notify
<1>2. /\ log \in Seq(EntrySet) /\ Len(log) \in Nat /\ feed \in Seq(0..Len(log))
      /\ Core(doc, log) /\ doc.tasks = {} /\ WireFits(wire, doc) /\ ident \in Nat \ {0}
  BY <1>1, NothingMeanwhile DEF Sound, RoomSound
<1>3. x \in EntrySet /\ x.client = 0 /\ \A i \in 1..Len(x.ops) : x.ops[i] <= 0
  <2>1. ops \in Seq(Int) /\ \A i \in 1..Len(ops) : ops[i] <= 0
    BY <1>2
  <2> HIDE DEF ops
  <2> QED
    BY <2>1 DEF Entry, EntrySet
<1> HIDE DEF x
<1>4. SubmissionSound(doc, Append(log, x))
  BY <1>2, <1>3, SubmissionOutlives
<1>5. Core(doc', log')
  BY <1>1, <1>2, <1>3, <1>4, LongerLogSound DEF Core
<1>6. log' \in Seq(EntrySet) /\ feed' \in Seq(0..Len(log'))
  <2>1. log' \in Seq(EntrySet) /\ Len(log') = Len(log) + 1
    BY <1>1, <1>2, <1>3
  <2>2. \A f \in Seq(0..Len(log)), n \in 0..(Len(log) + 1) :
          f \in Seq(0..(Len(log) + 1)) /\ Append(f, n) \in Seq(0..(Len(log) + 1))
    BY <1>2
  <2>3. 0 \in 0..(Len(log) + 1) /\ Len(log) + 1 \in 0..(Len(log) + 1)
    BY <1>2
  <2> QED
    BY <1>1, <1>2, <2>1, <2>2, <2>3
<1>7. WireFits(wire', doc') /\ OneTask(doc', log')
  BY <1>1, <1>2 DEF OneTask
<1> QED
  BY <1>1, <1>2, <1>5, <1>6, <1>7 DEF Sound, RoomSound

(* An event arrives. *)
LEMMA EventSound ==
  ASSUME Sound, DocCoped, DocCoped', DocEvent
  PROVE  Sound'
<1>1. /\ Free /\ feed # <<>> /\ log' = log /\ ident' = ident /\ feed' = Tail(feed)
      /\ wire' = wire \cup Sent(doc')
      /\ doc' = IF Head(feed) = 0 THEN [doc EXCEPT !.reload = TRUE]
                ELSE Receive(doc, Head(feed))
  BY DEF DocEvent, Arrive
<1>2. /\ log \in Seq(EntrySet) /\ Len(log) \in Nat /\ feed \in Seq(0..Len(log))
      /\ Core(doc, log) /\ doc.tasks = {}
  BY <1>1, NothingMeanwhile DEF Sound, RoomSound
<1>3. Head(feed) # 0
  <2>1. ~doc'.reload
    BY DEF DocCoped
  <2>2. [doc EXCEPT !.reload = TRUE].reload
    BY <1>2 DEF Core, IsDoc
  <2> QED
    BY <1>1, <2>1, <2>2
<1>4. Head(feed) \in 1..Len(log) /\ feed' \in Seq(0..Len(log))
  BY <1>1, <1>2, <1>3
<1>5. Advances(doc, doc', log)
  BY <1>1, <1>2, <1>3, <1>4, ReceiveSound
<1> QED
  BY <1>1, <1>4, <1>5, EngineStep

(* An entry has been applied. *)
LEMMA AppliedSound ==
  ASSUME Sound, DocCoped', NEW task \in doc.tasks, Applied(task)
  PROVE  Sound'
<1> DEFINE u == ApplyHook(doc, log[task.at])
           v == [u EXCEPT !.tasks = @ \ {task}, !.applied = Later(@, task.at)]
<1>1. /\ doc' = GoOn(v, task.who, task.todo)
      /\ wire' = wire \cup Sent(doc') /\ log' = log /\ ident' = ident /\ feed' = feed
      /\ mishaps' = mishaps \cup (IF log[task.at].client # 0 THEN {"own entry returned"}
                                  ELSE {})
  BY DEF Applied, Quiet
<1>2. /\ log \in Seq(EntrySet) /\ Len(log) \in Nat /\ feed \in Seq(0..Len(log))
      /\ Core(doc, log) /\ OneTask(doc, log) /\ ident \in Nat \ {0}
  BY DEF Sound, RoomSound
<1>3. log[task.at].client = 0
  <2>1. mishaps' = {}
    BY DEF DocCoped
  <2>2. \A x : mishaps \cup {x} # {}
    OBVIOUS
  <2> QED
    BY <1>1, <2>1, <2>2, Zenon
<1>4. doc.tasks = {task} /\ TaskSound(task, doc, log)
  BY <1>2 DEF OneTask
<1>5. /\ task.at = doc.applied + 1 /\ doc.applied < Len(log)
      /\ doc.applied \in Nat /\ Later(doc.applied, task.at) = doc.applied + 1
  BY <1>2, <1>4 DEF TaskSound, Core, Later
<1>6. u = [doc EXCEPT !.seen = @ \o log[task.at].ops]
  BY <1>2, <1>3 DEF ApplyHook, Self
<1>7. /\ IsDoc(u) /\ u.applied = doc.applied /\ u.seen = doc.seen \o log[task.at].ops
      /\ u.pending = doc.pending /\ u.made = doc.made /\ u.held = doc.held
      /\ u.catch = doc.catch /\ u.submit = doc.submit /\ u.tasks = doc.tasks
  BY <1>2, <1>6 DEF Core, IsDoc
<1> HIDE DEF u
<1>8. /\ IsDoc(v) /\ v.applied = doc.applied + 1 /\ v.seen = u.seen
      /\ v.pending = doc.pending /\ v.made = doc.made /\ v.held = doc.held
      /\ v.catch = doc.catch /\ v.submit = doc.submit /\ v.tasks = {}
  BY <1>4, <1>5, <1>7 DEF IsDoc
<1> HIDE DEF v
<1>9. Core(v, log)
  BY <1>2, <1>3, <1>5, <1>7, <1>8, TakenInSound
<1>10. Advances(v, doc', log)
  <2>1. task.at \in 0..v.applied
    BY <1>5, <1>8
  <2>2. /\ Follow(task.todo, task.at, log) /\ task.who \in {"live", "catch", "submit"}
        /\ task.who = "submit" => v.submit.phase = "draining"
    BY <1>4, <1>8 DEF TaskSound
  <2> QED
    BY <1>1, <1>8, <1>9, <2>1, <2>2, GoOnSound
<1> QED
  BY <1>1, <1>2, <1>8, <1>10, EngineStep

(* An entry is refused: the host is told to reload. *)
LEMMA RefusedReloads ==
  ASSUME IsDoc(doc), NEW task \in doc.tasks, Refused(task)
  PROVE  ~DocCoped'
<1> DEFINE v == [doc EXCEPT !.tasks = @ \ {task}, !.reload = TRUE]
<1>1. doc' = GoOn(v, task.who, task.todo)
  BY DEF Refused
<1>2. IsDoc(v) /\ v.reload
  BY DEF IsDoc
<1> HIDE DEF v
<1>3. Keeps(v, doc')
  BY <1>1, <1>2, GoOnKeeps
<1> QED
  BY <1>2, <1>3 DEF Keeps, DocCoped

(* The server takes or refuses the submission. *)
LEMMA ServeSubmitSound ==
  ASSUME Sound, DocCoped, NEW r \in wire, DocServeSubmit(r)
  PROVE  Sound'
<1> DEFINE answer == [phase |-> "answered", ops |-> r.ops, seq |-> Verdict(r)]
           x == Entry(r.client, r.ops)
<1>1. /\ Free /\ wire' = wire \ {r} /\ ident' = ident
      /\ log' = IF Fits(r) THEN Append(log, x) ELSE log
      /\ feed' \in {feed, IF Fits(r) THEN Append(feed, Len(log) + 1) ELSE feed}
      /\ doc' = IF /\ doc.submit.phase = "asked"
                   /\ doc.submit.base = r.base /\ doc.submit.ops = r.ops
                THEN [doc EXCEPT !.submit = answer] ELSE doc
  BY DEF DocServeSubmit, Serve, Notify
<1>2. /\ log \in Seq(EntrySet) /\ Len(log) \in Nat /\ feed \in Seq(0..Len(log))
      /\ Core(doc, log) /\ doc.tasks = {} /\ WireFits(wire, doc) /\ ident \in Nat \ {0}
  BY <1>1, NothingMeanwhile DEF Sound, RoomSound
<1>3. /\ doc.submit.phase = "asked" /\ wire = {r} /\ r.client \in Nat \ {0}
      /\ r.base = doc.submit.base /\ r.ops = doc.submit.ops
  BY <1>2 DEF WireFits
<1>4. /\ doc.submit.base \in 0..doc.applied /\ doc.applied \in 0..Len(log)
      /\ r.ops \in Seq(Nat) /\ Leads(r.ops, doc.pending)
  BY <1>2, <1>3 DEF Core, SubmissionSound
<1>5. /\ answer.phase = "answered" /\ answer.ops = r.ops /\ answer.seq = Verdict(r)
  OBVIOUS
<1> HIDE DEF answer
<1>6. /\ IsDoc(doc') /\ doc'.applied = doc.applied /\ doc'.seen = doc.seen
      /\ doc'.pending = doc.pending /\ doc'.made = doc.made /\ doc'.held = doc.held
      /\ doc'.catch = doc.catch /\ doc'.submit = answer /\ doc'.tasks = {}
  BY <1>1, <1>2, <1>3 DEF Core, IsDoc
<1>7. WireFits(wire', doc') /\ OneTask(doc', log')
  BY <1>1, <1>3, <1>5, <1>6 DEF WireFits, OneTask
<1>8. CASE Fits(r)
  <2>1. /\ x \in EntrySet /\ x.client # 0 /\ x.client = r.client /\ x.ops = r.ops
    <3>1. r.ops \in Seq(Int)
      BY <1>4
    <3> QED
      BY <1>3, <3>1 DEF Entry, EntrySet
  <2> HIDE DEF x
  <2>2. doc.applied = Len(log) /\ Verdict(r) = Len(log) + 1
    BY <1>2, <1>3, <1>4, <1>8 DEF Fits, Verdict
  <2>3. /\ log' = Append(log, x) /\ log' \in Seq(EntrySet) /\ Len(log') = Len(log) + 1
        /\ log'[Len(log) + 1] = x
    BY <1>1, <1>2, <1>8, <2>1
  <2>4. SubmissionSound(doc', log')
    <3>1. doc'.submit.seq = doc'.applied + 1 /\ doc'.applied < Len(log')
      BY <1>2, <1>5, <1>6, <2>2, <2>3
    <3>2. log'[doc'.submit.seq] = x
      BY <1>2, <1>6, <2>2, <2>3, <3>1
    <3> QED
      BY <1>4, <1>5, <1>6, <2>1, <3>1, <3>2 DEF SubmissionSound
  <2>5. Core(doc', log')
    BY <1>2, <1>3, <1>5, <1>6, <2>1, <2>2, <2>3, <2>4, LongerLogSound
  <2>6. feed' \in Seq(0..Len(log'))
    <3>1. \A f \in Seq(0..Len(log)), n \in 0..(Len(log) + 1) :
            f \in Seq(0..(Len(log) + 1)) /\ Append(f, n) \in Seq(0..(Len(log) + 1))
      BY <1>2
    <3>2. Len(log) + 1 \in 0..(Len(log) + 1)
      BY <1>2
    <3> QED
      BY <1>1, <1>2, <2>3, <3>1, <3>2
  <2> QED
    BY <1>1, <1>2, <1>7, <2>3, <2>5, <2>6 DEF Sound, RoomSound
<1>9. CASE ~Fits(r)
  <2>1. log' = log /\ feed' = feed /\ answer.seq = 0
    BY <1>1, <1>5, <1>9 DEF Verdict
  <2>2. SubmissionSound(doc', log)
    BY <1>4, <1>5, <1>6, <2>1 DEF SubmissionSound
  <2>3. CatchSound(doc', log) /\ TypedSound(doc')
    BY <1>2, <1>6 DEF Core, CatchSound, TypedSound, Done
  <2>4. OwnApplied(doc', log)
    BY <1>2, <1>3, <1>6 DEF Core, OwnApplied
  <2>5. Core(doc', log)
    BY <1>2, <1>6, <2>2, <2>3, <2>4 DEF Core
  <2> QED
    BY <1>1, <1>2, <1>7, <2>1, <2>5 DEF Sound, RoomSound
<1> QED
  BY <1>8, <1>9

(* The answer to the submission arrives. *)
LEMMA SubmitReturnsSound ==
  ASSUME Sound, DocCoped, DocSubmitReturns
  PROVE  Sound'
<1>1. /\ Free /\ doc.submit.phase = "answered"
      /\ doc' = IF doc.submit.seq = 0
                THEN CatchUp([doc EXCEPT !.submit = [phase |-> "catching"]])
                ELSE GoOn(Acked(doc), "submit", <<>>)
      /\ wire' = wire \cup Sent(doc') /\ log' = log /\ ident' = ident /\ feed' = feed
  BY DEF DocSubmitReturns, Quiet
<1>2. /\ log \in Seq(EntrySet) /\ Len(log) \in Nat /\ feed \in Seq(0..Len(log))
      /\ Core(doc, log) /\ doc.tasks = {}
  BY <1>1, NothingMeanwhile DEF Sound, RoomSound
<1>3. CASE doc.submit.seq = 0
  <2> DEFINE v == [doc EXCEPT !.submit = [phase |-> "catching"]]
  <2>1. /\ IsDoc(v) /\ v.applied = doc.applied /\ v.seen = doc.seen
        /\ v.pending = doc.pending /\ v.made = doc.made /\ v.held = doc.held
        /\ v.catch = doc.catch /\ v.submit.phase = "catching" /\ v.tasks = {}
    BY <1>2 DEF Core, IsDoc
  <2>2. doc' = CatchUp(v)
    BY <1>1, <1>3
  <2> HIDE DEF v
  <2>3. CatchSound(v, log) /\ TypedSound(v) /\ SubmissionSound(v, log)
    BY <1>2, <2>1 DEF Core, CatchSound, TypedSound, Done, SubmissionSound
  <2>4. OwnApplied(v, log)
    <3>1. \A k \in 1..Len(log) : k # 0
      BY <1>2
    <3> QED
      BY <1>2, <1>3, <2>1, <3>1 DEF Core, OwnApplied
  <2>5. Core(v, log)
    BY <1>2, <2>1, <2>3, <2>4 DEF Core
  <2>6. Advances(v, doc', log)
    BY <2>1, <2>2, <2>5, CatchUpSound DEF Advances, OneTask
  <2>7. doc.submit.phase # "asked"
    BY <1>1
  <2> QED
    BY <1>1, <1>2, <2>6, <2>7, EngineStep
<1>4. CASE doc.submit.seq # 0
  <2> DEFINE w == [doc EXCEPT !.applied = Later(@, doc.submit.seq),
                              !.submit = [phase |-> "draining"]]
             v == Confirm(w, doc.submit.ops)
  <2>1. /\ doc.submit.seq = doc.applied + 1 /\ doc.applied \in 0..Len(log)
        /\ Later(doc.applied, doc.submit.seq) = doc.submit.seq
    BY <1>1, <1>2, <1>4 DEF Core, SubmissionSound, Later
  <2>2. doc' = GoOn(v, "submit", <<>>)
    BY <1>1, <1>4 DEF Acked
  <2>3. /\ IsDoc(w) /\ w.applied = doc.submit.seq /\ w.seen = doc.seen
        /\ w.pending = doc.pending /\ w.made = doc.made /\ w.held = doc.held
        /\ w.catch = doc.catch /\ w.submit = [phase |-> "draining"] /\ w.tasks = {}
    BY <1>2, <2>1 DEF Core, IsDoc
  <2> HIDE DEF w
  <2>4. /\ IsDoc(v) /\ v.applied = doc.submit.seq /\ v.seen = doc.seen \o doc.submit.ops
        /\ v.pending = SubSeq(doc.pending, Len(doc.submit.ops) + 1, Len(doc.pending))
        /\ v.made = doc.made /\ v.held = doc.held
        /\ v.catch = doc.catch /\ v.submit = [phase |-> "draining"] /\ v.tasks = {}
    BY <2>3 DEF IsDoc, Confirm
  <2> HIDE DEF v
  <2>5. Core(v, log)
    BY <1>1, <1>2, <1>4, <2>4, AckedSound
  <2>6. v.submit.phase = "draining" /\ 0 \in 0..v.applied /\ Follow(<<>>, 0, log)
    BY <2>1, <2>4 DEF Follow
  <2>7. Advances(v, doc', log)
    BY <2>2, <2>4, <2>5, <2>6, GoOnSound
  <2>8. doc.submit.phase # "asked"
    BY <1>1
  <2> QED
    BY <1>1, <1>2, <2>7, <2>8, EngineStep
<1> QED
  BY <1>3, <1>4

(* Once a call is lost, that is noted. *)
LEMMA LostIsNoted ==
  ASSUME DocSubmitLost \/ DocCatchUpLost
  PROVE  ~DocCoped'
<1>1. \E x : mishaps' = mishaps \cup {x}
  BY Zenon DEF DocSubmitLost, DocCatchUpLost, Lose
<1>2. mishaps' # {}
  BY <1>1
<1> QED
  BY <1>2 DEF DocCoped

(* The server answers a catch-up. *)
LEMMA ServeCatchUpSound ==
  ASSUME Sound, DocCoped, DocServeCatchUp
  PROVE  Sound'
<1> DEFINE from == doc.catch.from
           todo == [i \in 1..(Len(log) - from) |-> from + i]
<1>1. /\ Free /\ doc.catch.phase = "asked" /\ doc' = [doc EXCEPT !.catch = Since(@.from)]
      /\ log' = log /\ wire' = wire /\ ident' = ident /\ feed' = feed
  BY DEF DocServeCatchUp, room
<1>2. /\ log \in Seq(EntrySet) /\ Len(log) \in Nat /\ RoomSound
      /\ Core(doc, log) /\ doc.tasks = {} /\ WireFits(wire, doc)
  BY <1>1, NothingMeanwhile DEF Sound, RoomSound
<1>3. from \in 0..doc.applied /\ doc.applied \in 0..Len(log)
  BY <1>1, <1>2 DEF Core, CatchSound
<1>4. /\ IsDoc(doc') /\ doc'.applied = doc.applied /\ doc'.seen = doc.seen
      /\ doc'.pending = doc.pending /\ doc'.made = doc.made /\ doc'.held = doc.held
      /\ doc'.catch = Since(from) /\ doc'.submit = doc.submit /\ doc'.tasks = {}
  BY <1>1, <1>2 DEF Core, IsDoc
<1>5. Since(from).phase = "answered" /\ Since(from).todo = todo
  BY DEF Since
<1> HIDE DEF from
<1>6. Follow(todo, from, log)
  <2>1. Len(log) - from \in Nat /\ from \in Nat
    BY <1>2, <1>3
  <2>2. todo \in Seq(Nat) /\ Len(todo) = Len(log) - from
    BY <2>1
  <2>3. ASSUME NEW i \in 1..Len(todo) PROVE todo[i] = from + i /\ from + i <= Len(log)
    BY <1>2, <2>1, <2>2
  <2> QED
    BY <2>2, <2>3 DEF Follow
<1> HIDE DEF todo
<1>7. CatchSound(doc', log) /\ SubmissionSound(doc', log)
  BY <1>2, <1>3, <1>4, <1>5, <1>6 DEF Core, CatchSound, SubmissionSound
<1>8. Core(doc', log)
  BY <1>2, <1>4, <1>7, CoreSame DEF Core
<1>9. WireFits(wire', doc') /\ OneTask(doc', log')
  BY <1>1, <1>2, <1>4 DEF WireFits, OneTask
<1> QED
  BY <1>1, <1>2, <1>8, <1>9 DEF Sound, RoomSound

(* Its answer arrives. *)
LEMMA CatchUpReturnsSound ==
  ASSUME Sound, DocCoped, DocCoped', DocCatchUpReturns
  PROVE  Sound'
<1> DEFINE x == [doc EXCEPT !.reload = TRUE]
           v == [doc EXCEPT !.catch = [phase |-> "applying"]]
           todo == doc.catch.todo
<1>1. /\ Free /\ doc.catch.phase = "answered"
      /\ doc' = IF doc.catch.reset THEN EndCatchUp(x) ELSE GoOn(v, "catch", todo)
      /\ wire' = wire \cup Sent(doc') /\ log' = log /\ ident' = ident /\ feed' = feed
  BY DEF DocCatchUpReturns, Quiet
<1>2. /\ log \in Seq(EntrySet) /\ feed \in Seq(0..Len(log))
      /\ Core(doc, log) /\ doc.tasks = {}
  BY <1>1, NothingMeanwhile DEF Sound, RoomSound
<1>3. ~doc.catch.reset
  <2>1. ~doc'.reload
    BY DEF DocCoped
  <2>2. IsDoc(x) /\ x.reload
    BY <1>2 DEF Core, IsDoc
  <2> HIDE DEF x
  <2>3. EndCatchUp(x).reload
    BY <2>2, EndCatchUpKeeps DEF Keeps
  <2> QED
    BY <1>1, <2>1, <2>3
<1>4. PICK from \in 0..doc.applied : Follow(todo, from, log)
  BY <1>1, <1>2, <1>3 DEF Core, CatchSound
<1>5. /\ IsDoc(v) /\ v.applied = doc.applied /\ v.seen = doc.seen
      /\ v.pending = doc.pending /\ v.made = doc.made /\ v.held = doc.held
      /\ v.catch.phase = "applying" /\ v.submit = doc.submit /\ v.tasks = {}
  BY <1>2 DEF Core, IsDoc
<1> HIDE DEF x, v, todo
<1>6. CatchSound(v, log) /\ SubmissionSound(v, log)
  BY <1>2, <1>5 DEF Core, CatchSound, SubmissionSound
<1>7. Core(v, log)
  BY <1>2, <1>5, <1>6, CoreSame DEF Core
<1>8. Advances(v, doc', log)
  BY <1>1, <1>3, <1>4, <1>5, <1>7, GoOnSound
<1> QED
  BY <1>1, <1>2, <1>5, <1>8, EngineStep

(* The connection is lost, or back. *)
LEMMA LinkSound ==
  ASSUME Sound, DocCoped, DocDrop \/ DocReconnect
  PROVE  Sound'
<1>1. CASE DocDrop
  <2>1. /\ log' = log /\ wire' = wire /\ ident' = ident /\ feed' = <<>> /\ doc' = doc
    BY <1>1 DEF DocDrop, Drop
  <2>2. RoomSound'
    BY <2>1 DEF Sound, RoomSound
  <2> QED
    BY <2>1, <2>2 DEF Sound
<1>2. CASE DocReconnect
  <2> DEFINE v == [doc EXCEPT !.resuming = TRUE]
  <2>1. /\ Free /\ log' = log /\ wire' = wire /\ ident' = ident + 1 /\ feed' = feed
        /\ doc' = CatchUp(v)
    BY <1>2 DEF DocReconnect, Rejoin
  <2>2. Core(doc, log) /\ doc.tasks = {} /\ RoomSound /\ WireFits(wire, doc)
    BY <2>1, NothingMeanwhile DEF Sound
  <2>3. /\ IsDoc(v) /\ v.applied = doc.applied /\ v.seen = doc.seen
        /\ v.pending = doc.pending /\ v.made = doc.made /\ v.held = doc.held
        /\ v.catch = doc.catch /\ v.submit = doc.submit /\ v.tasks = {}
    BY <2>2 DEF Core, IsDoc
  <2> HIDE DEF v
  <2>4. CatchSound(v, log) /\ SubmissionSound(v, log)
    BY <2>2, <2>3 DEF Core, CatchSound, SubmissionSound
  <2>5. Core(v, log)
    BY <2>2, <2>3, <2>4, CoreSame DEF Core
  <2>6. Core(doc', log) /\ doc'.tasks = {} /\ doc'.submit = doc.submit
    BY <2>1, <2>3, <2>5, CatchUpSound
  <2>7. RoomSound'
    BY <2>1, <2>2 DEF RoomSound
  <2>8. WireFits(wire', doc') /\ OneTask(doc', log')
    BY <2>1, <2>2, <2>6 DEF WireFits, OneTask
  <2> QED
    BY <2>1, <2>6, <2>7, <2>8 DEF Sound
<1> QED
  BY <1>1, <1>2

-----------------------------------------------------------------------------
(***************************************************************************)
(* The theorems.                                                           *)
(***************************************************************************)
(* At the start nothing is applied, and the log holds at most another's entry. *)
LEMMA InitSound == ASSUME DocInit PROVE IInv
<1>1. PICK n \in {0, 1} : log = [i \in 1..n |-> Entry(0, <<-i>>)]
  BY DEF DocInit
<1>2. /\ wire = {} /\ feed = <<>> /\ ident = 1
      /\ doc = [applied |-> 0, seen |-> <<>>, pending |-> <<>>, made |-> 0,
                submit |-> [phase |-> "booting"], tries |-> 0, resuming |-> FALSE,
                catch |-> [phase |-> "asked", from |-> 0],
                held |-> {}, tasks |-> {}, reload |-> FALSE]
  BY DEF DocInit, RoomInit
<1>3. /\ IsDoc(doc) /\ doc.applied = 0 /\ doc.seen = <<>> /\ doc.pending = <<>>
      /\ doc.made = 0 /\ doc.submit.phase = "booting" /\ doc.catch.phase = "asked"
      /\ doc.catch.from = 0 /\ doc.held = {} /\ doc.tasks = {}
  BY <1>2 DEF IsDoc
<1>4. /\ log \in Seq(EntrySet) /\ Len(log) = n
      /\ \A k \in 1..Len(log) : /\ log[k].client = 0
                                /\ \A i \in 1..Len(log[k].ops) : log[k].ops[i] <= 0
  <2>1. \A i \in 1..n : /\ Entry(0, <<-i>>) \in EntrySet
                        /\ Entry(0, <<-i>>).client = 0 /\ Entry(0, <<-i>>).ops = <<-i>>
    <3>1. \A i \in 1..n : <<-i>> \in Seq(Int)
      OBVIOUS
    <3> QED
      BY <3>1 DEF Entry, EntrySet
  <2>2. log \in Seq(EntrySet) /\ Len(log) = n
    <3> DEFINE x == Entry(0, <<-1>>)
    <3>1. n = 1 => x \in EntrySet
      BY <2>1
    <3>2. n = 1 => log = <<x>>
      BY <1>1
    <3>3. n = 0 => log = <<>>
      BY <1>1
    <3> HIDE DEF x
    <3>4. n = 1 => <<x>> \in Seq(EntrySet) /\ Len(<<x>>) = 1
      BY <3>1
    <3>5. <<>> \in Seq(EntrySet) /\ Len(<<>>) = 0
      OBVIOUS
    <3>6. n = 0 \/ n = 1
      OBVIOUS
    <3>7. CASE n = 0
      BY <3>3, <3>5, <3>7, Zenon
    <3>8. CASE n = 1
      BY <3>2, <3>4, <3>8, Zenon
    <3> QED
      BY <3>6, <3>7, <3>8, Zenon
  <2>3. ASSUME NEW k \in 1..Len(log)
        PROVE  /\ log[k].client = 0 /\ \A i \in 1..Len(log[k].ops) : log[k].ops[i] <= 0
    <3>1. k \in 1..n /\ log[k] = Entry(0, <<-k>>)
      BY <1>1, <2>2
    <3>2. log[k].client = 0 /\ log[k].ops = <<-k>>
      BY <2>1, <3>1
    <3>3. Len(<<-k>>) = 1 /\ <<-k>>[1] <= 0
      BY <3>1
    <3> QED
      BY <3>2, <3>3
  <2> QED
    BY <2>2, <2>3
<1>5. RoomSound
  BY <1>2, <1>4 DEF RoomSound
<1>6. TypedSound(doc)
  <2>1. Own(doc.seen) = <<>> /\ Len(doc.pending) = 0 /\ doc.pending \in Seq(Nat)
    BY <1>3, OwnOfNothing
  <2>2. Done(doc) = 0
    <3>1. Done(doc) = 0 - 0
      BY <1>3, <2>1, Zenon DEF Done
    <3> QED
      BY <3>1
  <2>3. [i \in 1..0 |-> i] = <<>>
    OBVIOUS
  <2> QED
    BY <1>3, <2>1, <2>2, <2>3 DEF TypedSound
<1>7. CatchSound(doc, log) /\ SubmissionSound(doc, log) /\ OwnApplied(doc, log)
  BY <1>3, <1>4 DEF CatchSound, SubmissionSound, OwnApplied
<1>8. Core(doc, log)
  BY <1>3, <1>4, <1>6, <1>7, EditsAtStart DEF Core
<1>9. WireFits(wire, doc) /\ OneTask(doc, log)
  BY <1>2, <1>3 DEF WireFits, OneTask
<1> QED
  BY <1>3, <1>5, <1>8, <1>9 DEF IInv, Sound

(* Every step keeps the invariant. *)
LEMMA StepSound == ASSUME IInv, [DocNext]_dvars PROVE IInv'
<1>1. IsDoc(doc') /\ (DocCoped' => DocCoped)
  BY CopedBefore DEF IInv
<1> SUFFICES ASSUME DocCoped' PROVE Sound'
  BY <1>1 DEF IInv, IsDoc
<1>2. DocCoped /\ Sound /\ IsDoc(doc)
  BY <1>1 DEF IInv
<1>3. CASE Type
  BY <1>2, <1>3, TypeSound
<1>4. CASE DocOther
  BY <1>2, <1>4, OtherSound
<1>5. CASE DocEvent
  BY <1>2, <1>5, EventSound
<1>6. CASE \E task \in doc.tasks : Applied(task) \/ Refused(task)
  BY <1>2, <1>6, AppliedSound, RefusedReloads
<1>7. CASE \E r \in wire : DocServeSubmit(r)
  BY <1>2, <1>7, ServeSubmitSound
<1>8. CASE DocSubmitReturns
  BY <1>2, <1>8, SubmitReturnsSound
<1>9. CASE DocSubmitLost \/ DocCatchUpLost
  BY <1>9, LostIsNoted
<1>10. CASE DocServeCatchUp
  BY <1>2, <1>10, ServeCatchUpSound
<1>11. CASE DocCatchUpReturns
  BY <1>2, <1>11, CatchUpReturnsSound
<1>12. CASE DocDrop \/ DocReconnect
  BY <1>2, <1>12, LinkSound
<1>13. CASE UNCHANGED dvars
  <2>1. /\ log' = log /\ wire' = wire /\ ident' = ident /\ feed' = feed /\ doc' = doc
    BY <1>13 DEF dvars, room
  <2>2. RoomSound'
    BY <1>2, <2>1 DEF Sound, RoomSound
  <2> QED
    BY <1>2, <2>1, <2>2 DEF Sound
<1> QED
  BY <1>3, <1>4, <1>5, <1>6, <1>7, <1>8, <1>9, <1>10, <1>11, <1>12, <1>13 DEF DocNext

(* While the engine copes, its text is that of the log up to the position it
   counts as applied, its submission is the first part of what is pending, and
   what it is asked to apply next is what the log holds next. *)
THEOREM DocInductive == DocSpec => []IInv
<1>1. DocInit => IInv
  BY InitSound
<1>2. IInv /\ [DocNext]_dvars => IInv'
  BY StepSound
<1> QED
  BY <1>1, <1>2, PTL DEF DocSpec

(* receiveEntry, catchUp and submitLoop: what the editor took as confirmed is the
   log so far, in its order and nothing twice, with a host that applies at once and as
   long as no call is lost, no own entry comes back through a catch-up and the host
   is not told to reload. *)
THEOREM SeenAlwaysFollowsLog == DocSpec => []SeenFollowsLogIfCoped
<1>1. IInv => SeenFollowsLogIfCoped
  <2> SUFFICES ASSUME IInv, DocCoped PROVE IsPrefix(doc.seen, Edits)
    BY DEF SeenFollowsLogIfCoped
  <2>1. /\ log \in Seq(EntrySet) /\ doc.applied \in 0..Len(log)
        /\ doc.seen = EditsAt(log, doc.applied)
    BY DEF IInv, Sound, RoomSound, Core
  <2>2. IsPrefix(EditsAt(log, doc.applied), EditsAt(log, Len(log)))
    BY <2>1, EditsGrow
  <2> QED
    BY <2>1, <2>2, EditsAtEnd
<1> QED
  BY <1>1, DocInductive, PTL

(* getPending and onAcked: what is confirmed of this tab's and what is pending are
   all it made, in the order typed, and the log holds nothing of it twice, in the
   same circumstances. *)
THEOREM NothingEverTwiceOrLost == DocSpec => []NothingTwiceOrLost
<1>1. IInv => NothingTwiceOrLost
  <2> SUFFICES ASSUME IInv, DocCoped
               PROVE  /\ \A i \in 1..Len(Own(Edits)) : Own(Edits)[i] = i
                      /\ Own(doc.seen) \o doc.pending = [i \in 1..doc.made |-> i]
    BY DEF NothingTwiceOrLost
  <2> DEFINE d == Done(doc)
             n == doc.applied
  <2>1. /\ log \in Seq(EntrySet) /\ Len(log) \in Nat /\ n \in 0..Len(log)
        /\ doc.seen = EditsAt(log, n) /\ Edits = EditsAt(log, Len(log))
        /\ TypedSound(doc) /\ SubmissionSound(doc, log) /\ OwnApplied(doc, log)
    BY EditsAtEnd DEF IInv, Sound, RoomSound, Core
  <2>2. /\ doc.made \in Nat /\ doc.pending \in Seq(Nat) /\ Len(doc.pending) \in Nat
        /\ Len(doc.pending) <= doc.made /\ d = doc.made - Len(doc.pending)
        /\ \A i \in 1..Len(doc.pending) : doc.pending[i] = d + i
        /\ Own(doc.seen) = [i \in 1..d |-> i]
    BY <2>1 DEF TypedSound, Done
  <2> HIDE DEF d
  <2>3. d \in Nat /\ d + Len(doc.pending) = doc.made
    <3>1. \A m, p \in Nat : p <= m => m - p \in Nat /\ (m - p) + p = m
      OBVIOUS
    <3> QED
      BY <2>2, <3>1
  <2>4. Own(doc.seen) \o doc.pending = [i \in 1..doc.made |-> i]
    <3>1. \A p \in Seq(Nat) : (\A i \in 1..Len(p) : p[i] = d + i) =>
            [i \in 1..d |-> i] \o p = [i \in 1..(d + Len(p)) |-> i]
      BY <2>3
    <3>2. [i \in 1..d |-> i] \o doc.pending = [i \in 1..(d + Len(doc.pending)) |-> i]
      BY <2>2, <3>1, Zenon
    <3> QED
      BY <2>2, <2>3, <3>2
  <2>5. \A k \in 1..Len(log) : log[k].client # 0 =>
          k <= n \/ (doc.submit.phase = "answered" /\ doc.submit.seq = k)
    BY <2>1 DEF OwnApplied
  <2>6. \A k \in 1..Len(log) : log[k].client = 0 =>
          \A i \in 1..Len(log[k].ops) : log[k].ops[i] <= 0
    BY <2>1 DEF OwnApplied
  <2>7. CASE ~(doc.submit.phase = "answered" /\ doc.submit.seq # 0)
    <3>1. \A k \in (n + 1)..Len(log) : log[k].client = 0 /\ k \in 1..Len(log)
      BY <2>1, <2>5, <2>7
    <3>2. Own(Edits) = Own(doc.seen)
      BY <2>1, <2>6, <3>1, OwnUpTo
    <3>3. \A i \in 1..Len([j \in 1..d |-> j]) : [j \in 1..d |-> j][i] = i
      BY <2>3
    <3> QED
      BY <2>2, <2>4, <3>2, <3>3
  <2>8. CASE doc.submit.phase = "answered" /\ doc.submit.seq # 0
    <3> DEFINE ops == doc.submit.ops
    <3>1. /\ doc.submit.seq = n + 1 /\ n < Len(log) /\ log[n + 1].ops = ops
          /\ ops \in Seq(Nat) /\ ops = SubSeq(doc.pending, 1, Len(ops))
          /\ Len(ops) <= Len(doc.pending) /\ Len(ops) \in Nat
      BY <2>1, <2>8 DEF SubmissionSound, Leads
    <3> HIDE DEF ops, n
    <3>2. n \in 0..(Len(log) - 1) /\ n + 1 \in 0..Len(log)
      BY <2>1, <3>1
    <3>3. \A k \in ((n + 1) + 1)..Len(log) : log[k].client = 0 /\ k \in 1..Len(log)
      BY <2>1, <2>5, <3>1, <3>2
    <3>4. Own(Edits) = Own(EditsAt(log, n + 1))
      BY <2>1, <2>6, <3>2, <3>3, OwnUpTo
    <3>5. EditsAt(log, n + 1) = doc.seen \o ops
      BY <2>1, <3>1, <3>2, EditsAtNext
    <3>6. \A i \in 1..Len(ops) : ops[i] = d + i /\ ops[i] > 0
      <4>1. \A s \in Seq(Nat), m \in Nat : m <= Len(s) =>
              \A i \in 1..m : SubSeq(s, 1, m)[i] = s[i] /\ i \in 1..Len(s)
        OBVIOUS
      <4>2. \A i \in 1..Len(ops) : ops[i] = doc.pending[i] /\ i \in 1..Len(doc.pending)
        BY <2>2, <3>1, <4>1
      <4> QED
        BY <2>2, <2>3, <4>2, SMTT(30)
    <3>7. Own(doc.seen \o ops) = Own(doc.seen) \o ops
      <4>1. \A s \in Seq(Nat) : s \in Seq(Int)
        OBVIOUS
      <4>2. [i \in 1..d |-> i] \in Seq(Int) /\ doc.seen \in Seq(Int)
        BY <2>1, <2>3, EditsGrow
      <4> QED
        BY <2>2, <3>1, <3>6, <4>1, <4>2, OwnOfOwn
    <3>8. [i \in 1..d |-> i] \o ops = [i \in 1..(d + Len(ops)) |-> i]
      BY <2>3, <3>1, <3>6
    <3>9. d + Len(ops) \in Nat
      BY <2>3, <3>1
    <3>10. \A m \in Nat : \A i \in 1..Len([j \in 1..m |-> j]) : [j \in 1..m |-> j][i] = i
      OBVIOUS
    <3> QED
      BY <2>2, <2>4, <3>4, <3>5, <3>7, <3>8, <3>9, <3>10
  <2> QED
    BY <2>7, <2>8
<1> QED
  BY <1>1, DocInductive, PTL

=============================================================================
