-------------------------- MODULE CollabHttpProofs --------------------------
(***************************************************************************)
(* Proofs about CollabHttp for any number of tabs and sessions and any     *)
(* buffer.  What the server does to its sessions and the room is first     *)
(* seen from one session: as long as it is not ended it learns every       *)
(* change by an event that comes to the same change (Kept).                *)
(***************************************************************************)
EXTENDS CollabHttp, TLAPS, SequenceTheorems

Mirror == INSTANCE Folding WITH Op <- Apply
Expiry == INSTANCE Folding WITH Op <- ExpireOne

-----------------------------------------------------------------------------
(* Types. *)
PeerMaps == UNION {[S -> Nat] : S \in SUBSET Nat}

EventSet == [kind : {"joined", "left", "selected"}, of : Nat, sel : Nat]

SessionSet ==
  [listed : BOOLEAN, done : BOOLEAN, idle : BOOLEAN,
   streams : SUBSET {"live", "dead"}, events : Seq(EventSet)]

TabSet ==
  [open : BOOLEAN, session : Nat, stream : {"none", "opening", "open"},
   first : BOOLEAN, bound : BOOLEAN, task : {"idle", "create", "attach", "probe"},
   me : Nat, joined : BOOLEAN, remote : PeerMaps]

Underway == [tab : Tabs, session : Nat, phase : {"sent", "found"}]
AnsweredSet == [tab : Tabs, session : Nat, phase : {"answered"}, peers : PeerMaps]

(* What a mirror that starts as d shows after the events. *)
Shown(d, q) == FoldLeft(Apply, d, q)

(* The events from some position on. *)
Rest(q, i) == [k \in 1..(Len(q) - i) |-> q[k + i]]

(* Whoever shows the room now is not misled by any of the events on their way
   to it, or by only the last of them. *)
Settled(d, q) == \A i \in 0..Len(q) : Shown(d, Rest(q, i)) = d

ServerTypes(v) ==
  /\ v = [sess |-> v.sess, peers |-> v.peers]
  /\ v.sess \in Seq(SessionSet)
  /\ v.peers \in PeerMaps
  /\ DOMAIN v.peers \subseteq 1..Len(v.sess)

(* Nothing waits for a session that is not in the room, nothing of itself for
   one that is, and no event that the room has moved past. *)
MailFits(v, s) ==
  /\ ~v.sess[s].done /\ s \notin DOMAIN v.peers => v.sess[s].events = <<>>
  /\ \A i \in 1..Len(v.sess[s].events) : v.sess[s].events[i].of # s
  /\ ~v.sess[s].done /\ s \in DOMAIN v.peers =>
       Settled(Without(v.peers, s), v.sess[s].events)

ServerFits(v) == ServerTypes(v) /\ \A s \in 1..Len(v.sess) : MailFits(v, s)

(* A mirror of session s that starts as d shows the room. *)
Follows(v, s, d) == Shown(d, v.sess[s].events) = Without(v.peers, s)

(* Whoever is in the room stays in it and follows it, or is ended. *)
KeptFor(v, w, s) ==
  /\ v.sess[s].done => w.sess[s].done
  /\ s \in DOMAIN v.peers /\ ~w.sess[s].done =>
       /\ s \in DOMAIN w.peers
       /\ \A d \in PeerMaps : Follows(v, s, d) => Follows(w, s, d)

Kept(v, w) ==
  /\ Len(v.sess) <= Len(w.sess)
  /\ \A s \in 1..Len(v.sess) : KeptFor(v, w, s)

AllListed(v) == \A s \in DOMAIN v.peers : v.sess[s].listed

Lists(v, w) == AllListed(v) => AllListed(w)

-----------------------------------------------------------------------------
(* Mirrors.  An event is about one client. *)
SameAt(f, g, x) ==
  /\ x \in DOMAIN f <=> x \in DOMAIN g
  /\ x \in DOMAIN f => f[x] = g[x]

(* What is a map of selections. *)
LEMMA PeerMap ==
  ASSUME NEW f \in PeerMaps
  PROVE  /\ DOMAIN f \subseteq Nat
         /\ f \in [DOMAIN f -> Nat]
         /\ f = [r \in DOMAIN f |-> f[r]]
         /\ \A r \in DOMAIN f : f[r] \in Nat
<1>1. PICK S \in SUBSET Nat : f \in [S -> Nat]
  BY DEF PeerMaps
<1> QED
  BY <1>1

LEMMA IsPeerMap ==
  ASSUME NEW S \in SUBSET Nat, NEW f \in [S -> Nat]
  PROVE  f \in PeerMaps
BY DEF PeerMaps

(* They are equal if they are so at every client. *)
LEMMA SameMap ==
  ASSUME NEW f \in PeerMaps, NEW g \in PeerMaps, \A x \in Nat : SameAt(f, g, x)
  PROVE  f = g
<1>1. DOMAIN f = DOMAIN g
  BY PeerMap DEF SameAt
<1>2. \A x \in DOMAIN f : f[x] = g[x]
  BY PeerMap DEF SameAt
<1>3. f = [r \in DOMAIN f |-> f[r]] /\ g = [r \in DOMAIN g |-> g[r]]
  BY PeerMap
<1> QED
  BY <1>1, <1>2, <1>3

LEMMA WithoutType ==
  ASSUME NEW f \in PeerMaps, NEW s
  PROVE  Without(f, s) \in PeerMaps
<1>1. DOMAIN f \ {s} \in SUBSET Nat /\ \A r \in DOMAIN f \ {s} : f[r] \in Nat
  BY PeerMap
<1>2. Without(f, s) \in [DOMAIN f \ {s} -> Nat]
  BY <1>1 DEF Without
<1> QED
  BY <1>1, <1>2, IsPeerMap

LEMMA WithType ==
  ASSUME NEW f \in PeerMaps, NEW s \in Nat, NEW n \in Nat
  PROVE  With(f, s, n) \in PeerMaps
<1>1. DOMAIN f \cup {s} \in SUBSET Nat /\ \A r \in DOMAIN f : f[r] \in Nat
  BY PeerMap
<1>2. With(f, s, n) \in [DOMAIN f \cup {s} -> Nat]
  BY <1>1 DEF With
<1> QED
  BY <1>1, <1>2, IsPeerMap

LEMMA SelectType ==
  ASSUME NEW f \in PeerMaps, NEW s \in DOMAIN f, NEW n \in Nat
  PROVE  [f EXCEPT ![s] = n] \in PeerMaps
<1>1. DOMAIN f \in SUBSET Nat /\ f \in [DOMAIN f -> Nat]
  BY PeerMap
<1>2. [f EXCEPT ![s] = n] \in [DOMAIN f -> Nat]
  BY <1>1
<1> QED
  BY <1>1, <1>2, IsPeerMap

LEMMA ApplyType ==
  ASSUME NEW f \in PeerMaps, NEW e \in EventSet
  PROVE  Apply(f, e) \in PeerMaps
<1>1. CASE e.kind = "joined"
  <2>1. Apply(f, e) = With(f, e.of, 0) /\ e.of \in Nat
    BY <1>1 DEF Apply, EventSet
  <2> QED
    BY <2>1, WithType
<1>2. CASE e.kind = "left"
  <2>1. Apply(f, e) = Without(f, e.of)
    BY <1>2 DEF Apply, EventSet
  <2> QED
    BY <2>1, WithoutType
<1>3. CASE e.kind = "selected"
  <2>1. Apply(f, e) = IF e.of \in DOMAIN f THEN [f EXCEPT ![e.of] = e.sel] ELSE f
    BY <1>3 DEF Apply, EventSet
  <2>2. e.sel \in Nat
    BY DEF EventSet
  <2> QED
    BY <2>1, <2>2, SelectType
<1> QED
  BY <1>1, <1>2, <1>3 DEF EventSet

(* Where two mirrors agree, they go on agreeing; elsewhere the event does nothing. *)
LEMMA ApplySame ==
  ASSUME NEW f \in PeerMaps, NEW g \in PeerMaps, NEW e \in EventSet, NEW x,
         SameAt(f, g, x)
  PROVE  SameAt(Apply(f, e), Apply(g, e), x)
<1>1. CASE e.kind = "joined"
  <2>1. Apply(f, e) = With(f, e.of, 0) /\ Apply(g, e) = With(g, e.of, 0)
    BY <1>1 DEF Apply
  <2> QED
    BY <2>1 DEF SameAt, With
<1>2. CASE e.kind = "left"
  <2>1. Apply(f, e) = Without(f, e.of) /\ Apply(g, e) = Without(g, e.of)
    BY <1>2 DEF Apply
  <2> QED
    BY <2>1 DEF SameAt, Without
<1>3. CASE e.kind = "selected"
  <2>1. /\ Apply(f, e) = IF e.of \in DOMAIN f THEN [f EXCEPT ![e.of] = e.sel] ELSE f
        /\ Apply(g, e) = IF e.of \in DOMAIN g THEN [g EXCEPT ![e.of] = e.sel] ELSE g
    BY <1>3 DEF Apply
  <2> QED
    BY <2>1, PeerMap DEF SameAt
<1> QED
  BY <1>1, <1>2, <1>3 DEF EventSet

LEMMA ApplyElsewhere ==
  ASSUME NEW f \in PeerMaps, NEW e \in EventSet, NEW x, x # e.of
  PROVE  SameAt(Apply(f, e), f, x)
<1>1. CASE e.kind = "joined"
  <2>1. Apply(f, e) = With(f, e.of, 0)
    BY <1>1 DEF Apply
  <2> QED
    BY <2>1 DEF SameAt, With
<1>2. CASE e.kind = "left"
  <2>1. Apply(f, e) = Without(f, e.of)
    BY <1>2 DEF Apply
  <2> QED
    BY <2>1 DEF SameAt, Without
<1>3. CASE e.kind = "selected"
  <2>1. Apply(f, e) = IF e.of \in DOMAIN f THEN [f EXCEPT ![e.of] = e.sel] ELSE f
    BY <1>3 DEF Apply
  <2> QED
    BY <2>1, PeerMap DEF SameAt
<1> QED
  BY <1>1, <1>2, <1>3 DEF EventSet

(* Who is shown depends only on who was shown. *)
LEMMA ApplyMember ==
  ASSUME NEW f \in PeerMaps, NEW g \in PeerMaps, NEW e \in EventSet, NEW x,
         x \in DOMAIN f <=> x \in DOMAIN g
  PROVE  x \in DOMAIN Apply(f, e) <=> x \in DOMAIN Apply(g, e)
<1>1. CASE e.kind = "joined"
  <2>1. Apply(f, e) = With(f, e.of, 0) /\ Apply(g, e) = With(g, e.of, 0)
    BY <1>1 DEF Apply
  <2> QED
    BY <2>1 DEF With
<1>2. CASE e.kind = "left"
  <2>1. Apply(f, e) = Without(f, e.of) /\ Apply(g, e) = Without(g, e.of)
    BY <1>2 DEF Apply
  <2> QED
    BY <2>1 DEF Without
<1>3. CASE e.kind = "selected"
  <2>1. /\ Apply(f, e) = IF e.of \in DOMAIN f THEN [f EXCEPT ![e.of] = e.sel] ELSE f
        /\ Apply(g, e) = IF e.of \in DOMAIN g THEN [g EXCEPT ![e.of] = e.sel] ELSE g
    BY <1>3 DEF Apply
  <2>2. DOMAIN Apply(f, e) = DOMAIN f /\ DOMAIN Apply(g, e) = DOMAIN g
    BY <2>1
  <2> QED
    BY <2>2
<1> QED
  BY <1>1, <1>2, <1>3 DEF EventSet

(* Both hold through any sequence of events. *)
LEMMA ShownIs ==
  ASSUME NEW d, NEW q
  PROVE  Shown(d, q) = Mirror!Folded(d, q)
BY DEF Shown, Mirror!Folded, FoldLeft, MapThenFoldSet, Mirror!FoldLeft,
       Mirror!MapThenFoldSet, Mirror!Max, Max

(* Two mirrors that handle the same events. *)
LEMMA ShownSame ==
  ASSUME NEW f \in PeerMaps, NEW g \in PeerMaps, NEW q \in Seq(EventSet)
  PROVE  /\ Shown(f, q) \in PeerMaps
         /\ \A x : SameAt(f, g, x) => SameAt(Shown(f, q), Shown(g, q), x)
         /\ \A x : (x \in DOMAIN f <=> x \in DOMAIN g)
                     => (x \in DOMAIN Shown(f, q) <=> x \in DOMAIN Shown(g, q))
<1> DEFINE n == Len(q)
<1>1. n \in Nat /\ DOMAIN q = 1..n /\ \A k \in 1..n : q[k] \in EventSet
  OBVIOUS
<1> HIDE DEF n
<1>2. PICK b : Mirror!IsChain(b, n, f, q) /\ Mirror!Folded(f, q) = b[n]
  BY <1>1, Mirror!FoldChain
<1>3. PICK c : Mirror!IsChain(c, n, g, q) /\ Mirror!Folded(g, q) = c[n]
  BY <1>1, Mirror!FoldChain
<1> DEFINE Good(k) == /\ b[k] \in PeerMaps /\ c[k] \in PeerMaps
                      /\ \A x : SameAt(f, g, x) => SameAt(b[k], c[k], x)
                      /\ \A x : (x \in DOMAIN f <=> x \in DOMAIN g)
                                  => (x \in DOMAIN b[k] <=> x \in DOMAIN c[k])
           S == {k \in 0..n : Good(k)}
<1>4. 0 \in S
  BY <1>1, <1>2, <1>3 DEF Mirror!IsChain
<1>5. ASSUME NEW k \in 0..(n - 1), k \in S PROVE k + 1 \in S
  <2>1. k + 1 \in 1..n /\ k + 1 \in 0..n
    BY <1>1
  <2>2. /\ b[k + 1] = Apply(b[k], q[k + 1]) /\ c[k + 1] = Apply(c[k], q[k + 1])
        /\ q[k + 1] \in EventSet
    BY <1>1, <1>2, <1>3, <2>1 DEF Mirror!IsChain
  <2>3. Good(k)
    BY <1>5
  <2>4. b[k + 1] \in PeerMaps /\ c[k + 1] \in PeerMaps
    BY <2>2, <2>3, ApplyType
  <2>5. ASSUME NEW x, SameAt(f, g, x) PROVE SameAt(b[k + 1], c[k + 1], x)
    <3>1. SameAt(b[k], c[k], x)
      BY <2>3, <2>5
    <3> QED
      BY <2>2, <2>3, <3>1, ApplySame
  <2>6. ASSUME NEW x, x \in DOMAIN f <=> x \in DOMAIN g
        PROVE  x \in DOMAIN b[k + 1] <=> x \in DOMAIN c[k + 1]
    <3>1. x \in DOMAIN b[k] <=> x \in DOMAIN c[k]
      BY <2>3, <2>6
    <3> QED
      BY <2>2, <2>3, <3>1, ApplyMember
  <2>7. Good(k + 1)
    BY <2>4, <2>5, <2>6
  <2> QED
    <3> HIDE DEF Good
    <3> QED
      BY <2>1, <2>7
<1>6. 0..n \subseteq S
  <2> HIDE DEF S
  <2> QED
    BY <1>1, <1>4, <1>5, Mirror!Induction
<1>7. Good(n)
  <2>1. n \in S
    <3> HIDE DEF S
    <3> QED
      BY <1>1, <1>6
  <2> QED
    BY <2>1
<1> QED
  BY <1>2, <1>3, <1>7, ShownIs

-----------------------------------------------------------------------------
(* Events that wait.  What is left of them after some. *)
LEMMA RestIs ==
  ASSUME NEW q \in Seq(EventSet), NEW i \in 0..Len(q)
  PROVE  Rest(q, i) \in Seq(EventSet) /\ Len(Rest(q, i)) = Len(q) - i
<1>1. Len(q) - i \in Nat /\ \A k \in 1..(Len(q) - i) : q[k + i] \in EventSet
  <2>1. \A k \in 1..(Len(q) - i) : k + i \in 1..Len(q)
    OBVIOUS
  <2> QED
    BY <2>1
<1> QED
  BY <1>1 DEF Rest

(* One event more. *)
LEMMA ShownAppend ==
  ASSUME NEW d, NEW q \in Seq(EventSet), NEW e \in EventSet
  PROVE  Shown(d, Append(q, e)) = Apply(Shown(d, q), e)
BY ShownIs, Mirror!FoldAppend

LEMMA ShownNone == ASSUME NEW d PROVE Shown(d, <<>>) = d
BY ShownIs, Mirror!FoldEmpty

(* The first event handled, the others are left. *)
LEMMA ShownHead ==
  ASSUME NEW d, NEW q \in Seq(EventSet), q # <<>>
  PROVE  Shown(d, q) = Shown(Apply(d, Head(q)), Tail(q))
<1> DEFINE n == Len(q) - 1
           r == Tail(q)
           f == Apply(d, Head(q))
<1>1. /\ n \in Nat /\ n + 1 = Len(q) /\ DOMAIN q = 1..(n + 1) /\ DOMAIN r = 1..n
      /\ Head(q) = q[1]
  BY EmptySeq
<1>2. \A k \in 1..n : r[k] = q[k + 1]
  OBVIOUS
<1>3. f = Apply(d, q[1])
  BY <1>1
<1> HIDE DEF n, r, f
<1>4. PICK c : Mirror!IsChain(c, n + 1, d, q) /\ Mirror!Folded(d, q) = c[n + 1]
  BY <1>1, Mirror!FoldChain
<1>5. PICK b : Mirror!IsChain(b, n, f, r) /\ Mirror!Folded(f, r) = b[n]
  BY <1>1, Mirror!FoldChain
<1> DEFINE a == [k \in 0..n |-> c[k + 1]]
<1>6. Mirror!IsChain(a, n, f, r)
  <2>1. a[0] = f
    <3>1. 0 \in 0..n /\ 0 \in 0..((n + 1) - 1) /\ 0 + 1 = 1
      BY <1>1
    <3>2. c[1] = Apply(c[0], q[1]) /\ c[0] = d
      BY <1>4, <3>1 DEF Mirror!IsChain
    <3> QED
      BY <1>3, <3>1, <3>2
  <2>2. ASSUME NEW k \in 0..(n - 1) PROVE a[k + 1] = Apply(a[k], r[k + 1])
    <3>1. k \in 0..n /\ k + 1 \in 0..n /\ k + 1 \in 1..n /\ k + 1 \in 0..((n + 1) - 1)
      BY <1>1
    <3>2. c[(k + 1) + 1] = Apply(c[k + 1], q[(k + 1) + 1])
      BY <1>4, <3>1 DEF Mirror!IsChain
    <3> QED
      BY <1>2, <3>1, <3>2
  <2>3. DOMAIN a = 0..n
    OBVIOUS
  <2> HIDE DEF a
  <2> QED
    BY <2>1, <2>2, <2>3 DEF Mirror!IsChain
<1>7. a[n] = c[n + 1]
  <2>1. n \in 0..n
    BY <1>1
  <2> QED
    BY <2>1
<1> HIDE DEF a
<1>8. b[n] = a[n]
  BY <1>1, <1>5, <1>6, Mirror!ChainsAgree
<1>9. Mirror!Folded(d, q) = Mirror!Folded(f, r)
  BY <1>4, <1>5, <1>7, <1>8
<1> QED
  BY <1>9, ShownIs DEF f, r

(* Nobody is misled by no event. *)
LEMMA SettledNone == ASSUME NEW d PROVE Settled(d, <<>>)
<1> DEFINE q == <<>>
<1>1. q \in Seq(EventSet) /\ Len(q) = 0
  OBVIOUS
<1> HIDE DEF q
<1>2. ASSUME NEW i \in 0..Len(q) PROVE Rest(q, i) = <<>>
  <2>1. i = 0
    BY <1>1
  <2>2. Rest(q, i) \in Seq(EventSet) /\ Len(Rest(q, i)) = Len(q) - i
    BY <1>1, RestIs
  <2>3. Len(Rest(q, i)) = 0
    BY <1>1, <2>1, <2>2
  <2> QED
    BY <2>2, <2>3, EmptySeq
<1>3. Settled(d, q)
  BY <1>2, ShownNone DEF Settled
<1> QED
  BY <1>3 DEF q

(* All of them together change nothing. *)
LEMMA SettledNow ==
  ASSUME NEW d, NEW q \in Seq(EventSet), Settled(d, q)
  PROVE  Shown(d, q) = d
<1>1. Len(q) \in Nat /\ 0 \in 0..Len(q)
  OBVIOUS
<1>2. Rest(q, 0) = q
  <2>1. Rest(q, 0) \in Seq(EventSet) /\ Len(Rest(q, 0)) = Len(q)
    BY <1>1, RestIs
  <2>2. \A k \in 1..Len(q) : Rest(q, 0)[k] = q[k]
    BY DEF Rest
  <2> QED
    BY <2>1, <2>2, SeqEqual
<1> QED
  BY <1>1, <1>2 DEF Settled

LEMMA SettledTail ==
  ASSUME NEW d, NEW q \in Seq(EventSet), q # <<>>, Settled(d, q)
  PROVE  Settled(d, Tail(q))
<1>1. Tail(q) \in Seq(EventSet) /\ Len(Tail(q)) = Len(q) - 1 /\ Len(q) \in Nat
  OBVIOUS
<1>2. ASSUME NEW i \in 0..Len(Tail(q)) PROVE Shown(d, Rest(Tail(q), i)) = d
  <2>1. i + 1 \in 0..Len(q)
    BY <1>1
  <2>2. /\ Rest(Tail(q), i) \in Seq(EventSet) /\ Len(Rest(Tail(q), i)) = Len(Tail(q)) - i
        /\ Rest(q, i + 1) \in Seq(EventSet) /\ Len(Rest(q, i + 1)) = Len(q) - (i + 1)
    BY <1>1, <2>1, RestIs
  <2>3. ASSUME NEW k \in 1..(Len(q) - (i + 1))
        PROVE  Rest(Tail(q), i)[k] = Rest(q, i + 1)[k]
    <3>1. k \in 1..(Len(Tail(q)) - i) /\ k + i \in 1..Len(Tail(q))
      BY <1>1
    <3>2. Rest(Tail(q), i)[k] = Tail(q)[k + i] /\ Rest(q, i + 1)[k] = q[k + (i + 1)]
      BY <3>1 DEF Rest
    <3>3. Tail(q)[k + i] = q[(k + i) + 1]
      BY <1>1, <3>1
    <3> QED
      BY <3>2, <3>3
  <2>4. Rest(Tail(q), i) = Rest(q, i + 1)
    BY <1>1, <2>2, <2>3, SeqEqual
  <2> QED
    BY <2>1, <2>4 DEF Settled
<1> QED
  BY <1>2 DEF Settled

(* An event comes to what the room became of it, wherever the others leave off. *)
LEMMA SettledAppend ==
  ASSUME NEW d \in PeerMaps, NEW q \in Seq(EventSet), NEW e \in EventSet, Settled(d, q),
         e.kind = "selected" => e.of \in DOMAIN d
  PROVE  Settled(Apply(d, e), Append(q, e))
<1> DEFINE f == Apply(d, e)
           r == Append(q, e)
<1>1. f \in PeerMaps
  BY ApplyType
<1>2. r \in Seq(EventSet) /\ Len(r) = Len(q) + 1 /\ Len(q) \in Nat
  OBVIOUS
<1>3. ASSUME NEW i \in 0..Len(q) PROVE Shown(f, Rest(r, i)) = f
  <2> DEFINE s == Rest(q, i)
             g == Shown(f, s)
  <2>1. s \in Seq(EventSet) /\ Len(s) = Len(q) - i
    BY RestIs
  <2>2. Rest(r, i) = Append(s, e)
    <3>1. i \in 0..Len(r)
      BY <1>2
    <3>2. Rest(r, i) \in Seq(EventSet) /\ Len(Rest(r, i)) = Len(r) - i
      BY <1>2, <3>1, RestIs
    <3>3. Append(s, e) \in Seq(EventSet) /\ Len(Append(s, e)) = Len(r) - i
      BY <1>2, <2>1
    <3>4. ASSUME NEW k \in 1..(Len(r) - i) PROVE Rest(r, i)[k] = Append(s, e)[k]
      <4>1. Rest(r, i)[k] = r[k + i]
        BY DEF Rest
      <4>2. CASE k = Len(q) - i + 1
        <5>1. r[k + i] = e /\ Append(s, e)[k] = e
          BY <1>2, <2>1, <4>2
        <5> QED
          BY <4>1, <5>1
      <4>3. CASE k # Len(q) - i + 1
        <5>1. k \in 1..(Len(q) - i) /\ k + i \in 1..Len(q)
          BY <1>2, <4>3
        <5>2. r[k + i] = q[k + i] /\ Append(s, e)[k] = s[k]
          BY <2>1, <5>1
        <5>3. s[k] = q[k + i]
          BY <5>1 DEF Rest
        <5> QED
          BY <4>1, <5>2, <5>3
      <4> QED
        BY <4>2, <4>3
    <3> HIDE DEF s, r
    <3> QED
      BY <3>2, <3>3, <3>4, SeqEqual
  <2>3. Shown(f, Rest(r, i)) = Apply(g, e)
    BY <2>1, <2>2, ShownAppend
  <2>4. Shown(d, s) = d
    BY DEF Settled
  <2>5. /\ g \in PeerMaps
        /\ \A x : SameAt(f, d, x) => SameAt(g, d, x)
        /\ \A x : (x \in DOMAIN f <=> x \in DOMAIN d)
                    => (x \in DOMAIN g <=> x \in DOMAIN d)
    <3> HIDE DEF s, f
    <3> QED
      BY <1>1, <2>1, <2>4, ShownSame
  <2>6. Apply(g, e) \in PeerMaps
    <3> HIDE DEF g
    <3> QED
      BY <2>5, ApplyType
  <2>7. ASSUME NEW x \in Nat, x # e.of PROVE SameAt(Apply(g, e), f, x)
    <3>1. SameAt(f, d, x)
      BY <2>7, ApplyElsewhere
    <3> HIDE DEF g, f
    <3>2. SameAt(g, d, x)
      BY <2>5, <3>1
    <3>3. SameAt(Apply(g, e), g, x)
      BY <2>5, <2>7, ApplyElsewhere
    <3> QED
      BY <3>1, <3>2, <3>3 DEF SameAt
  <2>8. SameAt(Apply(g, e), f, e.of)
    <3>1. CASE e.kind = "joined"
      <4>1. Apply(g, e) = With(g, e.of, 0) /\ f = With(d, e.of, 0)
        BY <3>1 DEF Apply
      <4> HIDE DEF g, f
      <4> QED
        BY <4>1 DEF SameAt, With
    <3>2. CASE e.kind = "left"
      <4>1. Apply(g, e) = Without(g, e.of) /\ f = Without(d, e.of)
        BY <3>2 DEF Apply
      <4> HIDE DEF g, f
      <4> QED
        BY <4>1 DEF SameAt, Without
    <3>3. CASE e.kind = "selected"
      <4>1. f = [d EXCEPT ![e.of] = e.sel]
        BY <3>3 DEF Apply
      <4>2. DOMAIN f = DOMAIN d /\ f[e.of] = e.sel
        BY <3>3, <4>1
      <4>3. e.of \in DOMAIN g
        <5> HIDE DEF g, f
        <5> QED
          BY <2>5, <3>3, <4>2
      <4>4. Apply(g, e) = [g EXCEPT ![e.of] = e.sel]
        <5> HIDE DEF g
        <5> QED
          BY <3>3, <4>3 DEF Apply
      <4> HIDE DEF g, f
      <4>5. e.of \in DOMAIN Apply(g, e) /\ Apply(g, e)[e.of] = e.sel
        BY <4>3, <4>4
      <4> QED
        BY <3>3, <4>2, <4>5 DEF SameAt
    <3> QED
      BY <3>1, <3>2, <3>3 DEF EventSet
  <2>9. \A x \in Nat : SameAt(Apply(g, e), f, x)
    BY <2>7, <2>8
  <2> HIDE DEF g, f
  <2> QED
    BY <1>1, <2>3, <2>6, <2>9, SameMap
<1>4. Shown(f, Rest(r, Len(r))) = f
  <2>1. Len(r) \in 0..Len(r)
    BY <1>2
  <2>2. Rest(r, Len(r)) \in Seq(EventSet) /\ Len(Rest(r, Len(r))) = 0
    <3> HIDE DEF r
    <3>1. Rest(r, Len(r)) \in Seq(EventSet) /\ Len(Rest(r, Len(r))) = Len(r) - Len(r)
      BY <1>2, <2>1, RestIs
    <3> QED
      BY <1>2, <3>1
  <2>3. Rest(r, Len(r)) = <<>>
    BY <2>2, EmptySeq
  <2> QED
    BY <2>3, ShownNone
<1>5. \A i \in 0..Len(r) : i \in 0..Len(q) \/ i = Len(r)
  BY <1>2
<1> HIDE DEF f, r
<1>6. Settled(f, r)
  BY <1>3, <1>4, <1>5 DEF Settled
<1> QED
  BY <1>6 DEF f, r

-----------------------------------------------------------------------------
(* The server's operators. *)

(* What an event does to the buffers: it is appended, or ends the session. *)
LEMMA PushIs ==
  ASSUME NEW ss \in Seq(SessionSet), NEW e \in EventSet, NEW to,
         NEW ts, ts = Push(ss, e, to)
  PROVE  /\ ts \in Seq(SessionSet) /\ Len(ts) = Len(ss)
         /\ \A s \in 1..Len(ss) :
              /\ ts[s].listed = ss[s].listed
              /\ ss[s].done => ts[s].done
              /\ \/ ts[s].events = ss[s].events /\ (s \notin to \/ ts[s].done)
                 \/ s \in to /\ ts[s].events = Append(ss[s].events, e)
<1>1. /\ Len(ss) \in Nat /\ DOMAIN ss = 1..Len(ss)
      /\ \A s \in 1..Len(ss) : ss[s] \in SessionSet
  OBVIOUS
<1>2. /\ ts = [s \in 1..Len(ss) |-> ts[s]]
      /\ \A s \in 1..Len(ss) :
           ts[s] = IF s \notin to THEN ss[s]
                   ELSE IF Len(ss[s].events) < EventBuffer
                   THEN [ss[s] EXCEPT !.events = Append(@, e)]
                   ELSE [ss[s] EXCEPT !.done = TRUE]
  BY <1>1 DEF Push
<1>3. ASSUME NEW s \in 1..Len(ss)
      PROVE  /\ ts[s] \in SessionSet
             /\ ts[s].listed = ss[s].listed
             /\ ss[s].done => ts[s].done
             /\ \/ ts[s].events = ss[s].events /\ (s \notin to \/ ts[s].done)
                \/ s \in to /\ ts[s].events = Append(ss[s].events, e)
  <2>1. ss[s] \in SessionSet
    BY <1>1
  <2>2. ss[s].events \in Seq(EventSet)
    BY <2>1 DEF SessionSet
  <2>3. Append(ss[s].events, e) \in Seq(EventSet)
    BY <2>2
  <2>4. CASE s \notin to
    BY <1>2, <2>1, <2>4
  <2>5. CASE s \in to /\ Len(ss[s].events) < EventBuffer
    <3>1. ts[s] = [ss[s] EXCEPT !.events = Append(ss[s].events, e)]
      BY <1>2, <2>5
    <3> QED
      BY <2>1, <2>3, <2>5, <3>1 DEF SessionSet
  <2>6. CASE s \in to /\ ~(Len(ss[s].events) < EventBuffer)
    <3>1. ts[s] = [ss[s] EXCEPT !.done = TRUE]
      BY <1>2, <2>6
    <3> QED
      BY <2>1, <2>6, <3>1 DEF SessionSet
  <2> QED
    BY <2>4, <2>5, <2>6
<1>4. ts \in Seq(SessionSet) /\ Len(ts) = Len(ss)
  BY <1>1, <1>2, <1>3
<1> QED
  BY <1>3, <1>4

(* The event says of client x what the room becomes for all others in it. *)
Says(v, x, e, P) ==
  /\ x \in Nat /\ e \in EventSet /\ e.of = x
  /\ P \in PeerMaps /\ DOMAIN P \subseteq 1..Len(v.sess)
  /\ \A s \in DOMAIN v.peers \ {x} :
       s \in DOMAIN P /\ Without(P, s) = Apply(Without(v.peers, s), e)
  /\ e.kind = "selected" => x \in DOMAIN v.peers
  /\ DOMAIN P \ {x} \subseteq DOMAIN v.peers
  /\ x \in DOMAIN v.peers /\ ~v.sess[x].done =>
       x \in DOMAIN P /\ Without(P, x) = Without(v.peers, x)

(* Such a change, told to them. *)
Telling(v, x, e, P) ==
  [sess |-> Push(v.sess, e, DOMAIN v.peers \ {x}), peers |-> P]

LEMMA Told ==
  ASSUME NEW v, ServerFits(v), NEW x, NEW e, NEW P, Says(v, x, e, P),
         NEW w, w = Telling(v, x, e, P)
  PROVE  /\ ServerFits(w) /\ Kept(v, w) /\ Len(w.sess) = Len(v.sess)
         /\ \A s \in 1..Len(v.sess) : w.sess[s].listed = v.sess[s].listed
<1>0. /\ x \in Nat /\ e \in EventSet /\ e.of = x
      /\ P \in PeerMaps /\ DOMAIN P \subseteq 1..Len(v.sess)
      /\ \A s \in DOMAIN v.peers \ {x} :
           s \in DOMAIN P /\ Without(P, s) = Apply(Without(v.peers, s), e)
      /\ e.kind = "selected" => x \in DOMAIN v.peers
      /\ DOMAIN P \ {x} \subseteq DOMAIN v.peers
      /\ x \in DOMAIN v.peers /\ ~v.sess[x].done =>
           x \in DOMAIN P /\ Without(P, x) = Without(v.peers, x)
  BY DEF Says
<1> USE <1>0
<1> DEFINE to == DOMAIN v.peers \ {x}
<1>1. w.sess = Push(v.sess, e, to) /\ w.peers = P /\ w = [sess |-> w.sess, peers |-> w.peers]
  BY DEF Telling
<1>2. v.sess \in Seq(SessionSet) /\ v.peers \in PeerMaps /\ DOMAIN v.peers \subseteq 1..Len(v.sess)
  BY DEF ServerFits, ServerTypes
<1> HIDE DEF to
<1>3. /\ w.sess \in Seq(SessionSet) /\ Len(w.sess) = Len(v.sess)
      /\ \A s \in 1..Len(v.sess) :
           /\ w.sess[s].listed = v.sess[s].listed
           /\ v.sess[s].done => w.sess[s].done
           /\ \/ w.sess[s].events = v.sess[s].events /\ (s \notin to \/ w.sess[s].done)
              \/ s \in to /\ w.sess[s].events = Append(v.sess[s].events, e)
  <2> DEFINE ss == v.sess
             ts == w.sess
  <2>1. ss \in Seq(SessionSet) /\ ts = Push(ss, e, to)
    BY <1>1, <1>2
  <2> HIDE DEF ss, ts
  <2>2. /\ ts \in Seq(SessionSet) /\ Len(ts) = Len(ss)
        /\ \A s \in 1..Len(ss) :
             /\ ts[s].listed = ss[s].listed
             /\ ss[s].done => ts[s].done
             /\ \/ ts[s].events = ss[s].events /\ (s \notin to \/ ts[s].done)
                \/ s \in to /\ ts[s].events = Append(ss[s].events, e)
    BY <2>1, PushIs
  <2> QED
    BY <2>2 DEF ss, ts
<1>4. ServerTypes(w)
  BY <1>1, <1>3 DEF ServerTypes
<1>5. ASSUME NEW s \in 1..Len(v.sess) PROVE MailFits(w, s) /\ KeptFor(v, w, s)
  <2> DEFINE old == v.sess[s].events
             new == w.sess[s].events
  <2>0. v.sess[s] \in SessionSet
    BY <1>2
  <2>1. /\ old \in Seq(EventSet) /\ MailFits(v, s)
        /\ v.sess[s].done => w.sess[s].done
    BY <1>3, <2>0 DEF ServerFits, SessionSet
  <2>2. \A i \in 1..Len(new) : new[i].of # s
    <3>1. CASE new = old
      BY <2>1, <3>1 DEF MailFits
    <3>2. CASE s \in to /\ new = Append(old, e)
      <4>1. s # x
        BY <3>2 DEF to
      <4>2. \A i \in 1..Len(old) : old[i].of # s
        BY <2>1 DEF MailFits
      <4>3. Len(new) = Len(old) + 1 /\ Len(old) \in Nat
        BY <2>1, <3>2
      <4>4. ASSUME NEW i \in 1..Len(new) PROVE new[i] = e \/ \E j \in 1..Len(old) : new[i] = old[j]
        <5> HIDE DEF old, new
        <5>1. i = Len(old) + 1 \/ i \in 1..Len(old)
          BY <4>3
        <5>2. CASE i = Len(old) + 1
          BY <2>1, <3>2, <5>2
        <5>3. CASE i \in 1..Len(old)
          <6>1. new[i] = old[i]
            BY <2>1, <3>2, <5>3
          <6> QED
            BY <5>3, <6>1
        <5> QED
          BY <5>1, <5>2, <5>3
      <4> HIDE DEF old, new
      <4> QED
        BY <4>1, <4>2, <4>4
    <3> QED
      BY <1>3, <3>1, <3>2
  <2>3. CASE w.sess[s].done
    BY <2>1, <2>2, <2>3 DEF MailFits, KeptFor
  <2>4. CASE ~w.sess[s].done /\ s \in to
    <3>1. new = Append(old, e) /\ ~v.sess[s].done
      BY <1>3, <2>1, <2>4
    <3>2. s \in DOMAIN v.peers /\ s # x
      BY <2>4 DEF to
    <3>3. s \in DOMAIN P /\ Without(P, s) = Apply(Without(v.peers, s), e)
      BY <3>2
    <3>4. Settled(Without(v.peers, s), old)
      BY <2>1, <3>1, <3>2 DEF MailFits
    <3>5. e.kind = "selected" => e.of \in DOMAIN Without(v.peers, s)
      BY <3>2 DEF Without
    <3>6. Without(v.peers, s) \in PeerMaps
      BY <1>2, WithoutType
    <3>7. Settled(Without(P, s), new)
      <4> HIDE DEF old, new
      <4> QED
        BY <2>1, <3>1, <3>3, <3>4, <3>5, <3>6, SettledAppend
    <3>8. ASSUME NEW d \in PeerMaps, Follows(v, s, d) PROVE Follows(w, s, d)
      <4>1. Shown(d, old) = Without(v.peers, s)
        BY <3>8 DEF Follows
      <4>2. Shown(d, new) = Apply(Shown(d, old), e)
        <5> HIDE DEF old, new
        <5> QED
          BY <2>1, <3>1, ShownAppend
      <4> QED
        BY <1>1, <3>3, <4>1, <4>2 DEF Follows
    <3> QED
      BY <1>1, <2>1, <2>2, <3>2, <3>3, <3>7, <3>8 DEF MailFits, KeptFor
  <2>5. CASE ~w.sess[s].done /\ s \notin to
    <3>1. new = old /\ ~v.sess[s].done
      BY <1>3, <2>1, <2>5
    <3>2. CASE s = x /\ x \in DOMAIN v.peers
      <4>1. x \in DOMAIN P /\ Without(P, s) = Without(v.peers, s)
        BY <3>1, <3>2
      <4>2. Settled(Without(P, s), new)
        BY <2>1, <3>1, <3>2, <4>1 DEF MailFits
      <4>3. \A d \in PeerMaps : Follows(v, s, d) => Follows(w, s, d)
        BY <1>1, <3>1, <4>1 DEF Follows
      <4> QED
        BY <1>1, <2>1, <2>2, <3>2, <4>1, <4>2, <4>3 DEF MailFits, KeptFor
    <3>3. CASE s = x /\ x \notin DOMAIN v.peers
      <4>1. new = <<>>
        BY <2>1, <3>1, <3>3 DEF MailFits
      <4>2. Settled(Without(P, s), new)
        BY <4>1, SettledNone
      <4> QED
        BY <1>1, <2>1, <2>2, <3>3, <4>1, <4>2 DEF MailFits, KeptFor
    <3>4. CASE s # x
      <4>1. s \notin DOMAIN v.peers /\ s \notin DOMAIN P
        BY <2>5, <3>4 DEF to
      <4>2. new = <<>>
        BY <2>1, <3>1, <4>1 DEF MailFits
      <4> QED
        BY <1>1, <2>1, <2>2, <4>1, <4>2 DEF MailFits, KeptFor
    <3> QED
      BY <3>2, <3>3, <3>4
  <2> QED
    BY <2>3, <2>4, <2>5
<1>6. Len(v.sess) <= Len(w.sess)
  BY <1>2, <1>3
<1> QED
  BY <1>3, <1>4, <1>5, <1>6 DEF ServerFits, Kept

(* Streams, idleness and ends are nobody else's business. *)
LEMMA Untold ==
  ASSUME NEW v, ServerFits(v), NEW ss \in Seq(SessionSet), Len(ss) = Len(v.sess),
         \A s \in 1..Len(v.sess) : /\ ss[s].events = v.sess[s].events
                                   /\ v.sess[s].done => ss[s].done,
         NEW w, w = [sess |-> ss, peers |-> v.peers]
  PROVE  ServerFits(w) /\ Kept(v, w)
<1>1. w.sess = ss /\ w.peers = v.peers /\ w = [sess |-> w.sess, peers |-> w.peers]
  OBVIOUS
<1>2. ServerTypes(w)
  BY <1>1 DEF ServerFits, ServerTypes
<1>3. ASSUME NEW s \in 1..Len(v.sess) PROVE MailFits(w, s) /\ KeptFor(v, w, s)
  <2>1. MailFits(v, s)
    BY DEF ServerFits
  <2>2. MailFits(w, s)
    BY <1>1, <2>1 DEF MailFits
  <2>3. KeptFor(v, w, s)
    BY <1>1 DEF KeptFor, Follows
  <2> QED
    BY <2>2, <2>3
<1>4. Len(ss) \in Nat
  OBVIOUS
<1> QED
  BY <1>1, <1>2, <1>3, <1>4 DEF ServerFits, Kept

(* One after the other. *)
LEMMA KeptTwice ==
  ASSUME NEW u, NEW v, NEW w, Kept(u, v), Kept(v, w), Len(u.sess) \in Nat,
         Len(v.sess) \in Nat, Len(w.sess) \in Nat
  PROVE  Kept(u, w)
<1>1. ASSUME NEW s \in 1..Len(u.sess) PROVE KeptFor(u, w, s)
  <2>1. s \in 1..Len(v.sess)
    BY DEF Kept
  <2>2. KeptFor(u, v, s) /\ KeptFor(v, w, s)
    BY <2>1 DEF Kept
  <2> QED
    BY <2>2 DEF KeptFor
<1> QED
  BY <1>1 DEF Kept

(* What every operator of the server but a join does. *)
Served(v, w) ==
  ServerFits(w) /\ Kept(v, w) /\ Lists(v, w) /\ Len(w.sess) = Len(v.sess)

LEMMA ServedTwice ==
  ASSUME NEW u, NEW v, NEW w, ServerFits(u), Served(u, v), Served(v, w)
  PROVE  Served(u, w)
<1>1. Len(u.sess) \in Nat /\ Len(v.sess) \in Nat /\ Len(w.sess) \in Nat
  BY DEF Served, ServerFits, ServerTypes
<1>2. Kept(u, w)
  BY <1>1, KeptTwice DEF Served
<1> QED
  BY <1>2 DEF Served, Lists

LEMMA ServedSame == ASSUME NEW v, ServerFits(v) PROVE Served(v, v)
<1>1. Len(v.sess) \in Nat
  BY DEF ServerFits, ServerTypes
<1> QED
  BY <1>1 DEF Served, Kept, KeptFor, Lists

(* The room as the others see it. *)
LEMMA EnterMap ==
  ASSUME NEW P \in PeerMaps, NEW x \in Nat, NEW s, s # x
  PROVE  Without(With(P, x, 0), s) = With(Without(P, s), x, 0)
<1>1. (DOMAIN P \cup {x}) \ {s} = (DOMAIN P \ {s}) \cup {x}
  OBVIOUS
<1> QED
  BY <1>1 DEF With, Without

LEMMA ExitMap ==
  ASSUME NEW P \in PeerMaps, NEW x, NEW s
  PROVE  Without(Without(P, x), s) = Without(Without(P, s), x)
<1>1. (DOMAIN P \ {x}) \ {s} = (DOMAIN P \ {s}) \ {x}
  OBVIOUS
<1> QED
  BY <1>1 DEF Without

LEMMA SelectMap ==
  ASSUME NEW P \in PeerMaps, NEW x \in DOMAIN P, NEW s, s # x, NEW n \in Nat
  PROVE  Without([P EXCEPT ![x] = n], s) = [Without(P, s) EXCEPT ![x] = n]
BY PeerMap DEF Without

LEMMA SelectOwnMap ==
  ASSUME NEW P \in PeerMaps, NEW x \in DOMAIN P, NEW n \in Nat
  PROVE  Without([P EXCEPT ![x] = n], x) = Without(P, x)
BY PeerMap DEF Without

(* Hub.Join. *)
LEMMA Entered ==
  ASSUME NEW v, ServerFits(v), NEW x \in 1..Len(v.sess), NEW w, w = Enter(v, x)
  PROVE  /\ ServerFits(w) /\ Kept(v, w) /\ Len(w.sess) = Len(v.sess)
         /\ x \in DOMAIN w.peers
         /\ v.sess[x].listed => Lists(v, w)
<1>0. /\ v = [sess |-> v.sess, peers |-> v.peers]
      /\ v.peers \in PeerMaps /\ DOMAIN v.peers \subseteq 1..Len(v.sess)
      /\ v.sess \in Seq(SessionSet)
  BY DEF ServerFits, ServerTypes
<1>1. CASE x \in DOMAIN v.peers
  <2>1. w = v
    BY <1>1 DEF Enter
  <2>2. Served(v, v)
    BY ServedSame
  <2> QED
    BY <1>1, <2>1, <2>2 DEF Served
<1>2. CASE x \notin DOMAIN v.peers
  <2> DEFINE e == [kind |-> "joined", of |-> x, sel |-> 0]
             P == With(v.peers, x, 0)
  <2>1. w = [Tell(v, x, "joined", 0) EXCEPT !.peers = With(@, x, 0)]
    BY <1>2 DEF Enter
  <2>2. Tell(v, x, "joined", 0)
          = [sess |-> Push(v.sess, e, DOMAIN v.peers \ {x}), peers |-> v.peers]
    BY <1>0 DEF Tell
  <2>3. w = [sess |-> Push(v.sess, e, DOMAIN v.peers \ {x}), peers |-> P]
    BY <2>1, <2>2
  <2>4. e \in EventSet /\ e.of = x /\ e.kind = "joined" /\ x \in Nat
    BY DEF EventSet
  <2>5. P \in PeerMaps
    BY <1>0, WithType
  <2>6. DOMAIN P = DOMAIN v.peers \cup {x}
    BY DEF With
  <2>7. ASSUME NEW s \in DOMAIN v.peers \ {x}
        PROVE  Without(P, s) = Apply(Without(v.peers, s), e)
    <3>1. Apply(Without(v.peers, s), e) = With(Without(v.peers, s), x, 0)
      BY <2>4 DEF Apply
    <3> QED
      BY <1>0, <3>1, EnterMap
  <2> HIDE DEF e, P
  <2>8. /\ ServerFits(w) /\ Kept(v, w) /\ Len(w.sess) = Len(v.sess)
        /\ \A s \in 1..Len(v.sess) : w.sess[s].listed = v.sess[s].listed
    <3>1. Says(v, x, e, P)
      BY <1>0, <1>2, <2>4, <2>5, <2>6, <2>7 DEF Says
    <3>2. w = Telling(v, x, e, P)
      BY <2>3 DEF Telling
    <3> QED
      BY <3>1, <3>2, Told
  <2>9. w.peers = P
    BY <2>3
  <2>10. v.sess[x].listed => Lists(v, w)
    BY <1>0, <2>6, <2>8, <2>9 DEF Lists, AllListed
  <2> QED
    BY <2>6, <2>8, <2>9, <2>10
<1> QED
  BY <1>1, <1>2

(* Hub.LeaveAll, once the session is ended. *)
LEMMA Exited ==
  ASSUME NEW v, ServerFits(v), NEW x \in 1..Len(v.sess), v.sess[x].done,
         NEW w, w = Exit(v, x)
  PROVE  /\ ServerFits(w) /\ Kept(v, w) /\ Len(w.sess) = Len(v.sess)
         /\ DOMAIN w.peers = DOMAIN v.peers \ {x}
         /\ \A s \in 1..Len(v.sess) : w.sess[s].listed = v.sess[s].listed
<1>0. /\ v = [sess |-> v.sess, peers |-> v.peers]
      /\ v.peers \in PeerMaps /\ DOMAIN v.peers \subseteq 1..Len(v.sess)
  BY DEF ServerFits, ServerTypes
<1>1. CASE x \notin DOMAIN v.peers
  <2>1. w = v
    BY <1>1 DEF Exit
  <2>2. Served(v, v)
    BY ServedSame
  <2> QED
    BY <1>1, <2>1, <2>2 DEF Served
<1>2. CASE x \in DOMAIN v.peers
  <2> DEFINE e == [kind |-> "left", of |-> x, sel |-> 0]
             P == Without(v.peers, x)
  <2>1. w = [Tell(v, x, "left", 0) EXCEPT !.peers = Without(@, x)]
    BY <1>2 DEF Exit
  <2>2. Tell(v, x, "left", 0)
          = [sess |-> Push(v.sess, e, DOMAIN v.peers \ {x}), peers |-> v.peers]
    BY <1>0 DEF Tell
  <2>3. w = [sess |-> Push(v.sess, e, DOMAIN v.peers \ {x}), peers |-> P]
    BY <2>1, <2>2
  <2>4. e \in EventSet /\ e.of = x /\ e.kind = "left" /\ x \in Nat
    BY DEF EventSet
  <2>5. P \in PeerMaps
    BY <1>0, WithoutType
  <2>6. DOMAIN P = DOMAIN v.peers \ {x}
    BY DEF Without
  <2>7. ASSUME NEW s \in DOMAIN v.peers \ {x}
        PROVE  Without(P, s) = Apply(Without(v.peers, s), e)
    <3>1. Apply(Without(v.peers, s), e) = Without(Without(v.peers, s), x)
      BY <2>4 DEF Apply
    <3> QED
      BY <1>0, <3>1, ExitMap
  <2> HIDE DEF e, P
  <2>8. /\ ServerFits(w) /\ Kept(v, w) /\ Len(w.sess) = Len(v.sess)
        /\ \A s \in 1..Len(v.sess) : w.sess[s].listed = v.sess[s].listed
    <3>1. Says(v, x, e, P)
      BY <1>0, <1>2, <2>4, <2>5, <2>6, <2>7 DEF Says
    <3>2. w = Telling(v, x, e, P)
      BY <2>3 DEF Telling
    <3> QED
      BY <3>1, <3>2, Told
  <2>9. w.peers = P
    BY <2>3
  <2> QED
    BY <2>6, <2>8, <2>9
<1> QED
  BY <1>1, <1>2

(* Hub.Presence. *)
LEMMA Selected ==
  ASSUME NEW v, ServerFits(v), NEW x \in DOMAIN v.peers, NEW n \in Nat,
         NEW w, w = Select(v, x, n)
  PROVE  Served(v, w)
<1>0. /\ v = [sess |-> v.sess, peers |-> v.peers]
      /\ v.peers \in PeerMaps /\ DOMAIN v.peers \subseteq 1..Len(v.sess)
      /\ x \in 1..Len(v.sess)
  BY DEF ServerFits, ServerTypes
<1> DEFINE e == [kind |-> "selected", of |-> x, sel |-> n]
           P == [v.peers EXCEPT ![x] = n]
<1>1. w = [Tell(v, x, "selected", n) EXCEPT !.peers = [@ EXCEPT ![x] = n]]
  BY DEF Select
<1>2. Tell(v, x, "selected", n)
        = [sess |-> Push(v.sess, e, DOMAIN v.peers \ {x}), peers |-> v.peers]
  BY <1>0 DEF Tell
<1>3. w = [sess |-> Push(v.sess, e, DOMAIN v.peers \ {x}), peers |-> P]
  BY <1>1, <1>2
<1>4. e \in EventSet /\ e.of = x /\ e.kind = "selected" /\ e.sel = n /\ x \in Nat
  BY <1>0 DEF EventSet
<1>5. P \in PeerMaps
  BY <1>0, SelectType
<1>6. DOMAIN P = DOMAIN v.peers
  OBVIOUS
<1>7. ASSUME NEW s \in DOMAIN v.peers \ {x}
      PROVE  Without(P, s) = Apply(Without(v.peers, s), e)
  <2>1. x \in DOMAIN Without(v.peers, s)
    BY DEF Without
  <2>2. Apply(Without(v.peers, s), e) = [Without(v.peers, s) EXCEPT ![x] = n]
    BY <1>4, <2>1 DEF Apply
  <2> QED
    BY <1>0, <2>2, SelectMap
<1>8. Without(P, x) = Without(v.peers, x)
  BY <1>0, SelectOwnMap
<1> HIDE DEF e, P
<1>9. /\ ServerFits(w) /\ Kept(v, w) /\ Len(w.sess) = Len(v.sess)
      /\ \A s \in 1..Len(v.sess) : w.sess[s].listed = v.sess[s].listed
  <2>1. Says(v, x, e, P)
    BY <1>0, <1>4, <1>5, <1>6, <1>7, <1>8 DEF Says
  <2>2. w = Telling(v, x, e, P)
    BY <1>3 DEF Telling
  <2> QED
    BY <2>1, <2>2, Told
<1>10. w.peers = P
  BY <1>3
<1> QED
  BY <1>0, <1>6, <1>9, <1>10 DEF Served, Lists, AllListed

(* The end of a session. *)
LEMMA Killed ==
  ASSUME NEW v, ServerFits(v), NEW x \in 1..Len(v.sess), NEW w, w = Kill(v, x)
  PROVE  /\ ServerFits(w) /\ Kept(v, w) /\ Len(w.sess) = Len(v.sess)
         /\ w.peers = v.peers /\ w.sess[x].done
         /\ \A s \in 1..Len(v.sess) : s # x => w.sess[s].listed = v.sess[s].listed
<1>0. v = [sess |-> v.sess, peers |-> v.peers] /\ v.sess \in Seq(SessionSet)
  BY DEF ServerFits, ServerTypes
<1> DEFINE ss == [v.sess EXCEPT ![x] = [@ EXCEPT !.done = TRUE, !.listed = FALSE]]
<1>1. w = [sess |-> ss, peers |-> v.peers]
  <2>1. w = [v EXCEPT !.sess = [[@ EXCEPT ![x].done = TRUE] EXCEPT ![x].listed = FALSE]]
    BY <1>0 DEF Kill
  <2> QED
    BY <1>0, <2>1
<1>2. v.sess[x] \in SessionSet
  BY <1>0
<1>3. [v.sess[x] EXCEPT !.done = TRUE, !.listed = FALSE] \in SessionSet
  BY <1>2 DEF SessionSet
<1>4. ss \in Seq(SessionSet) /\ Len(ss) = Len(v.sess)
  BY <1>0, <1>3
<1>5. \A s \in 1..Len(v.sess) :
        /\ s # x => ss[s] = v.sess[s]
        /\ s = x => ss[s] = [v.sess[x] EXCEPT !.done = TRUE, !.listed = FALSE]
  BY <1>0
<1> HIDE DEF ss
<1>7. ss[x].done /\ ss[x].events = v.sess[x].events
  BY <1>2, <1>5 DEF SessionSet
<1>6. \A s \in 1..Len(v.sess) : /\ ss[s].events = v.sess[s].events
                                /\ v.sess[s].done => ss[s].done
                                /\ s # x => ss[s].listed = v.sess[s].listed
  BY <1>5, <1>7
<1>8. ServerFits(w) /\ Kept(v, w)
  BY <1>1, <1>4, <1>6, Untold
<1> QED
  BY <1>1, <1>4, <1>6, <1>7, <1>8

(* Handler.drop. *)
LEMMA Dropped ==
  ASSUME NEW v, ServerFits(v), NEW x \in 1..Len(v.sess)
  PROVE  Served(v, DropSession(v, x))
<1> DEFINE k == Kill(v, x)
           w == Exit(k, x)
<1>1. /\ ServerFits(k) /\ Kept(v, k) /\ Len(k.sess) = Len(v.sess)
      /\ k.peers = v.peers /\ k.sess[x].done
      /\ \A s \in 1..Len(v.sess) : s # x => k.sess[s].listed = v.sess[s].listed
  BY Killed
<1> HIDE DEF k
<1>2. /\ ServerFits(w) /\ Kept(k, w) /\ Len(w.sess) = Len(k.sess)
      /\ DOMAIN w.peers = DOMAIN k.peers \ {x}
      /\ \A s \in 1..Len(k.sess) : w.sess[s].listed = k.sess[s].listed
  BY <1>1, Exited
<1>3. DropSession(v, x) = w
  BY DEF DropSession, k
<1> HIDE DEF w
<1>4. Len(v.sess) \in Nat /\ DOMAIN v.peers \subseteq 1..Len(v.sess)
  BY DEF ServerFits, ServerTypes
<1>5. Kept(v, w)
  BY <1>1, <1>2, <1>4, KeptTwice
<1>6. Lists(v, w)
  BY <1>1, <1>2, <1>4 DEF Lists, AllListed
<1> QED
  BY <1>1, <1>2, <1>3, <1>5, <1>6 DEF Served

(* Handler.expireIdle: one idle session after the other. *)
LEMMA Expired ==
  ASSUME NEW v, ServerFits(v)
  PROVE  Served(v, ExpireIdle(v))
<1> DEFINE n == Len(v.sess)
           q == [s \in DOMAIN v.sess |-> s]
<1>1. n \in Nat /\ DOMAIN q = 1..n /\ \A s \in 1..n : q[s] = s
  BY DEF ServerFits, ServerTypes
<1>2. ExpireIdle(v) = Expiry!Folded(v, q)
  BY DEF ExpireIdle, Expiry!Folded, FoldLeft, MapThenFoldSet, Expiry!FoldLeft,
         Expiry!MapThenFoldSet, Expiry!Max, Max
<1> HIDE DEF q
<1>3. PICK c : Expiry!IsChain(c, n, v, q) /\ Expiry!Folded(v, q) = c[n]
  BY <1>1, Expiry!FoldChain
<1> DEFINE S == {k \in 0..n : Served(v, c[k])}
<1>4. 0 \in S
  BY <1>1, <1>3, ServedSame DEF Expiry!IsChain
<1>5. ASSUME NEW k \in 0..(n - 1), k \in S PROVE k + 1 \in S
  <2>1. k + 1 \in 1..n /\ k + 1 \in 0..n
    BY <1>1
  <2>2. c[k + 1] = ExpireOne(c[k], k + 1)
    BY <1>1, <1>3, <2>1 DEF Expiry!IsChain
  <2>3. Served(v, c[k])
    BY <1>5
  <2>4. ServerFits(c[k]) /\ k + 1 \in 1..Len(c[k].sess)
    BY <2>1, <2>3 DEF Served
  <2>5. Served(c[k], c[k + 1])
    BY <2>2, <2>4, Dropped, ServedSame DEF ExpireOne
  <2>6. Served(v, c[k + 1])
    BY <2>3, <2>5, ServedTwice
  <2> QED
    BY <2>1, <2>6
<1>6. 0..n \subseteq S
  <2> HIDE DEF S, n
  <2> QED
    BY <1>1, <1>4, <1>5, Expiry!Induction
<1>7. Served(v, c[n])
  <2>1. n \in S
    <3> HIDE DEF S
    <3> QED
      BY <1>1, <1>6
  <2> QED
    BY <2>1
<1> QED
  BY <1>2, <1>3, <1>7

-----------------------------------------------------------------------------
(* The inductive invariant. *)
CallFits(k) == k \in Underway \cup AnsweredSet /\ k.session \in 1..Len(sess)

TabFits(c) ==
  /\ tab[c].session <= Len(sess) /\ tab[c].me <= Len(sess)
  /\ tab[c].open => tab[c].session # 0

Types ==
  /\ ServerFits(Server)
  /\ tab \in [Tabs -> TabSet]
  /\ budget \in [BoundNames -> Nat]
  /\ \A k \in calls : CallFits(k)
  /\ \A c \in Tabs : TabFits(c)

(* A session is one tab's, and so are the joins under it. *)
Owned ==
  /\ \A c, d \in Tabs : tab[c].session = tab[d].session /\ tab[c].session # 0 => c = d
  /\ \A k \in calls : \A c \in Tabs : tab[c].session = k.session => k.tab = c

(* Whoever was let in is in the room, or its session is ended. *)
In(s) == s \in DOMAIN peers \/ sess[s].done

Present ==
  /\ \A k \in calls : k.phase = "answered" => In(k.session)
  /\ \A c \in Tabs : tab[c].me # 0 => In(tab[c].me)

InNext(s) == s \in DOMAIN peers' \/ sess'[s].done

(* What is shown now, or is about to be by an answer, follows the room. *)
Watch(s, d) == sess[s].done \/ Follows(Server, s, d)

WatchNext(s, d) == sess'[s].done \/ Follows(Server', s, d)

Sound ==
  mishaps \cap {"answer overtaken", "answer of an old session", "frame lost"} = {}

CallsFollow ==
  \A k \in calls : k.phase = "answered" => Watch(k.session, Without(k.peers, k.session))

TabsFollow ==
  \A c \in Tabs : tab[c].me # 0 /\ tab[c].me = tab[c].session =>
    Watch(tab[c].me, tab[c].remote)

HttpInv ==
  /\ Types /\ Owned /\ Present
  /\ Sound => CallsFollow /\ TabsFollow
  /\ NobodyLeftBehindIfCoped

-----------------------------------------------------------------------------
(* The room goes on being followed. *)
LEMMA WatchKept ==
  ASSUME Types, Kept(Server, Server'), NEW s \in 1..Len(sess), In(s)
  PROVE  /\ InNext(s)
         /\ \A d \in PeerMaps : Watch(s, d) => WatchNext(s, d)
<1>1. KeptFor(Server, Server', s)
  BY DEF Kept, Server
<1>2. /\ Server.sess = sess /\ Server.peers = peers
      /\ Server'.sess = sess' /\ Server'.peers = peers'
  BY DEF Server
<1>3. InNext(s)
  BY <1>1, <1>2 DEF KeptFor, In, InNext
<1>4. ASSUME NEW d \in PeerMaps, Watch(s, d) PROVE WatchNext(s, d)
  <2>1. CASE sess'[s].done
    BY <2>1 DEF WatchNext
  <2>2. CASE ~sess'[s].done
    <3>1. ~sess[s].done /\ s \in DOMAIN peers
      BY <1>1, <1>2, <2>2 DEF KeptFor, In
    <3>2. Follows(Server, s, d)
      BY <1>4, <3>1 DEF Watch
    <3>3. Follows(Server', s, d)
      BY <1>1, <1>2, <2>2, <3>1, <3>2 DEF KeptFor
    <3> QED
      BY <3>3 DEF WatchNext
  <2> QED
    BY <2>1, <2>2
<1> QED
  BY <1>3, <1>4

(* What a step may do to a tab, ... *)
TabStep(c) ==
  /\ \/ tab'[c].session = tab[c].session
     \/ tab'[c].session = Len(sess) + 1 /\ Len(sess') = Len(sess) + 1
  /\ tab'[c].open => tab'[c].session # 0
  /\ \/ tab'[c].me = 0
     \/ tab'[c].me = tab[c].me /\ tab'[c].remote = tab[c].remote
     \/ /\ tab'[c].me \in 1..Len(sess) /\ InNext(tab'[c].me)
        /\ Sound' /\ tab'[c].me = tab'[c].session =>
             WatchNext(tab'[c].me, tab'[c].remote)

(* ... and which joins there are after it. *)
Origin(k) ==
  \/ \E c \in Tabs : k.tab = c /\ k.session = tab[c].session /\ k.session # 0
  \/ \E j \in calls : k.tab = j.tab /\ k.session = j.session

CallStep(k) ==
  \/ k \in calls
  \/ k \in Underway /\ Origin(k)
  \/ k \in AnsweredSet /\ Origin(k) /\ InNext(k.session)
       /\ (Sound' => WatchNext(k.session, Without(k.peers, k.session)))

HttpStep ==
  /\ ServerFits(Server') /\ Kept(Server, Server')
  /\ Lists(Server, Server') \/ "closed while joining" \in mishaps'
  /\ tab' \in [Tabs -> TabSet]
  /\ budget' \in [BoundNames -> Nat]
  /\ mishaps \subseteq mishaps'
  /\ \A c \in Tabs : TabStep(c)
  /\ \A c, d \in Tabs :
       tab'[c].session # tab[c].session /\ tab'[d].session # tab[d].session => c = d
  /\ \A k \in calls' : CallStep(k)

(* A join that is new is owned. *)
LEMMA OriginFits ==
  ASSUME HttpInv, NEW k, k \in Underway \cup AnsweredSet, Origin(k)
  PROVE  /\ CallFits(k)
         /\ \A d \in Tabs : tab[d].session = k.session => k.tab = d
<1>1. /\ tab \in [Tabs -> TabSet]
      /\ \A c \in Tabs : TabFits(c)
      /\ \A j \in calls : CallFits(j)
      /\ Owned
  BY DEF HttpInv, Types
<1>2. CASE \E c \in Tabs : k.tab = c /\ k.session = tab[c].session /\ k.session # 0
  <2>1. PICK c \in Tabs : k.tab = c /\ k.session = tab[c].session /\ k.session # 0
    BY <1>2
  <2>2. tab[c].session \in Nat
    BY <1>1 DEF TabSet
  <2>3. Len(sess) \in Nat
    BY DEF HttpInv, Types, ServerFits, ServerTypes, Server
  <2> QED
    BY <1>1, <2>1, <2>2, <2>3 DEF CallFits, TabFits, Owned
<1>3. CASE \E j \in calls : k.tab = j.tab /\ k.session = j.session
  BY <1>1, <1>3 DEF CallFits, Owned
<1> QED
  BY <1>2, <1>3 DEF Origin

(* Such a step keeps the invariant. *)
LEMMA StepKeeps == HttpInv /\ HttpStep => HttpInv'
<1> SUFFICES ASSUME HttpInv, HttpStep PROVE HttpInv'
  OBVIOUS
<1>1. /\ Types /\ Owned /\ Present
      /\ Server.sess = sess /\ Server.peers = peers
      /\ Server'.sess = sess' /\ Server'.peers = peers'
      /\ tab \in [Tabs -> TabSet] /\ tab' \in [Tabs -> TabSet]
  BY DEF HttpInv, HttpStep, Types, Server
<1>2. Len(sess) \in Nat /\ Len(sess') \in Nat /\ Len(sess) <= Len(sess')
  <2>1. sess \in Seq(SessionSet) /\ sess' \in Seq(SessionSet)
    BY <1>1 DEF HttpStep, Types, ServerFits, ServerTypes
  <2>2. Len(sess) <= Len(sess')
    BY <1>1 DEF HttpStep, Kept
  <2> QED
    BY <2>1, <2>2
<1>3. \A c \in Tabs : /\ tab[c].session \in Nat /\ tab'[c].session \in Nat
                      /\ tab[c].me \in Nat /\ tab'[c].me \in Nat
                      /\ tab[c].remote \in PeerMaps /\ tab'[c].remote \in PeerMaps
  BY <1>1 DEF TabSet
<1>4. ASSUME NEW k \in calls'
      PROVE  /\ CallFits(k)
             /\ \A d \in Tabs : tab[d].session = k.session => k.tab = d
  <2>1. CASE k \in calls
    BY <1>1, <2>1 DEF Types, Owned
  <2>2. CASE k \notin calls
    <3>1. k \in Underway \cup AnsweredSet /\ Origin(k)
      BY <2>2 DEF HttpStep, CallStep
    <3> QED
      BY <3>1, OriginFits
  <2> QED
    BY <2>1, <2>2
<1>5. Types'
  <2>1. \A k \in calls' : CallFits(k)'
    BY <1>2, <1>4 DEF CallFits
  <2>2. \A c \in Tabs : TabFits(c)'
    <3>1. ASSUME NEW c \in Tabs PROVE TabFits(c)'
      <4>1. TabFits(c) /\ TabStep(c)
        BY DEF HttpInv, Types, HttpStep
      <4> QED
        BY <1>2, <1>3, <4>1 DEF TabFits, TabStep
    <3> QED
      BY <3>1
  <2> QED
    BY <2>1, <2>2 DEF Types, HttpStep
<1>6. Owned'
  <2>1. ASSUME NEW c \in Tabs, NEW d \in Tabs,
               tab'[c].session = tab'[d].session, tab'[c].session # 0
        PROVE  c = d
    <3>1. TabFits(c) /\ TabFits(d) /\ TabStep(c) /\ TabStep(d)
      BY DEF HttpInv, Types, HttpStep
    <3>2. CASE tab'[c].session = tab[c].session /\ tab'[d].session = tab[d].session
      BY <1>1, <2>1, <3>2 DEF Owned
    <3>3. CASE tab'[c].session # tab[c].session /\ tab'[d].session # tab[d].session
      BY <3>3 DEF HttpStep
    <3>4. CASE tab'[c].session # tab[c].session /\ tab'[d].session = tab[d].session
      BY <1>2, <1>3, <2>1, <3>1, <3>4 DEF TabFits, TabStep
    <3>5. CASE tab'[c].session = tab[c].session /\ tab'[d].session # tab[d].session
      BY <1>2, <1>3, <2>1, <3>1, <3>5 DEF TabFits, TabStep
    <3> QED
      BY <3>2, <3>3, <3>4, <3>5
  <2>2. ASSUME NEW k \in calls', NEW c \in Tabs, tab'[c].session = k.session
        PROVE  k.tab = c
    <3>1. TabStep(c) /\ k.session \in 1..Len(sess)
      BY <1>4 DEF HttpStep, CallFits
    <3>2. tab'[c].session = tab[c].session
      BY <1>2, <2>2, <3>1 DEF TabStep
    <3> QED
      BY <1>4, <2>2, <3>2
  <2> QED
    BY <2>1, <2>2 DEF Owned
<1>7. ASSUME NEW s \in 1..Len(sess), In(s)
      PROVE  InNext(s) /\ \A d \in PeerMaps : Watch(s, d) => WatchNext(s, d)
  BY <1>1, <1>7, WatchKept DEF HttpStep
<1>8. Present'
  <2>1. ASSUME NEW k \in calls', k.phase = "answered" PROVE InNext(k.session)
    <3>1. CASE k \in calls
      <4>1. k.session \in 1..Len(sess) /\ In(k.session)
        BY <1>1, <2>1, <3>1 DEF Types, CallFits, Present
      <4> QED
        BY <1>7, <4>1
    <3>2. CASE k \notin calls
      <4>1. k \notin Underway
        BY <2>1 DEF Underway
      <4> QED
        BY <3>2, <4>1 DEF HttpStep, CallStep
    <3> QED
      BY <3>1, <3>2
  <2>2. ASSUME NEW c \in Tabs, tab'[c].me # 0 PROVE InNext(tab'[c].me)
    <3>1. CASE tab'[c].me = tab[c].me
      <4>1. tab[c].me \in 1..Len(sess) /\ In(tab[c].me)
        BY <1>1, <1>2, <1>3, <2>2, <3>1 DEF Types, TabFits, Present
      <4>2. InNext(tab[c].me)
        BY <1>7, <4>1
      <4> QED
        BY <3>1, <4>2
    <3>2. CASE tab'[c].me # tab[c].me
      BY <2>2, <3>2 DEF HttpStep, TabStep
    <3> QED
      BY <3>1, <3>2
  <2> QED
    BY <2>1, <2>2 DEF Present, In, InNext
<1>9. Sound' => CallsFollow' /\ TabsFollow'
  <2> SUFFICES ASSUME Sound' PROVE CallsFollow' /\ TabsFollow'
    OBVIOUS
  <2>0. Sound /\ CallsFollow /\ TabsFollow
    BY DEF HttpStep, Sound, HttpInv
  <2>1. ASSUME NEW k \in calls', k.phase = "answered"
        PROVE  WatchNext(k.session, Without(k.peers, k.session))
    <3>1. CASE k \in calls
      <4>1. k.session \in 1..Len(sess) /\ In(k.session) /\ k \in AnsweredSet
        BY <1>1, <2>1, <3>1 DEF Types, CallFits, Present, Underway
      <4>2. Without(k.peers, k.session) \in PeerMaps
        BY <4>1, WithoutType DEF AnsweredSet
      <4>3. Watch(k.session, Without(k.peers, k.session))
        BY <2>0, <2>1, <3>1 DEF CallsFollow
      <4> QED
        BY <1>7, <4>1, <4>2, <4>3
    <3>2. CASE k \notin calls
      <4>1. k \notin Underway
        BY <2>1 DEF Underway
      <4> QED
        BY <3>2, <4>1 DEF HttpStep, CallStep
    <3> QED
      BY <3>1, <3>2
  <2>2. ASSUME NEW c \in Tabs, tab'[c].me # 0, tab'[c].me = tab'[c].session
        PROVE  WatchNext(tab'[c].me, tab'[c].remote)
    <3>0. TabStep(c) /\ TabFits(c)
      BY <1>1 DEF HttpStep, Types
    <3>1. CASE tab'[c].me = tab[c].me /\ tab'[c].remote = tab[c].remote
      <4>1. tab[c].me \in 1..Len(sess) /\ In(tab[c].me)
        BY <1>1, <1>2, <1>3, <2>2, <3>0, <3>1 DEF TabFits, Present
      <4>2. tab[c].me = tab[c].session
        BY <1>2, <2>2, <3>0, <3>1, <4>1 DEF TabStep
      <4>3. Watch(tab[c].me, tab[c].remote)
        BY <2>0, <4>1, <4>2 DEF TabsFollow
      <4>4. WatchNext(tab[c].me, tab[c].remote)
        BY <1>3, <1>7, <4>1, <4>3
      <4> QED
        BY <3>1, <4>4
    <3>2. CASE ~(tab'[c].me = tab[c].me /\ tab'[c].remote = tab[c].remote)
      BY <2>2, <3>0, <3>2 DEF TabStep
    <3> QED
      BY <3>1, <3>2
  <2> QED
    BY <2>1, <2>2 DEF CallsFollow, TabsFollow, Watch, WatchNext
<1>10. NobodyLeftBehindIfCoped'
  BY <1>1 DEF HttpInv, HttpStep, Lists, AllListed, NobodyLeftBehindIfCoped, NobodyLeftBehind
<1> QED
  BY <1>5, <1>6, <1>8, <1>9, <1>10 DEF HttpInv

-----------------------------------------------------------------------------
(* What the steps are made of. *)
LEMMA InvFits ==
  ASSUME HttpInv
  PROVE  /\ Server = [sess |-> sess, peers |-> peers]
         /\ Server.sess = sess /\ Server.peers = peers /\ ServerFits(Server)
         /\ sess \in Seq(SessionSet) /\ Len(sess) \in Nat /\ DOMAIN sess = 1..Len(sess)
         /\ peers \in PeerMaps /\ DOMAIN peers \subseteq 1..Len(sess)
         /\ budget \in [BoundNames -> Nat]
<1>1. /\ Server = [sess |-> sess, peers |-> peers] /\ ServerFits(Server)
      /\ Server.sess = sess /\ Server.peers = peers /\ budget \in [BoundNames -> Nat]
  BY DEF HttpInv, Types, Server
<1>2. /\ sess \in Seq(SessionSet)
      /\ peers \in PeerMaps /\ DOMAIN peers \subseteq 1..Len(sess)
  BY <1>1 DEF ServerFits, ServerTypes
<1> QED
  BY <1>1, <1>2

LEMMA TabTypes ==
  ASSUME HttpInv, NEW c \in Tabs
  PROVE  /\ tab[c] \in TabSet /\ DOMAIN tab = Tabs
         /\ tab[c].session \in 0..Len(sess) /\ tab[c].me \in 0..Len(sess)
         /\ tab[c].open => tab[c].session \in 1..Len(sess)
<1>1. tab[c] \in TabSet /\ DOMAIN tab = Tabs /\ TabFits(c)
  BY DEF HttpInv, Types
<1>2. tab[c].session \in Nat /\ tab[c].me \in Nat
  BY <1>1 DEF TabSet
<1> QED
  BY <1>1, <1>2, InvFits DEF TabFits

(* The server after a call. *)
LEMMA Becomes ==
  ASSUME HttpInv, NEW w, Served(Server, w), Become(w)
  PROVE  /\ ServerFits(Server') /\ Kept(Server, Server') /\ Lists(Server, Server')
         /\ Len(sess') = Len(sess)
<1>1. w = [sess |-> w.sess, peers |-> w.peers]
  BY DEF Served, ServerFits, ServerTypes
<1>2. Server' = w /\ sess' = w.sess
  BY <1>1 DEF Become, Server
<1> QED
  BY <1>2, InvFits DEF Served

LEMMA SameServer ==
  ASSUME HttpInv, UNCHANGED <<sess, peers>>
  PROVE  /\ ServerFits(Server') /\ Kept(Server, Server') /\ Lists(Server, Server')
         /\ Len(sess') = Len(sess)
<1>1. Server' = Server
  BY DEF Server
<1> QED
  BY <1>1, InvFits, ServedSame DEF Served

(* Streams and idleness of one session. *)
LEMMA OneSession ==
  ASSUME NEW v, ServerFits(v), NEW s \in 1..Len(v.sess), NEW r \in SessionSet,
         r.events = v.sess[s].events, r.done = v.sess[s].done,
         r.listed = v.sess[s].listed,
         NEW w, w = [sess |-> [v.sess EXCEPT ![s] = r], peers |-> v.peers]
  PROVE  Served(v, w)
<1> DEFINE ss == [v.sess EXCEPT ![s] = r]
<1>1. v.sess \in Seq(SessionSet) /\ DOMAIN v.peers \subseteq 1..Len(v.sess)
  BY DEF ServerFits, ServerTypes
<1>2. ss \in Seq(SessionSet) /\ Len(ss) = Len(v.sess)
  BY <1>1
<1>3. \A q \in 1..Len(v.sess) : ss[q] = IF q = s THEN r ELSE v.sess[q]
  BY <1>1
<1>4. w.sess = ss /\ w.peers = v.peers /\ w = [sess |-> ss, peers |-> v.peers]
  OBVIOUS
<1> HIDE DEF ss
<1>5. \A q \in 1..Len(v.sess) :
        /\ ss[q].events = v.sess[q].events
        /\ ss[q].done = v.sess[q].done /\ ss[q].listed = v.sess[q].listed
  BY <1>3
<1>6. ServerFits(w) /\ Kept(v, w)
  <2>1. \A q \in 1..Len(v.sess) : /\ ss[q].events = v.sess[q].events
                                  /\ v.sess[q].done => ss[q].done
    BY <1>5
  <2> QED
    BY <1>2, <1>4, <2>1, Untold
<1>7. Lists(v, w)
  BY <1>1, <1>4, <1>5 DEF Lists, AllListed
<1> QED
  BY <1>2, <1>4, <1>6, <1>7 DEF Served

LEMMA StreamsOf ==
  ASSUME NEW v, ServerFits(v), NEW s \in 1..Len(v.sess),
         NEW T \in SUBSET {"live", "dead"}
  PROVE  Served(v, [v EXCEPT !.sess[s].streams = T])
<1> DEFINE r == [v.sess[s] EXCEPT !.streams = T]
<1>1. v = [sess |-> v.sess, peers |-> v.peers] /\ v.sess \in Seq(SessionSet)
  BY DEF ServerFits, ServerTypes
<1>2. v.sess[s] \in SessionSet
  BY <1>1
<1>3. /\ r \in SessionSet /\ r.events = v.sess[s].events /\ r.done = v.sess[s].done
      /\ r.listed = v.sess[s].listed
  BY <1>2 DEF SessionSet
<1>4. PICK w : w = [v EXCEPT !.sess[s].streams = T]
  OBVIOUS
<1>5. w = [v EXCEPT !.sess = [v.sess EXCEPT ![s] = r]]
  BY <1>4
<1> HIDE DEF r
<1>6. w = [sess |-> [v.sess EXCEPT ![s] = r], peers |-> v.peers]
  BY <1>1, <1>5
<1>7. Served(v, w)
  BY <1>3, <1>6, OneSession
<1> QED
  BY <1>4, <1>7

LEMMA IdleOf ==
  ASSUME NEW v, ServerFits(v), NEW s \in 1..Len(v.sess), NEW b \in BOOLEAN
  PROVE  Served(v, [v EXCEPT !.sess[s].idle = b])
<1> DEFINE r == [v.sess[s] EXCEPT !.idle = b]
<1>1. v = [sess |-> v.sess, peers |-> v.peers] /\ v.sess \in Seq(SessionSet)
  BY DEF ServerFits, ServerTypes
<1>2. v.sess[s] \in SessionSet
  BY <1>1
<1>3. /\ r \in SessionSet /\ r.events = v.sess[s].events /\ r.done = v.sess[s].done
      /\ r.listed = v.sess[s].listed
  BY <1>2 DEF SessionSet
<1>4. PICK w : w = [v EXCEPT !.sess[s].idle = b]
  OBVIOUS
<1>5. w = [v EXCEPT !.sess = [v.sess EXCEPT ![s] = r]]
  BY <1>4
<1> HIDE DEF r
<1>6. w = [sess |-> [v.sess EXCEPT ![s] = r], peers |-> v.peers]
  BY <1>1, <1>5
<1>7. Served(v, w)
  BY <1>3, <1>6, OneSession
<1> QED
  BY <1>4, <1>7

(* Handler.lookup. *)
LEMMA LookedUp ==
  ASSUME HttpInv, NEW s \in 1..Len(sess)
  PROVE  Served(Server, LookUp(s))
<1> DEFINE v == ExpireIdle(Server)
<1>1. Served(Server, v)
  BY Expired, InvFits
<1>2. LookUp(s) = IF Known(v, s) THEN [v EXCEPT !.sess[s].idle = FALSE] ELSE v
  BY DEF LookUp, Touched
<1> HIDE DEF v
<1>3. ServerFits(v) /\ s \in 1..Len(v.sess)
  BY <1>1, InvFits DEF Served
<1>4. Served(v, [v EXCEPT !.sess[s].idle = FALSE])
  BY <1>3, IdleOf
<1>5. Served(Server, [v EXCEPT !.sess[s].idle = FALSE])
  BY <1>1, <1>4, InvFits, ServedTwice
<1> QED
  BY <1>1, <1>2, <1>5

(* Handler.open: one session more. *)
Minting(v) == [sess |-> Append(v.sess, NewSession), peers |-> v.peers]

LEMMA Minted ==
  ASSUME NEW v, ServerFits(v), NEW w, w = Minting(v)
  PROVE  /\ ServerFits(w) /\ Kept(v, w) /\ Lists(v, w)
         /\ Len(w.sess) = Len(v.sess) + 1
<1>1. /\ v = [sess |-> v.sess, peers |-> v.peers] /\ v.sess \in Seq(SessionSet)
      /\ DOMAIN v.peers \subseteq 1..Len(v.sess) /\ v.peers \in PeerMaps
  BY DEF ServerFits, ServerTypes
<1>2. w = [sess |-> Append(v.sess, NewSession), peers |-> v.peers]
  BY DEF Minting
<1>3. NewSession \in SessionSet /\ NewSession.events = <<>>
  BY DEF NewSession, SessionSet
<1>4. /\ w.sess = Append(v.sess, NewSession) /\ w.peers = v.peers
      /\ w = [sess |-> w.sess, peers |-> w.peers]
  BY <1>2
<1>5. /\ w.sess \in Seq(SessionSet) /\ Len(w.sess) = Len(v.sess) + 1
      /\ Len(v.sess) \in Nat
      /\ \A s \in 1..Len(v.sess) : w.sess[s] = v.sess[s]
      /\ w.sess[Len(v.sess) + 1] = NewSession
  BY <1>1, <1>3, <1>4
<1>6. ServerTypes(w)
  BY <1>1, <1>4, <1>5 DEF ServerTypes
<1>7. ASSUME NEW s \in 1..Len(v.sess) PROVE MailFits(w, s) /\ KeptFor(v, w, s)
  <2>1. MailFits(v, s) /\ w.sess[s] = v.sess[s]
    BY <1>5 DEF ServerFits
  <2> QED
    BY <1>4, <2>1 DEF MailFits, KeptFor, Follows
<1>8. MailFits(w, Len(v.sess) + 1)
  <2>1. Len(v.sess) + 1 \notin DOMAIN w.peers
    BY <1>1, <1>4, <1>5
  <2>2. w.sess[Len(v.sess) + 1].events = <<>>
    BY <1>3, <1>5
  <2>3. 1..Len(<<>>) = {}
    OBVIOUS
  <2> QED
    BY <2>1, <2>2, <2>3 DEF MailFits
<1>9. \A s \in 1..Len(w.sess) : s \in 1..Len(v.sess) \/ s = Len(v.sess) + 1
  BY <1>5
<1>10. Lists(v, w)
  BY <1>1, <1>4, <1>5 DEF Lists, AllListed
<1>11. \A s \in 1..Len(w.sess) : MailFits(w, s)
  BY <1>7, <1>8, <1>9
<1>12. Kept(v, w)
  <2>1. Len(v.sess) <= Len(w.sess)
    BY <1>5
  <2> QED
    BY <1>7, <2>1 DEF Kept
<1> QED
  BY <1>5, <1>6, <1>10, <1>11, <1>12 DEF ServerFits

(* One tab changes. *)
TabsStep ==
  /\ tab' \in [Tabs -> TabSet]
  /\ \A c \in Tabs : TabStep(c)
  /\ \A c, d \in Tabs :
       tab'[c].session # tab[c].session /\ tab'[d].session # tab[d].session => c = d

LEMMA TabChanges ==
  ASSUME HttpInv, NEW c \in Tabs, NEW t, t \in TabSet, tab' = [tab EXCEPT ![c] = t],
         TabStep(c)
  PROVE  TabsStep
<1>1. tab \in [Tabs -> TabSet] /\ \A d \in Tabs : tab[d].open => tab[d].session # 0
  BY DEF HttpInv, Types, TabFits
<1>2. tab' \in [Tabs -> TabSet] /\ \A d \in Tabs : d # c => tab'[d] = tab[d]
  BY <1>1
<1>3. \A d \in Tabs : TabStep(d)
  BY <1>1, <1>2 DEF TabStep
<1> QED
  BY <1>2, <1>3 DEF TabsStep

LEMMA TabsSame == ASSUME HttpInv, tab' = tab PROVE TabsStep
<1>1. tab \in [Tabs -> TabSet] /\ \A d \in Tabs : tab[d].open => tab[d].session # 0
  BY DEF HttpInv, Types, TabFits
<1> QED
  BY <1>1 DEF TabsStep, TabStep

(* The transport changes, the mirror does not. *)
SameMirror(t, u) ==
  /\ u \in TabSet
  /\ u.session = t.session /\ u.open = t.open
  /\ u.me = t.me /\ u.remote = t.remote

LEMMA MirrorStays ==
  ASSUME HttpInv, NEW c \in Tabs, NEW u, SameMirror(tab[c], u),
         tab' = [tab EXCEPT ![c] = u]
  PROVE  TabsStep
<1>1. tab'[c] = u /\ (tab[c].open => tab[c].session # 0)
  BY TabTypes
<1>2. TabStep(c)
  BY <1>1 DEF SameMirror, TabStep
<1> QED
  BY <1>2, TabChanges DEF SameMirror

LEMMA ProbeSame ==
  ASSUME NEW t \in TabSet, NEW u, SameMirror(t, u)
  PROVE  SameMirror(t, Probe(u)) /\ SameMirror(t, StreamError(u))
<1>1. u \in TabSet
  BY DEF SameMirror
<1>2. SameMirror(u, [u EXCEPT !.task = "probe"])
  BY <1>1 DEF SameMirror, TabSet
<1> QED
  BY <1>2 DEF SameMirror, Probe, StreamError

(* A tab that is closed, or gives up. *)
LEMMA TabCloses ==
  ASSUME HttpInv, NEW c \in Tabs,
         tab' = [tab EXCEPT ![c] = [Unopened EXCEPT !.session = tab[c].session]]
  PROVE  TabsStep
<1> DEFINE u == [Unopened EXCEPT !.session = tab[c].session]
<1>1. tab[c].session \in Nat
  BY TabTypes DEF TabSet
<1>2. NoPeers \in PeerMaps
  <2>1. {} \in SUBSET Nat /\ NoPeers \in [{} -> Nat]
    BY DEF NoPeers
  <2> QED
    BY <2>1, IsPeerMap
<1>3. /\ u \in TabSet /\ u.session = tab[c].session /\ u.me = 0 /\ ~u.open
  BY <1>1, <1>2 DEF Unopened, TabSet
<1> HIDE DEF u
<1>4. tab' = [tab EXCEPT ![c] = u]
  BY DEF u
<1>5. tab'[c] = u
  BY <1>4, TabTypes
<1>6. TabStep(c)
  BY <1>3, <1>5 DEF TabStep
<1> QED
  BY <1>3, <1>4, <1>6, TabChanges

LEMMA SpendType ==
  ASSUME HttpInv, NEW what \in BoundNames, Spend(what)
  PROVE  budget' \in [BoundNames -> Nat]
<1>1. budget[what] \in Nat /\ budget[what] > 0 /\ budget \in [BoundNames -> Nat]
  BY InvFits DEF Spend
<1>2. budget[what] - 1 \in Nat
  BY <1>1
<1> QED
  BY <1>1, <1>2 DEF Spend

LEMMA Bounds == {"publishes", "breaks", "closes", "delays", "mints"} \subseteq BoundNames
BY DEF BoundNames

LEMMA CallsSame == ASSUME calls' \subseteq calls PROVE \A k \in calls' : CallStep(k)
BY DEF CallStep


LEMMA CallsUnchanged == ASSUME UNCHANGED calls PROVE \A k \in calls' : CallStep(k)
BY DEF CallStep

LEMMA TogetherHttp ==
  ASSUME HttpInv, ServerFits(Server'), Kept(Server, Server'),
         Lists(Server, Server') \/ "closed while joining" \in mishaps',
         TabsStep, budget' \in [BoundNames -> Nat], mishaps \subseteq mishaps',
         \A k \in calls' : CallStep(k)
  PROVE  HttpStep
BY DEF HttpStep, TabsStep

-----------------------------------------------------------------------------
(* The actions.  A new session for a tab. *)
LEMMA Attached ==
  ASSUME HttpInv, NEW c \in Tabs, NEW task \in {"create", "attach"}, Attach(c, task),
         UNCHANGED <<calls, mishaps>>
  PROVE  HttpStep
<1> DEFINE v == ExpireIdle(Server)
           u == [tab[c] EXCEPT !.session = Len(sess) + 1, !.stream = "opening",
                               !.first = TRUE, !.bound = FALSE, !.task = task,
                               !.open = TRUE]
<1>1. Served(Server, v)
  BY Expired, InvFits
<1>2. PICK w : w = [v EXCEPT !.sess = Append(@, NewSession)]
  OBVIOUS
<1>3. /\ Spend("mints") /\ Become(w) /\ tab' = [tab EXCEPT ![c] = u]
  BY <1>2 DEF Attach
<1> HIDE DEF v
<1>4. v = [sess |-> v.sess, peers |-> v.peers] /\ ServerFits(v) /\ Len(v.sess) = Len(sess)
  BY <1>1, InvFits DEF Served, ServerFits, ServerTypes
<1>5. w = Minting(v)
  BY <1>2, <1>4 DEF Minting
<1>6. /\ ServerFits(w) /\ Kept(v, w) /\ Lists(v, w)
      /\ Len(w.sess) = Len(v.sess) + 1
  BY <1>4, <1>5, Minted
<1>7. w = [sess |-> w.sess, peers |-> w.peers]
  BY <1>6 DEF ServerFits, ServerTypes
<1>8. Server' = w /\ sess' = w.sess
  BY <1>3, <1>7 DEF Become, Server
<1>9. Len(sess) \in Nat /\ Len(Server.sess) \in Nat /\ Len(v.sess) \in Nat /\ Len(w.sess) \in Nat
  BY <1>4, <1>6, InvFits
<1>10. Kept(Server, w) /\ Lists(Server, w)
  <2>1. Kept(Server, v) /\ Lists(Server, v)
    BY <1>1 DEF Served
  <2>2. Kept(Server, w)
    BY <1>6, <1>9, <2>1, KeptTwice
  <2>3. Lists(Server, w)
    BY <1>6, <2>1 DEF Lists
  <2> QED
    BY <2>2, <2>3
<1>11. tab[c] \in TabSet
  BY TabTypes
<1>12. /\ u \in TabSet /\ u.session = Len(sess) + 1
       /\ u.me = tab[c].me /\ u.remote = tab[c].remote
  <2>1. PICK n \in Nat : n = Len(sess) + 1
    BY <1>9
  <2>2. task \in {"idle", "create", "attach", "probe"}
    OBVIOUS
  <2>3. u = [tab[c] EXCEPT !.session = n, !.stream = "opening", !.first = TRUE,
                           !.bound = FALSE, !.task = task, !.open = TRUE]
    BY <2>1
  <2> HIDE DEF u
  <2>4. u \in TabSet /\ u.session = n /\ u.me = tab[c].me /\ u.remote = tab[c].remote
    BY <1>11, <2>2, <2>3 DEF TabSet
  <2> QED
    BY <2>1, <2>4
<1> HIDE DEF u
<1>13. tab'[c] = u
  BY <1>3, TabTypes
<1>14. TabStep(c)
  BY <1>4, <1>6, <1>8, <1>9, <1>12, <1>13 DEF TabStep
<1>15. TabsStep
  BY <1>3, <1>12, <1>14, TabChanges
<1>16. budget' \in [BoundNames -> Nat]
  BY <1>3, Bounds, SpendType
<1> QED
  BY <1>6, <1>8, <1>10, <1>15, <1>16, CallsUnchanged, TogetherHttp

LEMMA OpenTabSteps ==
  ASSUME HttpInv, NEW c \in Tabs, OpenTab(c)
  PROVE  HttpStep
BY Attached DEF OpenTab

(* The server serves a request, the tab's mirror stays. *)
LEMMA ServesTab ==
  ASSUME HttpInv, NEW w, Served(Server, w), Become(w), NEW c \in Tabs, NEW u,
         SameMirror(tab[c], u), tab' = [tab EXCEPT ![c] = u],
         budget' \in [BoundNames -> Nat], mishaps \subseteq mishaps',
         \A k \in calls' : CallStep(k)
  PROVE  HttpStep
BY Becomes, MirrorStays, TogetherHttp

(* The join a tab sends. *)
LEMMA JoinIsNew ==
  ASSUME HttpInv, NEW c \in Tabs, tab[c].open, NEW k, k = Join(c)
  PROVE  CallStep(k)
<1>1. k = [tab |-> c, session |-> tab[c].session, phase |-> "sent"]
  BY DEF Join
<1>2. tab[c].session \in Nat /\ tab[c].session # 0
  BY TabTypes, InvFits
<1>3. k \in Underway
  BY <1>1, <1>2 DEF Underway
<1>4. Origin(k)
  BY <1>1, <1>2 DEF Origin
<1> QED
  BY <1>3, <1>4 DEF CallStep

LEMMA StreamOpensSteps ==
  ASSUME HttpInv, NEW c \in Tabs, StreamOpens(c)
  PROVE  HttpStep
<1> DEFINE t == tab[c]
           v == LookUp(t.session)
           u == [t EXCEPT !.stream = "open", !.first = FALSE,
                   !.task = IF Attaching(t) THEN "idle" ELSE @,
                   !.bound = @ \/ Attaching(t)]
           T == v.sess[t.session].streams \cup {"live"}
<1>1. PICK w : w = [v EXCEPT !.sess[t.session].streams = T]
  OBVIOUS
<1>2. /\ t.open /\ Become(w) /\ tab' = [tab EXCEPT ![c] = u]
      /\ calls' = IF Attaching(t) \/ ~t.first THEN calls \cup {Join(c)} ELSE calls
      /\ UNCHANGED <<budget, mishaps>>
  BY <1>1 DEF StreamOpens
<1>3. t \in TabSet /\ t.session \in 1..Len(sess)
  BY <1>2, TabTypes
<1>4. Served(Server, v)
  BY <1>3, LookedUp
<1>5. SameMirror(t, u)
  BY <1>3 DEF SameMirror, TabSet
<1> HIDE DEF v, u
<1>6. ServerFits(v) /\ t.session \in 1..Len(v.sess)
  BY <1>3, <1>4, InvFits DEF Served
<1>7. v.sess[t.session] \in SessionSet
  BY <1>6 DEF ServerFits, ServerTypes
<1>8. T \in SUBSET {"live", "dead"}
  BY <1>7 DEF SessionSet
<1> HIDE DEF T
<1>9. Served(Server, w)
  BY <1>1, <1>4, <1>6, <1>8, StreamsOf, InvFits, ServedTwice
<1>10. \A k \in calls' : CallStep(k)
  <2>1. \A k \in calls' : k \in calls \/ k = Join(c)
    BY <1>2
  <2>2. \A k : k = Join(c) => CallStep(k)
    BY <1>2, JoinIsNew
  <2> QED
    BY <2>1, <2>2 DEF CallStep
<1>11. budget' \in [BoundNames -> Nat] /\ mishaps' = mishaps
  BY <1>2, InvFits
<1> QED
  BY <1>2, <1>5, <1>9, <1>10, <1>11, ServesTab

LEMMA StreamRefusedSteps ==
  ASSUME HttpInv, NEW c \in Tabs, StreamRefused(c)
  PROVE  HttpStep
<1> DEFINE t == tab[c]
           v == LookUp(t.session)
           r == [t EXCEPT !.stream = "none"]
           u == StreamError(r)
<1>1. /\ t.open /\ Become(v) /\ tab' = [tab EXCEPT ![c] = u]
      /\ UNCHANGED <<calls, budget, mishaps>>
  BY DEF StreamRefused
<1>2. t \in TabSet /\ t.session \in 1..Len(sess)
  BY <1>1, TabTypes
<1>3. Served(Server, v)
  BY <1>2, LookedUp
<1>4. SameMirror(t, r)
  BY <1>2 DEF SameMirror, TabSet
<1> HIDE DEF v, r
<1>5. SameMirror(t, u)
  BY <1>2, <1>4, ProbeSame
<1> HIDE DEF u
<1>6. budget' \in [BoundNames -> Nat] /\ mishaps' = mishaps
  BY <1>1, InvFits
<1>7. \A k \in calls' : CallStep(k)
  BY <1>1, CallsUnchanged
<1> QED
  BY <1>1, <1>3, <1>5, <1>6, <1>7, ServesTab

(* A session's streams as a step of the room. *)
LEMMA StreamsBecome ==
  ASSUME HttpInv, NEW s \in 1..Len(sess), NEW T \in SUBSET {"live", "dead"},
         sess' = [sess EXCEPT ![s].streams = T], UNCHANGED peers
  PROVE  \E w : Served(Server, w) /\ Become(w)
<1>1. PICK w : w = [Server EXCEPT !.sess[s].streams = T]
  OBVIOUS
<1>2. Served(Server, w)
  BY <1>1, InvFits, StreamsOf
<1>3. Server = [sess |-> sess, peers |-> peers]
  BY InvFits
<1>4. w.sess = [sess EXCEPT ![s].streams = T] /\ w.peers = peers
  BY <1>1, <1>3
<1>5. Become(w)
  BY <1>4 DEF Become
<1> QED
  BY <1>2, <1>5

LEMMA StreamBreaksSteps ==
  ASSUME HttpInv, NEW c \in Tabs, StreamBreaks(c)
  PROVE  HttpStep
<1> DEFINE t == tab[c]
           r == [t EXCEPT !.stream = "opening"]
           u == StreamError(r)
<1>1. PICK rest \in {{}, {"dead"}} :
        sess' = [sess EXCEPT ![t.session].streams = (@ \ {"live"}) \cup rest]
  BY DEF StreamBreaks
<1> DEFINE T == (sess[t.session].streams \ {"live"}) \cup rest
<1>2. /\ t.open /\ Spend("breaks") /\ tab' = [tab EXCEPT ![c] = u]
      /\ UNCHANGED <<peers, calls, mishaps>>
  BY DEF StreamBreaks
<1>3. t \in TabSet /\ t.session \in 1..Len(sess)
  BY <1>2, TabTypes
<1>4. sess[t.session] \in SessionSet
  BY <1>3, InvFits
<1>5. T \in SUBSET {"live", "dead"}
  BY <1>4 DEF SessionSet
<1>6. sess' = [sess EXCEPT ![t.session].streams = T]
  BY <1>1
<1>7. SameMirror(t, r)
  BY <1>3 DEF SameMirror, TabSet
<1> HIDE DEF T, r
<1>8. PICK w : Served(Server, w) /\ Become(w)
  BY <1>2, <1>3, <1>5, <1>6, StreamsBecome
<1>9. SameMirror(t, u)
  BY <1>3, <1>7, ProbeSame
<1> HIDE DEF u
<1>10. budget' \in [BoundNames -> Nat] /\ mishaps' = mishaps
  BY <1>2, Bounds, SpendType
<1>11. \A k \in calls' : CallStep(k)
  BY <1>2, CallsUnchanged
<1> QED
  BY <1>2, <1>8, <1>9, <1>10, <1>11, ServesTab

LEMMA StreamEndsSteps ==
  ASSUME HttpInv, NEW c \in Tabs, StreamEnds(c)
  PROVE  HttpStep
<1> DEFINE t == tab[c]
           r == [t EXCEPT !.stream = "opening"]
           u == StreamError(r)
<1>1. /\ t.open /\ tab' = [tab EXCEPT ![c] = u]
      /\ sess' = [sess EXCEPT ![t.session].streams = {}]
      /\ UNCHANGED <<peers, calls, budget, mishaps>>
  BY DEF StreamEnds
<1>2. t \in TabSet /\ t.session \in 1..Len(sess)
  BY <1>1, TabTypes
<1>3. SameMirror(t, r)
  BY <1>2 DEF SameMirror, TabSet
<1> HIDE DEF r
<1>4. SameMirror(t, u)
  BY <1>2, <1>3, ProbeSame
<1> HIDE DEF u
<1>5. {} \in SUBSET {"live", "dead"}
  OBVIOUS
<1>6. PICK w : Served(Server, w) /\ Become(w)
  BY <1>1, <1>2, <1>5, StreamsBecome
<1>7. budget' \in [BoundNames -> Nat] /\ mishaps' = mishaps
  BY <1>1, InvFits
<1>8. \A k \in calls' : CallStep(k)
  BY <1>1, CallsUnchanged
<1> QED
  BY <1>1, <1>4, <1>6, <1>7, <1>8, ServesTab

LEMMA BreakNoticedSteps ==
  ASSUME HttpInv, NEW s \in DOMAIN sess, BreakNoticed(s)
  PROVE  HttpStep
<1> DEFINE T == sess[s].streams \ {"dead"}
<1>1. /\ sess' = [sess EXCEPT ![s].streams = T]
      /\ UNCHANGED <<peers, tab, calls, budget, mishaps>>
  BY DEF BreakNoticed
<1>2. s \in 1..Len(sess) /\ sess[s] \in SessionSet
  BY InvFits
<1>3. T \in SUBSET {"live", "dead"}
  BY <1>2 DEF SessionSet
<1> HIDE DEF T
<1>4. PICK w : Served(Server, w) /\ Become(w)
  BY <1>1, <1>2, <1>3, StreamsBecome
<1>5. /\ ServerFits(Server') /\ Kept(Server, Server') /\ Lists(Server, Server')
  BY <1>4, Becomes
<1> QED
  BY <1>1, <1>5, InvFits, TabsSame, CallsUnchanged, TogetherHttp

LEMMA ProbeReturnsSteps ==
  ASSUME HttpInv, NEW c \in Tabs, ProbeReturns(c)
  PROVE  HttpStep
<1> DEFINE t == tab[c]
           v == LookUp(t.session)
           u == [t EXCEPT !.task = "idle"]
<1>1. CASE Known(v, t.session)
  <2>1. /\ t.open /\ Become(v) /\ tab' = [tab EXCEPT ![c] = u]
        /\ UNCHANGED <<calls, budget, mishaps>>
    BY <1>1 DEF ProbeReturns
  <2>2. t \in TabSet /\ t.session \in 1..Len(sess)
    BY <2>1, TabTypes
  <2>3. Served(Server, v)
    BY <2>2, LookedUp
  <2>4. SameMirror(t, u)
    BY <2>2 DEF SameMirror, TabSet
  <2> HIDE DEF v, u
  <2>5. budget' \in [BoundNames -> Nat] /\ mishaps' = mishaps
    BY <2>1, InvFits
  <2>6. \A k \in calls' : CallStep(k)
    BY <2>1, CallsUnchanged
  <2> QED
    BY <2>1, <2>3, <2>4, <2>5, <2>6, ServesTab
<1>2. CASE ~Known(v, t.session)
  <2>1. Attach(c, "attach") /\ UNCHANGED <<calls, mishaps>>
    BY <1>2 DEF ProbeReturns
  <2> HIDE DEF v, u
  <2> QED
    BY <2>1, Attached
<1> QED
  BY <1>1, <1>2

LEMMA MintRefusedSteps ==
  ASSUME HttpInv, NEW c \in Tabs, MintRefused(c)
  PROVE  HttpStep
<1> DEFINE u == [tab[c] EXCEPT !.task = "idle"]
<1>1. /\ tab' = [tab EXCEPT ![c] = u] /\ mishaps \subseteq mishaps'
      /\ UNCHANGED <<sess, peers, calls, budget>>
  BY DEF MintRefused
<1>2. tab[c] \in TabSet
  BY TabTypes
<1>3. SameMirror(tab[c], u)
  BY <1>2 DEF SameMirror, TabSet
<1> HIDE DEF u
<1>4. TabsStep
  BY <1>1, <1>3, MirrorStays
<1>5. budget' \in [BoundNames -> Nat]
  BY <1>1, InvFits
<1> QED
  BY <1>1, <1>4, <1>5, SameServer, CallsUnchanged, TogetherHttp

LEMMA AttachTimesOutSteps ==
  ASSUME HttpInv, NEW c \in Tabs, AttachTimesOut(c)
  PROVE  HttpStep
<1> DEFINE t == tab[c]
           closed == [Unopened EXCEPT !.session = t.session]
           u == [t EXCEPT !.task = "idle"]
<1>1. /\ tab' = [tab EXCEPT ![c] = IF t.task = "create" THEN closed ELSE u]
      /\ mishaps \subseteq mishaps'
      /\ UNCHANGED budget \/ Spend("delays")
      /\ UNCHANGED <<sess, peers, calls>>
  BY DEF AttachTimesOut
<1>2. t \in TabSet
  BY TabTypes
<1>3. SameMirror(t, u)
  BY <1>2 DEF SameMirror, TabSet
<1>4. TabsStep
  <2>1. CASE t.task = "create"
    <3>1. tab' = [tab EXCEPT ![c] = closed]
      BY <1>1, <2>1
    <3> QED
      BY <3>1, TabCloses
  <2>2. CASE t.task # "create"
    <3>1. tab' = [tab EXCEPT ![c] = u]
      BY <1>1, <2>2
    <3> HIDE DEF u
    <3> QED
      BY <1>3, <3>1, MirrorStays
  <2> QED
    BY <2>1, <2>2
<1> HIDE DEF closed, u
<1>5. budget' \in [BoundNames -> Nat]
  <2>1. CASE UNCHANGED budget
    BY <2>1, InvFits
  <2>2. CASE Spend("delays")
    BY <2>2, Bounds, SpendType
  <2> QED
    BY <1>1, <2>1, <2>2
<1> QED
  BY <1>1, <1>4, <1>5, SameServer, CallsUnchanged, TogetherHttp

LEMMA PublishSteps ==
  ASSUME HttpInv, NEW c \in Tabs, Publish(c)
  PROVE  HttpStep
<1> DEFINE t == tab[c]
           v == LookUp(t.session)
           n == budget.publishes
           w == IF Known(v, t.session) /\ t.session \in DOMAIN v.peers
                THEN Select(v, t.session, n) ELSE v
           u == IF Known(v, t.session) THEN t ELSE Probe(t)
<1>1. /\ t.open /\ Spend("publishes") /\ Become(w) /\ tab' = [tab EXCEPT ![c] = u]
      /\ UNCHANGED <<calls, mishaps>>
  BY DEF Publish
<1>2. t \in TabSet /\ t.session \in 1..Len(sess)
  BY <1>1, TabTypes
<1>3. Served(Server, v)
  BY <1>2, LookedUp
<1>4. n \in Nat
  BY InvFits, Bounds
<1>5. SameMirror(t, t)
  BY <1>2 DEF SameMirror
<1> HIDE DEF v, n
<1>6. Served(Server, w)
  <2>1. CASE Known(v, t.session) /\ t.session \in DOMAIN v.peers
    <3>1. ServerFits(v)
      BY <1>3 DEF Served
    <3>2. Served(v, w)
      BY <1>4, <2>1, <3>1, Selected
    <3> HIDE DEF w
    <3> QED
      BY <1>3, <3>2, InvFits, ServedTwice
  <2>2. CASE ~(Known(v, t.session) /\ t.session \in DOMAIN v.peers)
    <3>1. w = v
      BY <2>2
    <3> HIDE DEF w
    <3> QED
      BY <1>3, <3>1
  <2> QED
    BY <2>1, <2>2
<1>7. SameMirror(t, u)
  <2>1. SameMirror(t, Probe(t))
    BY <1>2, <1>5, ProbeSame
  <2> QED
    BY <1>5, <2>1
<1> HIDE DEF w, u
<1>8. budget' \in [BoundNames -> Nat] /\ mishaps' = mishaps
  BY <1>1, Bounds, SpendType
<1>9. \A k \in calls' : CallStep(k)
  BY <1>1, CallsUnchanged
<1> QED
  BY <1>1, <1>6, <1>7, <1>8, <1>9, ServesTab

LEMMA CloseTabSteps ==
  ASSUME HttpInv, NEW c \in Tabs, CloseTab(c)
  PROVE  HttpStep
<1> DEFINE s == tab[c].session
           v == LookUp(s)
           quiet == [v EXCEPT !.sess[s].streams = {}]
           u == [Unopened EXCEPT !.session = s]
<1>1. PICK w : w = quiet
  OBVIOUS
<1>2. /\ tab[c].open /\ Spend("closes") /\ tab' = [tab EXCEPT ![c] = u]
      /\ Become(IF Known(v, s) THEN DropSession(w, s) ELSE w)
      /\ UNCHANGED <<calls, mishaps>>
  BY <1>1 DEF CloseTab
<1>3. s \in 1..Len(sess)
  BY <1>2, TabTypes
<1>4. Served(Server, v)
  BY <1>3, LookedUp
<1>5. TabsStep
  BY <1>2, TabCloses
<1> HIDE DEF v, u
<1>6. ServerFits(v) /\ s \in 1..Len(v.sess) /\ {} \in SUBSET {"live", "dead"}
  BY <1>3, <1>4, InvFits DEF Served
<1>7. Served(v, quiet)
  BY <1>6, StreamsOf
<1> HIDE DEF quiet
<1>8. Served(Server, w) /\ ServerFits(w) /\ s \in 1..Len(w.sess)
  BY <1>1, <1>4, <1>6, <1>7, InvFits, ServedTwice DEF Served
<1>9. Served(Server, DropSession(w, s))
  <2>1. Served(w, DropSession(w, s))
    BY <1>8, Dropped
  <2> QED
    BY <1>8, <2>1, InvFits, ServedTwice
<1>10. PICK x : Served(Server, x) /\ Become(x)
  BY <1>2, <1>8, <1>9
<1>11. budget' \in [BoundNames -> Nat] /\ mishaps' = mishaps
  BY <1>2, Bounds, SpendType
<1> QED
  BY <1>2, <1>5, <1>10, <1>11, Becomes, CallsUnchanged, TogetherHttp

LEMMA IdlesSteps ==
  ASSUME HttpInv, NEW s \in DOMAIN sess, Idles(s)
  PROVE  HttpStep
<1>1. /\ sess' = [sess EXCEPT ![s].idle = TRUE]
      /\ UNCHANGED budget \/ Spend("delays")
      /\ UNCHANGED <<peers, tab, calls, mishaps>>
  BY DEF Idles
<1>2. PICK w : w = [Server EXCEPT !.sess[s].idle = TRUE]
  OBVIOUS
<1>3. Served(Server, w)
  BY <1>2, InvFits, IdleOf
<1>4. Server = [sess |-> sess, peers |-> peers]
  BY InvFits
<1>5. w.sess = [sess EXCEPT ![s].idle = TRUE] /\ w.peers = peers
  BY <1>2, <1>4
<1>6. Become(w)
  BY <1>1, <1>5 DEF Become
<1>7. budget' \in [BoundNames -> Nat]
  <2>1. CASE UNCHANGED budget
    BY <2>1, InvFits
  <2>2. CASE Spend("delays")
    BY <2>2, Bounds, SpendType
  <2> QED
    BY <1>1, <2>1, <2>2
<1>8. UNCHANGED <<tab, calls, mishaps>>
  BY <1>1
<1>9. ServerFits(Server') /\ Kept(Server, Server') /\ Lists(Server, Server')
  BY <1>3, <1>6, Becomes
<1> QED
  BY <1>7, <1>8, <1>9, TabsSame, CallsUnchanged, TogetherHttp

LEMMA OtherRequestSteps ==
  ASSUME HttpInv, OtherRequest
  PROVE  HttpStep
<1>1. Become(ExpireIdle(Server)) /\ UNCHANGED <<tab, calls, budget, mishaps>>
  BY DEF OtherRequest
<1>2. Served(Server, ExpireIdle(Server))
  BY InvFits, Expired
<1> QED
  BY <1>1, <1>2, InvFits, Becomes, TabsSame, CallsUnchanged, TogetherHttp

-----------------------------------------------------------------------------
(* A join, from its lookup to its answer. *)
LEMMA OldGrows ==
  ASSUME NEW t, NEW call
  PROVE  mishaps \subseteq Old(t, call)
BY DEF Old

LEMMA CallTypes ==
  ASSUME HttpInv, NEW k \in calls
  PROVE  /\ k \in Underway \cup AnsweredSet /\ k.tab \in Tabs
         /\ k.session \in 1..Len(sess) /\ k.session \in Nat /\ Origin(k)
<1>1. k \in Underway \cup AnsweredSet /\ k.session \in 1..Len(sess)
  BY DEF HttpInv, Types, CallFits
<1> QED
  BY <1>1, InvFits DEF Underway, AnsweredSet, Origin

LEMMA JoinLookedUpSteps ==
  ASSUME HttpInv, NEW call \in calls, JoinLookedUp(call)
  PROVE  HttpStep
<1> DEFINE t == tab[call.tab]
           v == LookUp(call.session)
           k == [call EXCEPT !.phase = "found"]
           r == [t EXCEPT !.joined = FALSE]
<1>1. /\ call.phase = "sent" /\ Become(v) /\ UNCHANGED budget
      /\ Known(v, call.session) =>
           calls' = (calls \ {call}) \cup {k} /\ UNCHANGED <<tab, mishaps>>
      /\ ~Known(v, call.session) =>
           /\ calls' = calls \ {call}
           /\ tab' = [tab EXCEPT ![call.tab] = IF t.open THEN Probe(r) ELSE t]
           /\ mishaps' = Old(t, call)
  BY DEF JoinLookedUp
<1>2. /\ call \in Underway \cup AnsweredSet /\ call.tab \in Tabs
      /\ call.session \in 1..Len(sess) /\ Origin(call)
  BY CallTypes
<1>3. call \in Underway
  BY <1>1, <1>2 DEF AnsweredSet
<1>4. Served(Server, v)
  BY <1>2, LookedUp
<1>5. k \in Underway /\ k.tab = call.tab /\ k.session = call.session
  BY <1>3 DEF Underway
<1>6. t \in TabSet
  BY <1>2, TabTypes
<1>7. SameMirror(t, r) /\ SameMirror(t, t)
  BY <1>6 DEF SameMirror, TabSet
<1> HIDE DEF v, k, r
<1>8. CASE Known(v, call.session)
  <2>1. calls' = (calls \ {call}) \cup {k} /\ UNCHANGED <<tab, mishaps>>
    BY <1>1, <1>8
  <2>2. CallStep(k)
    BY <1>5 DEF CallStep, Origin
  <2>3. \A j \in calls' : CallStep(j)
    <3>1. \A j \in calls' : j \in calls \/ j = k
      BY <2>1
    <3> QED
      BY <2>2, <3>1 DEF CallStep
  <2>4. budget' \in [BoundNames -> Nat]
    BY <1>1, InvFits
  <2> QED
    BY <1>1, <1>4, <2>1, <2>3, <2>4, Becomes, TabsSame, TogetherHttp
<1>9. CASE ~Known(v, call.session)
  <2> DEFINE u == IF t.open THEN Probe(r) ELSE t
  <2>1. /\ calls' = calls \ {call} /\ mishaps' = Old(t, call)
        /\ tab' = [tab EXCEPT ![call.tab] = u]
    BY <1>1, <1>9
  <2>2. SameMirror(t, u)
    BY <1>6, <1>7, ProbeSame
  <2> HIDE DEF u
  <2>3. \A j \in calls' : CallStep(j)
    BY <2>1, CallsSame
  <2>4. budget' \in [BoundNames -> Nat] /\ mishaps \subseteq mishaps'
    BY <1>1, <2>1, InvFits, OldGrows
  <2> QED
    BY <1>1, <1>2, <1>4, <2>1, <2>2, <2>3, <2>4, ServesTab
<1> QED
  BY <1>8, <1>9

(* The room as the answer tells it, and what has been sent since, which is nothing. *)
LEMMA JoinEntersSteps ==
  ASSUME HttpInv, NEW call \in calls, JoinEnters(call)
  PROVE  HttpStep
<1> DEFINE s == call.session
           w == Enter(Server, s)
           k == [tab |-> call.tab, session |-> s, phase |-> "answered", peers |-> w.peers]
<1>1. /\ Become(w) /\ calls' = (calls \ {call}) \cup {k} /\ UNCHANGED <<tab, budget>>
      /\ mishaps' = IF sess[s].listed THEN mishaps ELSE mishaps \cup {"closed while joining"}
  BY DEF JoinEnters
<1>2. call.tab \in Tabs /\ s \in 1..Len(sess) /\ s \in Nat
  BY CallTypes
<1>3. /\ ServerFits(w) /\ Kept(Server, w) /\ Len(w.sess) = Len(Server.sess)
      /\ s \in DOMAIN w.peers /\ (Server.sess[s].listed => Lists(Server, w))
  BY <1>2, InvFits, Entered
<1> HIDE DEF w
<1>4. /\ w = [sess |-> w.sess, peers |-> w.peers]
      /\ w.peers \in PeerMaps /\ w.sess \in Seq(SessionSet)
      /\ s \in 1..Len(w.sess)
  BY <1>2, <1>3, InvFits DEF ServerFits, ServerTypes
<1>5. Server' = w /\ sess' = w.sess /\ peers' = w.peers
  BY <1>1, <1>4 DEF Become, Server
<1>6. /\ k \in AnsweredSet /\ k.tab = call.tab /\ k.session = s /\ k.peers = w.peers
      /\ k.phase = "answered"
  BY <1>2, <1>4 DEF AnsweredSet
<1> HIDE DEF k
<1>7. InNext(s)
  BY <1>3, <1>5 DEF InNext
<1>8. WatchNext(s, Without(w.peers, s))
  <2>1. CASE w.sess[s].done
    BY <1>5, <2>1 DEF WatchNext
  <2>2. CASE ~w.sess[s].done
    <3>1. MailFits(w, s)
      BY <1>3, <1>4 DEF ServerFits
    <3>2. Settled(Without(w.peers, s), w.sess[s].events)
      BY <1>3, <2>2, <3>1 DEF MailFits
    <3>3. w.sess[s].events \in Seq(EventSet)
      <4>1. w.sess[s] \in SessionSet
        BY <1>4
      <4> QED
        BY <4>1 DEF SessionSet
    <3>4. Shown(Without(w.peers, s), w.sess[s].events) = Without(w.peers, s)
      BY <3>2, <3>3, SettledNow
    <3>5. Follows(w, s, Without(w.peers, s))
      BY <3>4 DEF Follows
    <3> QED
      BY <1>5, <3>5 DEF WatchNext
  <2> QED
    BY <2>1, <2>2
<1>9. CallStep(k)
  BY <1>6, <1>7, <1>8 DEF CallStep, Origin
<1>10. \A j \in calls' : CallStep(j)
  <2>1. \A j \in calls' : j \in calls \/ j = k
    BY <1>1
  <2> QED
    BY <1>9, <2>1 DEF CallStep
<1>11. Lists(Server, Server') \/ "closed while joining" \in mishaps'
  BY <1>1, <1>3, <1>5, InvFits
<1>12. budget' \in [BoundNames -> Nat] /\ mishaps \subseteq mishaps'
  BY <1>1, InvFits
<1> QED
  BY <1>1, <1>3, <1>5, <1>10, <1>11, <1>12, TabsSame, TogetherHttp

LEMMA JoinAnsweredSteps ==
  ASSUME HttpInv, NEW call \in calls, JoinAnswered(call)
  PROVE  HttpStep
<1> DEFINE s == call.session
           t == tab[call.tab]
           a == ApplyJoin(t, call)
           u == IF t.open THEN a ELSE t
<1>1. /\ call.phase = "answered" /\ calls' = calls \ {call}
      /\ tab' = [tab EXCEPT ![call.tab] = u] /\ mishaps' = Old(t, call)
      /\ UNCHANGED <<sess, peers, budget>>
  BY DEF JoinAnswered
<1>2. /\ call \in Underway \cup AnsweredSet /\ call.tab \in Tabs
      /\ s \in 1..Len(sess) /\ s \in Nat
  BY CallTypes
<1>3. call \in AnsweredSet
  BY <1>1, <1>2 DEF Underway
<1>4. t \in TabSet /\ (t.open => t.session # 0)
  BY <1>2, TabTypes, InvFits
<1>5. Without(call.peers, s) \in PeerMaps
  BY <1>3, WithoutType DEF AnsweredSet
<1>6. /\ a \in TabSet /\ a.me = s /\ a.remote = Without(call.peers, s)
      /\ a.session = t.session
  <2>1. PICK d \in PeerMaps : d = Without(call.peers, s)
    BY <1>5
  <2>2. a = [t EXCEPT !.me = s, !.joined = TRUE, !.remote = d]
    BY <2>1 DEF ApplyJoin
  <2> HIDE DEF a
  <2>3. a \in TabSet /\ a.me = s /\ a.remote = d /\ a.session = t.session
    BY <1>2, <1>4, <2>2 DEF TabSet
  <2> QED
    BY <2>1, <2>3
<1> HIDE DEF a
<1>7. mishaps \subseteq mishaps'
  BY <1>1, OldGrows
<1>8. In(s)
  BY <1>1 DEF HttpInv, Present
<1>9. InNext(s)
  BY <1>1, <1>8 DEF In, InNext
<1>10. ASSUME Sound' PROVE WatchNext(s, Without(call.peers, s))
  <2>1. Sound
    BY <1>7, <1>10 DEF Sound
  <2>2. Watch(s, Without(call.peers, s))
    BY <1>1, <2>1 DEF HttpInv, CallsFollow
  <2>3. Server' = Server
    BY <1>1 DEF Server
  <2> QED
    BY <1>1, <2>2, <2>3 DEF Watch, WatchNext
<1>11. u \in TabSet
  BY <1>4, <1>6
<1>12. tab'[call.tab] = u
  BY <1>1, <1>2, TabTypes
<1>13. TabStep(call.tab)
  <2>1. CASE t.open
    <3>1. tab'[call.tab] = a
      BY <1>12, <2>1
    <3> QED
      BY <1>2, <1>4, <1>6, <1>9, <1>10, <2>1, <3>1 DEF TabStep
  <2>2. CASE ~t.open
    <3>1. tab'[call.tab] = t
      BY <1>12, <2>2
    <3> QED
      BY <2>2, <3>1 DEF TabStep
  <2> QED
    BY <2>1, <2>2
<1> HIDE DEF u
<1>14. TabsStep
  BY <1>1, <1>2, <1>11, <1>13, TabChanges
<1>15. \A j \in calls' : CallStep(j)
  BY <1>1, CallsSame
<1>16. budget' \in [BoundNames -> Nat]
  BY <1>1, InvFits
<1> QED
  BY <1>1, <1>7, <1>14, <1>15, <1>16, SameServer, TogetherHttp

-----------------------------------------------------------------------------
(* Of a buffer that is not empty. *)
LEMMA Waiting ==
  ASSUME NEW q \in Seq(EventSet), q # <<>>
  PROVE  /\ 1 \in 1..Len(q) /\ Head(q) = q[1] /\ Head(q) \in EventSet
         /\ Tail(q) \in Seq(EventSet)
<1>1. Len(q) \in Nat /\ Len(q) # 0
  BY EmptySeq
<1>2. Head(q) = q[1] /\ Tail(q) \in Seq(EventSet)
  OBVIOUS
<1> QED
  BY <1>1, <1>2

(* An event leaves the buffer of a session. *)
Pops(s) ==
  /\ s \in 1..Len(sess) /\ sess[s].events # <<>>
  /\ sess' = [sess EXCEPT ![s].events = Tail(@)]
  /\ UNCHANGED peers

LEMMA Popped ==
  ASSUME HttpInv, NEW s, Pops(s)
  PROVE  /\ ServerFits(Server') /\ Len(sess') = Len(sess)
         /\ Server'.sess = sess' /\ Server'.peers = peers
         /\ sess[s].events \in Seq(EventSet)
         /\ sess'[s].events = Tail(sess[s].events)
         /\ \A q \in 1..Len(sess) :
              /\ sess'[q].done = sess[q].done /\ sess'[q].listed = sess[q].listed
              /\ q # s => sess'[q].events = sess[q].events
<1> DEFINE r == [sess[s] EXCEPT !.events = Tail(sess[s].events)]
<1>1. s \in 1..Len(sess) /\ sess[s].events # <<>> /\ peers' = peers
  BY DEF Pops
<1>2. sess[s] \in SessionSet /\ sess \in Seq(SessionSet) /\ Len(sess) \in Nat
  BY <1>1, InvFits
<1>3. sess[s].events \in Seq(EventSet)
  BY <1>2 DEF SessionSet
<1>4. PICK q \in Seq(EventSet) : q = Tail(sess[s].events)
  BY <1>1, <1>3, Waiting
<1>5. /\ r \in SessionSet /\ r.events = q /\ r.done = sess[s].done
      /\ r.listed = sess[s].listed
  <2>1. r = [sess[s] EXCEPT !.events = q]
    BY <1>4
  <2> HIDE DEF r
  <2> QED
    BY <1>2, <2>1 DEF SessionSet
<1>6. sess' = [sess EXCEPT ![s] = r]
  BY DEF Pops
<1> HIDE DEF r
<1>7. /\ sess' \in Seq(SessionSet) /\ Len(sess') = Len(sess)
      /\ \A x \in 1..Len(sess) : sess'[x] = IF x = s THEN r ELSE sess[x]
  BY <1>1, <1>2, <1>5, <1>6
<1>8. \A x \in 1..Len(sess) :
        /\ sess'[x].done = sess[x].done /\ sess'[x].listed = sess[x].listed
        /\ x # s => sess'[x].events = sess[x].events
  BY <1>5, <1>7
<1>9. sess'[s].events = q
  BY <1>1, <1>5, <1>7
<1>10. /\ Server' = [sess |-> sess', peers |-> peers]
       /\ Server'.sess = sess' /\ Server'.peers = peers
  BY <1>1 DEF Server
<1>11. ServerTypes(Server')
  BY <1>7, <1>10, InvFits DEF ServerTypes
<1>12. ASSUME NEW x \in 1..Len(sess) PROVE MailFits(Server', x)
  <2>1. MailFits(Server, x)
    BY InvFits DEF ServerFits
  <2>2. Server.sess = sess /\ Server.peers = peers
    BY InvFits
  <2>3. CASE x # s
    BY <1>8, <1>10, <2>1, <2>2, <2>3 DEF MailFits
  <2>4. CASE x = s
    <3>1. ~sess[s].done => s \in DOMAIN peers
      BY <1>1, <2>1, <2>2, <2>4 DEF MailFits
    <3>2. ASSUME NEW i \in 1..Len(q) PROVE q[i].of # s
      <4>1. i + 1 \in 1..Len(sess[s].events) /\ q[i] = sess[s].events[i + 1]
        BY <1>1, <1>3, <1>4
      <4> QED
        BY <2>1, <2>2, <2>4, <4>1 DEF MailFits
    <3>3. ~sess[s].done => Settled(Without(peers, s), q)
      <4>1. ~sess[s].done => Settled(Without(peers, s), sess[s].events)
        BY <2>1, <2>2, <2>4, <3>1 DEF MailFits
      <4> QED
        BY <1>1, <1>3, <1>4, <4>1, SettledTail
    <3> QED
      BY <1>8, <1>9, <1>10, <2>4, <3>1, <3>2, <3>3 DEF MailFits
  <2> QED
    BY <2>3, <2>4
<1>13. ServerFits(Server')
  BY <1>7, <1>10, <1>11, <1>12 DEF ServerFits
<1> QED
  BY <1>3, <1>4, <1>7, <1>8, <1>9, <1>10, <1>13

(* What is shown of another session's room is not touched. *)
LEMMA WatchElsewhere ==
  ASSUME HttpInv, NEW s, Pops(s), NEW x \in 1..Len(sess), x # s, NEW d, Watch(x, d)
  PROVE  WatchNext(x, d)
<1>1. sess'[x].done = sess[x].done /\ sess'[x].events = sess[x].events
  BY Popped
<1>2. Server'.sess = sess' /\ Server'.peers = peers
  BY Popped
<1>3. Server.sess = sess /\ Server.peers = peers
  BY InvFits
<1> QED
  BY <1>1, <1>2, <1>3 DEF Watch, WatchNext, Follows

LEMMA PoppedKeeps ==
  ASSUME HttpInv, NEW s, Pops(s), UNCHANGED <<calls, budget>>, mishaps \subseteq mishaps',
         tab' \in [Tabs -> TabSet],
         \A c \in Tabs : /\ tab'[c].session = tab[c].session
                         /\ tab'[c].open = tab[c].open /\ tab'[c].me = tab[c].me,
         Sound' => CallsFollow' /\ TabsFollow'
  PROVE  HttpInv'
<1>1. /\ ServerFits(Server') /\ Len(sess') = Len(sess)
      /\ \A q \in 1..Len(sess) :
           sess'[q].done = sess[q].done /\ sess'[q].listed = sess[q].listed
      /\ peers' = peers
  BY Popped DEF Pops
<1>2. Types /\ Owned /\ Present /\ NobodyLeftBehindIfCoped
  BY DEF HttpInv
<1>3. Types'
  <2>1. \A k \in calls' : CallFits(k)'
    BY <1>1, <1>2 DEF Types, CallFits
  <2>2. \A c \in Tabs : TabFits(c)'
    BY <1>1, <1>2 DEF Types, TabFits
  <2>3. budget' \in [BoundNames -> Nat]
    BY InvFits
  <2> QED
    BY <1>1, <2>1, <2>2, <2>3 DEF Types
<1>4. Owned'
  BY <1>2 DEF Owned
<1>5. Present'
  <2>1. ASSUME NEW k \in calls, k.phase = "answered" PROVE InNext(k.session)
    BY <1>1, <1>2, <2>1, CallTypes DEF Present, In, InNext
  <2>2. ASSUME NEW c \in Tabs, tab'[c].me # 0 PROVE InNext(tab[c].me)
    <3>1. tab[c].me \in 1..Len(sess) /\ In(tab[c].me)
      BY <1>2, <2>2, TabTypes, InvFits DEF Present
    <3> QED
      BY <1>1, <3>1 DEF In, InNext
  <2> QED
    BY <2>1, <2>2 DEF Present, In, InNext
<1>6. NobodyLeftBehindIfCoped'
  BY <1>1, <1>2, InvFits DEF NobodyLeftBehindIfCoped, NobodyLeftBehind
<1> QED
  BY <1>3, <1>4, <1>5, <1>6 DEF HttpInv

LEMMA FrameLostKeeps ==
  ASSUME HttpInv, NEW s \in DOMAIN sess, FrameLost(s)
  PROVE  HttpInv'
<1>1. /\ sess[s].events # <<>> /\ sess' = [sess EXCEPT ![s].events = Tail(@)]
      /\ mishaps' = mishaps \cup {"frame lost"}
      /\ UNCHANGED <<peers, tab, calls, budget>>
  BY DEF FrameLost
<1>2. Pops(s)
  BY <1>1, InvFits DEF Pops
<1>3. ~Sound'
  BY <1>1 DEF Sound
<1>4. tab' \in [Tabs -> TabSet]
  BY <1>1 DEF HttpInv, Types
<1> QED
  BY <1>1, <1>2, <1>3, <1>4, PoppedKeeps

(* PresenceState.apply. *)
LEMMA Received ==
  ASSUME NEW t \in TabSet, NEW e \in EventSet, NEW u, u = Receive(t, e)
  PROVE  /\ u \in TabSet /\ u.session = t.session /\ u.open = t.open /\ u.me = t.me
         /\ t.me # 0 /\ e.of # t.me => u.remote = Apply(t.remote, e)
<1>1. t.remote \in PeerMaps
  BY DEF TabSet
<1>2. PICK d \in PeerMaps : d = Apply(t.remote, e)
  BY <1>1, ApplyType
<1>3. u = IF t.me = 0 \/ (e.kind = "joined" /\ e.of = t.me) THEN t
          ELSE [t EXCEPT !.remote = d]
  BY <1>2 DEF Receive
<1>4. PICK x : x = [t EXCEPT !.remote = d]
  OBVIOUS
<1>5. x \in TabSet /\ x.session = t.session /\ x.open = t.open /\ x.me = t.me /\ x.remote = d
  BY <1>4 DEF TabSet
<1> QED
  BY <1>2, <1>3, <1>4, <1>5

LEMMA DeliverKeeps ==
  ASSUME HttpInv, NEW c \in Tabs, Deliver(c)
  PROVE  HttpInv'
<1> DEFINE t == tab[c]
           s == t.session
           q == sess[s].events
           u == Receive(t, Head(q))
<1>1. /\ t.open /\ q # <<>> /\ sess' = [sess EXCEPT ![s].events = Tail(@)]
      /\ tab' = [tab EXCEPT ![c] = u]
      /\ mishaps' = IF \E k \in calls : k.tab = c /\ k.phase = "answered"
                    THEN mishaps \cup {"answer overtaken"} ELSE mishaps
      /\ UNCHANGED <<peers, calls, budget>>
  BY DEF Deliver
<1>2. t \in TabSet /\ s \in 1..Len(sess)
  BY <1>1, TabTypes
<1>3. Pops(s)
  BY <1>1, <1>2 DEF Pops
<1>4. /\ q \in Seq(EventSet) /\ 1 \in 1..Len(q) /\ Head(q) = q[1]
      /\ Head(q) \in EventSet
  <2>1. q \in Seq(EventSet)
    BY <1>3, Popped
  <2> HIDE DEF q
  <2> QED
    BY <1>1, <2>1, Waiting
<1>5. Head(q) \in EventSet
  BY <1>4
<1> HIDE DEF u
<1>6. /\ u \in TabSet /\ u.session = s /\ u.open = t.open /\ u.me = t.me
      /\ t.me # 0 /\ Head(q).of # t.me => u.remote = Apply(t.remote, Head(q))
  BY <1>2, <1>5, Received DEF u
<1>7. Head(q).of # s
  <2>1. MailFits(Server, s)
    BY <1>2, InvFits DEF ServerFits
  <2> QED
    BY <1>4, <2>1, InvFits DEF MailFits
<1>8. tab'[c] = u /\ \A d \in Tabs : d # c => tab'[d] = tab[d]
  BY <1>1, TabTypes
<1>9. tab' \in [Tabs -> TabSet]
  BY <1>1, <1>6 DEF HttpInv, Types
<1>10. \A d \in Tabs : /\ tab'[d].session = tab[d].session
                       /\ tab'[d].open = tab[d].open /\ tab'[d].me = tab[d].me
  BY <1>6, <1>8
<1>11. mishaps \subseteq mishaps'
  BY <1>1
<1>12. Owned
  BY DEF HttpInv
<1>13. ASSUME Sound' PROVE CallsFollow' /\ TabsFollow'
  <2>1. Sound /\ CallsFollow /\ TabsFollow
    BY <1>11, <1>13 DEF Sound, HttpInv
  <2>2. ASSUME NEW k \in calls, k.phase = "answered" PROVE k.tab # c
    BY <1>1, <1>13, <2>2 DEF Sound
  <2>3. ASSUME NEW k \in calls, k.phase = "answered"
        PROVE  WatchNext(k.session, Without(k.peers, k.session))
    <3>1. k.session # s
      BY <1>12, <2>2, <2>3 DEF Owned
    <3>2. Watch(k.session, Without(k.peers, k.session))
      BY <2>1, <2>3 DEF CallsFollow
    <3>3. k.session \in 1..Len(sess)
      BY CallTypes
    <3> QED
      BY <1>3, <3>1, <3>2, <3>3, WatchElsewhere
  <2>4. ASSUME NEW d \in Tabs, tab'[d].me # 0, tab'[d].me = tab'[d].session
        PROVE  WatchNext(tab'[d].me, tab'[d].remote)
    <3>1. CASE d # c
      <4>1. tab[d].me # s
        BY <1>8, <1>12, <2>4, <3>1 DEF Owned
      <4>2. tab[d].me \in 1..Len(sess)
        BY <1>8, <2>4, <3>1, TabTypes, InvFits
      <4>3. Watch(tab[d].me, tab[d].remote)
        BY <1>8, <2>1, <2>4, <3>1 DEF TabsFollow
      <4>4. WatchNext(tab[d].me, tab[d].remote)
        BY <1>3, <4>1, <4>2, <4>3, WatchElsewhere
      <4> QED
        BY <1>8, <3>1, <4>4
    <3>2. CASE d = c
      <4>1. t.me = s /\ s # 0 /\ u.remote = Apply(t.remote, Head(q))
        BY <1>6, <1>7, <1>8, <2>4, <3>2
      <4>2. Watch(s, t.remote)
        BY <2>1, <4>1 DEF TabsFollow
      <4>3. /\ sess'[s].done = sess[s].done /\ sess'[s].events = Tail(q)
            /\ Server'.sess = sess' /\ Server'.peers = peers
        BY <1>2, <1>3, Popped
      <4>4. Shown(t.remote, q) = Shown(Apply(t.remote, Head(q)), Tail(q))
        BY <1>1, <1>4, ShownHead
      <4>5. WatchNext(s, u.remote)
        BY <4>1, <4>2, <4>3, <4>4, InvFits DEF Watch, WatchNext, Follows
      <4> QED
        BY <1>6, <1>8, <3>2, <4>1, <4>5
    <3> QED
      BY <3>1, <3>2
  <2>5. CallsFollow'
    BY <1>1, <2>3 DEF CallsFollow, Watch, WatchNext
  <2>6. TabsFollow'
    BY <2>4 DEF TabsFollow, Watch, WatchNext
  <2> QED
    BY <2>5, <2>6
<1> QED
  BY <1>1, <1>3, <1>9, <1>10, <1>11, <1>13, PoppedKeeps

-----------------------------------------------------------------------------
(* The invariant. *)
LEMMA InitHolds == HttpInit => HttpInv
<1> SUFFICES ASSUME HttpInit PROVE HttpInv
  OBVIOUS
<1>1. /\ sess = <<>> /\ peers = NoPeers /\ tab = [c \in Tabs |-> Unopened]
      /\ calls = {} /\ budget \in HttpBounds /\ mishaps = {}
  BY DEF HttpInit
<1>2. NoPeers \in PeerMaps /\ DOMAIN NoPeers = {}
  <2>1. {} \in SUBSET Nat /\ NoPeers \in [{} -> Nat] /\ DOMAIN NoPeers = {}
    BY DEF NoPeers
  <2> QED
    BY <2>1, IsPeerMap
<1>3. /\ Server = [sess |-> Server.sess, peers |-> Server.peers]
      /\ Server.sess = <<>> /\ Server.peers = NoPeers
  BY <1>1 DEF Server
<1>4. <<>> \in Seq(SessionSet) /\ Len(<<>>) = 0 /\ 1..Len(<<>>) = {}
  OBVIOUS
<1>5. ServerFits(Server)
  BY <1>2, <1>3, <1>4 DEF ServerFits, ServerTypes
<1>6. /\ Unopened \in TabSet /\ Unopened.session = 0 /\ Unopened.me = 0
      /\ ~Unopened.open
  BY <1>2 DEF Unopened, TabSet
<1>7. tab \in [Tabs -> TabSet] /\ \A c \in Tabs : tab[c] = Unopened
  BY <1>1, <1>6
<1>8. budget \in [BoundNames -> Nat]
  BY <1>1, HttpAssumption
<1>9. Types
  BY <1>1, <1>4, <1>5, <1>6, <1>7, <1>8 DEF Types, TabFits
<1>10. Owned /\ Present
  BY <1>1, <1>6, <1>7 DEF Owned, Present
<1>11. CallsFollow /\ TabsFollow
  BY <1>1, <1>6, <1>7 DEF CallsFollow, TabsFollow
<1>12. NobodyLeftBehindIfCoped
  BY <1>1, <1>2 DEF NobodyLeftBehindIfCoped, NobodyLeftBehind
<1> QED
  BY <1>9, <1>10, <1>11, <1>12 DEF HttpInv

LEMMA StutterHolds == HttpInv /\ UNCHANGED hvars => HttpInv'
BY DEF hvars, HttpInv, Types, Owned, Present, Sound, CallsFollow, TabsFollow, CallFits,
       TabFits, In, Watch, Server, NobodyLeftBehindIfCoped, NobodyLeftBehind

(* Every step of the server, of a tab or of the network keeps the room as the   *)
(* tabs are told of it, for any number of tabs and sessions and any buffer.     *)
THEOREM HttpInductive == HttpSpec => []HttpInv
<1>1. HttpInit => HttpInv
  BY InitHolds
<1>2. HttpInv /\ [HttpNext]_hvars => HttpInv'
  <2> SUFFICES ASSUME HttpInv, [HttpNext]_hvars PROVE HttpInv'
    OBVIOUS
  <2>1. ASSUME NEW c \in Tabs, OpenTab(c) \/ CloseTab(c) \/ Publish(c) PROVE HttpInv'
    BY <2>1, OpenTabSteps, CloseTabSteps, PublishSteps, StepKeeps
  <2>2. ASSUME NEW c \in Tabs,
               \/ StreamOpens(c) \/ StreamRefused(c) \/ StreamBreaks(c)
               \/ StreamEnds(c) \/ Deliver(c)
        PROVE  HttpInv'
    BY <2>2, StreamOpensSteps, StreamRefusedSteps, StreamBreaksSteps, StreamEndsSteps,
       DeliverKeeps, StepKeeps
  <2>3. ASSUME NEW c \in Tabs, ProbeReturns(c) \/ MintRefused(c) \/ AttachTimesOut(c)
        PROVE  HttpInv'
    BY <2>3, ProbeReturnsSteps, MintRefusedSteps, AttachTimesOutSteps, StepKeeps
  <2>4. ASSUME NEW call \in calls,
               JoinLookedUp(call) \/ JoinEnters(call) \/ JoinAnswered(call)
        PROVE  HttpInv'
    BY <2>4, JoinLookedUpSteps, JoinEntersSteps, JoinAnsweredSteps, StepKeeps
  <2>5. ASSUME NEW s \in DOMAIN sess, BreakNoticed(s) \/ FrameLost(s) \/ Idles(s)
        PROVE  HttpInv'
    BY <2>5, BreakNoticedSteps, FrameLostKeeps, IdlesSteps, StepKeeps
  <2>6. CASE OtherRequest
    BY <2>6, OtherRequestSteps, StepKeeps
  <2>7. CASE UNCHANGED hvars
    BY <2>7, StutterHolds
  <2> QED
    BY <2>1, <2>2, <2>3, <2>4, <2>5, <2>6, <2>7 DEF HttpNext
<1> QED
  BY <1>1, <1>2, PTL DEF HttpSpec

(* As long as no session is closed between the lookup of its join and its entry, *)
(* whoever is in the room has a session that the server can still expire.        *)
THEOREM NobodyEverLeftBehind == HttpSpec => []NobodyLeftBehindIfCoped
<1>1. HttpInv => NobodyLeftBehindIfCoped
  BY DEF HttpInv
<1> QED
  BY <1>1, HttpInductive, PTL

(* As long as no answer is overtaken or comes of an old session and no event is  *)
(* taken by a dead stream, a joined tab shows the room, up to the events on      *)
(* their way to it.                                                              *)
THEOREM MirrorAlwaysAgrees == HttpSpec => []MirrorAgreesIfCoped
<1>1. HttpInv => MirrorAgreesIfCoped
  <2> SUFFICES ASSUME HttpInv, Sound, NEW c \in Tabs,
                      tab[c].open, tab[c].me = tab[c].session, ~sess[tab[c].me].done
               PROVE  FoldLeft(Apply, tab[c].remote, sess[tab[c].me].events)
                        = Without(peers, tab[c].me)
    BY DEF MirrorAgreesIfCoped, MirrorAgrees, Sound
  <2>1. tab[c].me # 0
    BY TabTypes, InvFits
  <2>2. Watch(tab[c].me, tab[c].remote)
    BY <2>1 DEF HttpInv, TabsFollow
  <2>3. Server.sess = sess /\ Server.peers = peers
    BY InvFits
  <2> QED
    BY <2>2, <2>3 DEF Watch, Follows, Shown
<1> QED
  BY <1>1, HttpInductive, PTL

=============================================================================
