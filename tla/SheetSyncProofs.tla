-------------------------- MODULE SheetSyncProofs --------------------------
(***************************************************************************)
(* Every tab takes the log in, position by position, its edits enter the   *)
(* log once and in the order they were made, and on a socket it shows the  *)
(* log with its pending edits on top: proofs about SheetSync for any tabs, *)
(* cells, retention limit and bounds on what happens, over both networks,  *)
(* as long as none of the situations in AllMishaps arises that the code    *)
(* does not cope with.  At the end, what the row transforms of Transform   *)
(* do to the rows an edit names, without a bound on the sheet.             *)
(***************************************************************************)
EXTENDS SheetSync, Transform, TLAPS

(* What is left of the inbox of a tab whose connection ends. *)
Kept == INSTANCE Folding WITH Op <- KeepAnswer

OpSet == [n : Nat, cell : Cells]
EntrySet == [seq : Nat, client : Tabs, ops : OpSet]
SlotSet == EntrySet \cup {Replaced(n) : n \in Nat}

Messages ==
  [kind : {"op", "accepted"}, entry : EntrySet]
    \cup [kind : {"file"}, reset : BOOLEAN, savedSeq : Nat]
    \cup [kind : {"joined"}, savedSeq : Nat]
    \cup [kind : {"since"}, answer : [ops : Seq(EntrySet), head : Nat, reset : BOOLEAN]]
    \cup [kind : {"failed", "stale", "refused"}]

-----------------------------------------------------------------------------
(***************************************************************************)
(* The log retains the end of what it accepted, past the saved position.   *)
(***************************************************************************)
LogFits(l, s) ==
  /\ DOMAIN l = {"entries", "seq", "savedSeq"}
  /\ s \in Seq(SlotSet) /\ l.entries \in Seq(EntrySet)
  /\ l.seq = Len(s) /\ l.savedSeq \in 0..Len(s)
  /\ Len(l.entries) <= l.seq - l.savedSeq
  /\ \A i \in 1..Len(l.entries) : l.entries[i] = s[l.seq - Len(l.entries) + i]
  /\ l.entries = <<>> => l.savedSeq = l.seq
  /\ \A k \in 1..Len(s) : s[k].seq = k /\ (k > l.savedSeq => IsOp(s[k]))

(* A position that is an operation is an entry. *)
LEMMA SlotIsOp ==
  ASSUME NEW e \in SlotSet, IsOp(e)
  PROVE  e \in EntrySet
BY DEF SlotSet, Replaced, Entry, IsOp

(* An entry is an operation of a tab. *)
LEMMA EntryIsOp ==
  ASSUME NEW e \in EntrySet
  PROVE  IsOp(e) /\ e.seq \in Nat /\ e.client \in Tabs /\ e.ops.cell \in Cells
BY SheetAssumption DEF EntrySet, OpSet, IsOp

(* Positions are numbered. *)
LEMMA SlotSeq ==
  ASSUME NEW e \in SlotSet
  PROVE  e.seq \in Nat
BY DEF SlotSet, EntrySet, Replaced, Entry

(* The rest of a sequence behind its first k elements. *)
LEMMA SubSeqRest ==
  ASSUME NEW T, NEW s \in Seq(T), NEW k \in 0..Len(s)
  PROVE  /\ SubSeq(s, k + 1, Len(s)) \in Seq(T)
         /\ Len(SubSeq(s, k + 1, Len(s))) = Len(s) - k
         /\ \A i \in 1..(Len(s) - k) : SubSeq(s, k + 1, Len(s))[i] = s[k + i]
BY SMT

(* The end of a sequence, by its length. *)
LEMMA RestOfLength ==
  ASSUME NEW T, NEW s \in Seq(T), NEW n \in Nat, Len(s) = n + 1, NEW k \in 0..n
  PROVE  /\ SubSeq(s, k + 1, Len(s)) \in Seq(T)
         /\ Len(SubSeq(s, k + 1, Len(s))) = n + 1 - k
         /\ \A i \in 1..(n + 1 - k) : SubSeq(s, k + 1, Len(s))[i] = s[k + i]
<1>1. k \in 0..Len(s) /\ Len(s) - k = n + 1 - k
  OBVIOUS
<1>2. /\ SubSeq(s, k + 1, Len(s)) \in Seq(T)
      /\ Len(SubSeq(s, k + 1, Len(s))) = Len(s) - k
      /\ \A i \in 1..(Len(s) - k) : SubSeq(s, k + 1, Len(s))[i] = s[k + i]
  BY <1>1, SubSeqRest
<1> QED
  BY <1>1, <1>2

(* Of entries that are numbered one after the other, those behind a position. *)
Behind(entries, from, s) ==
  IF s < from THEN 0 ELSE IF s - from > Len(entries) THEN Len(entries) ELSE s - from

(* Of consecutive entries, After picks those past a position. *)
LEMMA AfterRun ==
  ASSUME NEW entries \in Seq(EntrySet), NEW from \in Nat, NEW s \in Nat,
         \A i \in 1..Len(entries) : entries[i].seq = from + i
  PROVE  /\ Behind(entries, from, s) \in 0..Len(entries)
         /\ After(entries, s) \in Seq(EntrySet)
         /\ Len(After(entries, s)) = Len(entries) - Behind(entries, from, s)
         /\ \A i \in 1..(Len(entries) - Behind(entries, from, s)) :
              After(entries, s)[i] = entries[Behind(entries, from, s) + i]
<1> DEFINE m == Len(entries)
           k == Behind(entries, from, s)
           P(i) == /\ \A j \in 1..i : entries[j].seq <= s
                   /\ i < m => entries[i + 1].seq > s
<1>0. m \in Nat /\ \A i \in 1..m : entries[i].seq = from + i
  OBVIOUS
<1>a. \/ s < from /\ k = 0
      \/ s >= from /\ s - from > m /\ k = m
      \/ s >= from /\ s - from <= m /\ k = s - from
  BY DEF Behind
<1> HIDE DEF m, k
<1>1. m \in Nat /\ k \in 0..m
  BY <1>0, <1>a
<1>2. P(k)
  <2>1. \A j \in 1..k : j \in 1..m /\ from + j <= s
    BY <1>1, <1>a
  <2>2. k < m => k + 1 \in 1..m /\ from + (k + 1) > s
    BY <1>1, <1>a
  <2> QED
    BY <1>0, <2>1, <2>2
<1>3. ASSUME NEW i \in 0..m, P(i) PROVE i = k
  <2>1. CASE i < k
    <3>1. i + 1 \in 1..m /\ entries[i + 1].seq = from + (i + 1) /\ i < m
      BY <1>0, <1>1, <2>1
    <3>2. from + (i + 1) > s
      BY <1>3, <3>1
    <3> QED
      BY <1>1, <1>a, <2>1, <3>2
  <2>2. CASE i > k
    <3>1. k + 1 \in 1..i /\ k + 1 \in 1..m /\ entries[k + 1].seq = from + (k + 1)
      BY <1>0, <1>1, <2>2
    <3>2. from + (k + 1) <= s
      BY <1>3, <3>1
    <3> QED
      BY <1>1, <1>a, <2>2, <3>2
  <2> QED
    BY <1>1, <2>1, <2>2
<1>4. PrefixEnd(entries, s) = CHOOSE i \in 0..m : P(i)
  BY Zenon DEF PrefixEnd, m
<1> HIDE DEF P
<1>5. PrefixEnd(entries, s) = k
  BY <1>1, <1>2, <1>3, <1>4
<1>6. After(entries, s) = SubSeq(entries, k + 1, m)
  BY <1>5 DEF After, m
<1>7. /\ After(entries, s) \in Seq(EntrySet) /\ Len(After(entries, s)) = m - k
      /\ \A i \in 1..(m - k) : After(entries, s)[i] = entries[k + i]
  BY <1>1, <1>6, SubSeqRest DEF m
<1> QED
  BY <1>1, <1>7 DEF k, m

(* The retained entries are numbered up to the head. *)
Base(l) == l.seq - Len(l.entries)

(* The retained entries are numbered one after the other up to the head. *)
LEMMA RetainedRun ==
  ASSUME NEW l, NEW s, LogFits(l, s)
  PROVE  /\ Base(l) \in l.savedSeq..l.seq /\ Base(l) \in Nat /\ Len(l.entries) \in Nat
         /\ Base(l) = l.seq - Len(l.entries) /\ l.seq \in Nat /\ l.seq = Len(s)
         /\ l.savedSeq \in Nat /\ l.entries \in Seq(EntrySet)
         /\ \A i \in 1..Len(l.entries) : l.entries[i].seq = Base(l) + i
<1> DEFINE m == Len(l.entries)
           from == l.seq - m
<1>1. m \in Nat /\ l.seq \in Nat /\ l.savedSeq \in 0..l.seq /\ m <= l.seq - l.savedSeq
  BY DEF LogFits
<1> HIDE DEF m
<1>2. from \in l.savedSeq..l.seq /\ from \in Nat
  BY <1>1
<1>3. ASSUME NEW i \in 1..m PROVE l.entries[i].seq = from + i
  <2>1. from + i \in 1..Len(s)
    BY <1>1, <1>2 DEF LogFits
  <2>2. l.entries[i] = s[from + i] /\ s[from + i].seq = from + i
    BY <2>1 DEF LogFits, m
  <2> QED
    BY <2>2
<1>4. l.seq = Len(s) /\ l.savedSeq \in Nat /\ l.entries \in Seq(EntrySet)
  BY <1>1 DEF LogFits
<1> QED
  BY <1>1, <1>2, <1>3, <1>4 DEF m, Base

(* AppendOp. *)
LEMMA AppendFits ==
  ASSUME NEW l, NEW s, LogFits(l, s), NEW c \in Tabs, NEW op \in OpSet
  PROVE  /\ Entry(l.seq + 1, c, op) \in EntrySet
         /\ LogFits(AppendOp(l, c, op), Append(s, Entry(l.seq + 1, c, op)))
<1> DEFINE e == Entry(l.seq + 1, c, op)
           m == Len(l.entries)
           grown == Append(l.entries, e)
           k == IF m + 1 > MaxOpsPerRoom THEN m + 1 - MaxOpsPerRoom ELSE 0
           longer == Append(s, e)
           new == AppendOp(l, c, op)
<1>1. /\ m \in Nat /\ l.seq \in Nat /\ l.seq = Len(s) /\ l.savedSeq \in 0..l.seq
      /\ m <= l.seq - l.savedSeq /\ s \in Seq(SlotSet) /\ l.entries \in Seq(EntrySet)
  BY DEF LogFits
<1>2. e \in EntrySet /\ e \in SlotSet /\ e.seq = l.seq + 1 /\ IsOp(e)
  <2>1. e \in EntrySet /\ e.seq = l.seq + 1
    BY <1>1 DEF EntrySet, Entry
  <2> QED
    BY <2>1, EntryIsOp DEF SlotSet
<1> HIDE DEF e
<1>3. /\ grown \in Seq(EntrySet) /\ Len(grown) = m + 1 /\ grown[m + 1] = e
      /\ \A i \in 1..m : grown[i] = l.entries[i]
  BY <1>1, <1>2
<1>4. /\ longer \in Seq(SlotSet) /\ Len(longer) = l.seq + 1 /\ longer[l.seq + 1] = e
      /\ \A i \in 1..l.seq : longer[i] = s[i]
  BY <1>1, <1>2
<1> HIDE DEF grown, longer
<1>5. k \in 0..m
  BY <1>1, RetentionAssumption
<1>6. Trim(grown) = SubSeq(grown, k + 1, Len(grown))
  <2>1. CASE m + 1 > MaxOpsPerRoom
    <3>1. Len(grown) - MaxOpsPerRoom + 1 = k + 1
      BY <1>1, <1>3, <2>1, RetentionAssumption
    <3> QED
      BY <1>3, <2>1, <3>1 DEF Trim
  <2>2. CASE ~(m + 1 > MaxOpsPerRoom)
    <3>1. \A f \in Seq(EntrySet) : f = SubSeq(f, 0 + 1, Len(f))
      OBVIOUS
    <3> QED
      BY <1>3, <2>2, <3>1 DEF Trim
  <2> QED
    BY <2>1, <2>2
<1> HIDE DEF k, m
<1>7. /\ Trim(grown) \in Seq(EntrySet) /\ Len(Trim(grown)) = m + 1 - k
      /\ \A i \in 1..(m + 1 - k) : Trim(grown)[i] = grown[k + i]
  BY <1>1, <1>3, <1>5, <1>6, RestOfLength
<1>8. /\ DOMAIN new = {"entries", "seq", "savedSeq"} /\ new.entries = Trim(grown)
      /\ new.seq = l.seq + 1 /\ new.savedSeq = l.savedSeq
  BY DEF AppendOp, grown, e
<1> HIDE DEF new
<1>9. ASSUME NEW i \in 1..Len(new.entries)
      PROVE  new.entries[i] = longer[new.seq - Len(new.entries) + i]
  <2>0. Len(new.entries) = m + 1 - k /\ new.seq = l.seq + 1
    BY <1>7, <1>8
  <2>1. /\ i \in 1..(m + 1 - k) /\ new.entries[i] = grown[k + i]
        /\ new.seq - Len(new.entries) + i = (l.seq - m) + (k + i)
        /\ k + i \in 1..(m + 1)
    <3>1. i \in 1..(m + 1 - k)
      BY <2>0
    <3>2. \A q \in Nat : (q + 1) - (m + 1 - k) + i = (q - m) + (k + i)
      BY <1>1, <1>5, <3>1
    <3>3. k + i \in 1..(m + 1)
      BY <1>1, <1>5, <3>1
    <3> QED
      BY <1>1, <1>7, <1>8, <2>0, <3>1, <3>2, <3>3
  <2>2. CASE k + i = m + 1
    BY <1>1, <1>3, <1>4, <2>1, <2>2
  <2>3. CASE k + i # m + 1
    <3>1. k + i \in 1..m /\ (l.seq - m) + (k + i) \in 1..l.seq
      BY <1>1, <1>5, <2>1, <2>3
    <3>2. l.entries[k + i] = s[(l.seq - m) + (k + i)]
      BY <3>1 DEF LogFits, m
    <3>3. grown[k + i] = l.entries[k + i]
          /\ longer[(l.seq - m) + (k + i)] = s[(l.seq - m) + (k + i)]
      BY <1>3, <1>4, <3>1
    <3> QED
      BY <2>1, <3>2, <3>3
  <2> QED
    BY <2>2, <2>3
<1>10. new.entries # <<>> /\ Len(new.entries) <= new.seq - new.savedSeq
  BY <1>1, <1>5, <1>7, <1>8
<1>11. ASSUME NEW j \in 1..Len(longer)
       PROVE  longer[j].seq = j /\ (j > new.savedSeq => IsOp(longer[j]))
  <2>1. j \in 1..l.seq \/ j = l.seq + 1
    BY <1>1, <1>4
  <2> QED
    BY <1>1, <1>2, <1>4, <1>8, <2>1 DEF LogFits
<1>12. new.seq = Len(longer) /\ new.savedSeq \in 0..Len(longer)
  BY <1>1, <1>4, <1>8
<1> QED
  BY <1>2, <1>4, <1>7, <1>8, <1>9, <1>10, <1>11, <1>12 DEF LogFits, e, longer, new

(* MarkSaved. *)
LEMMA MarkSavedFits ==
  ASSUME NEW l, NEW s, LogFits(l, s), NEW seq \in Nat
  PROVE  /\ LogFits(MarkSaved(l, seq), s) /\ MarkSaved(l, seq).savedSeq >= l.savedSeq
         /\ seq \in l.savedSeq..l.seq => MarkSaved(l, seq).savedSeq = seq
<1> DEFINE m == Len(l.entries)
           from == Base(l)
           saved == IF seq > l.seq THEN l.seq ELSE seq
           new == MarkSaved(l, seq)
<1>1. /\ m \in Nat /\ l.seq \in Nat /\ l.seq = Len(s) /\ l.savedSeq \in 0..l.seq
      /\ m <= l.seq - l.savedSeq /\ s \in Seq(SlotSet) /\ l.entries \in Seq(EntrySet)
      /\ from \in l.savedSeq..l.seq /\ from \in Nat
      /\ (\A i \in 1..m : l.entries[i].seq = from + i) /\ from = l.seq - m
  BY RetainedRun DEF LogFits, Base
<1> HIDE DEF from
<1>2. CASE seq <= l.savedSeq
  BY <1>1, <1>2 DEF MarkSaved
<1>3. CASE ~(seq <= l.savedSeq)
  <2> DEFINE k == Behind(l.entries, from, saved)
             rest == After(l.entries, saved)
  <2>1. saved \in l.savedSeq..l.seq /\ saved \in Nat
    BY <1>1, <1>3
  <2>2. /\ DOMAIN new = {"entries", "seq", "savedSeq"} /\ new.entries = rest
        /\ new.seq = l.seq /\ new.savedSeq = saved
    BY <1>3 DEF MarkSaved
  <2> HIDE DEF saved
  <2>3. /\ k \in 0..m /\ rest \in Seq(EntrySet) /\ Len(rest) = m - k
        /\ \A i \in 1..(m - k) : rest[i] = l.entries[k + i]
    BY <1>1, <2>1, AfterRun, ZenonT(30)
  <2>4. k = IF saved < from THEN 0 ELSE saved - from
    BY <1>1, <2>1 DEF Behind
  <2> HIDE DEF new, rest, k, m
  <2>5. Len(new.entries) <= new.seq - new.savedSeq
    BY <1>1, <2>1, <2>2, <2>3, <2>4
  <2>6. ASSUME NEW i \in 1..Len(new.entries)
        PROVE  new.entries[i] = s[new.seq - Len(new.entries) + i]
    <3>1. /\ i \in 1..(m - k) /\ new.entries[i] = l.entries[k + i] /\ k + i \in 1..m
          /\ new.seq - Len(new.entries) + i = l.seq - m + (k + i)
      BY <1>1, <2>2, <2>3
    <3>2. l.entries[k + i] = s[l.seq - m + (k + i)]
      BY <3>1 DEF LogFits, m
    <3> QED
      BY <3>1, <3>2
  <2>7. new.entries = <<>> => new.savedSeq = new.seq
    <3>1. new.entries = <<>> => m - k = 0
      BY <2>2, <2>3
    <3>2. m = 0 => l.savedSeq = l.seq
      BY <1>1 DEF LogFits, m
    <3> QED
      BY <1>1, <2>1, <2>2, <2>3, <2>4, <3>1, <3>2
  <2>8. new.savedSeq >= l.savedSeq /\ (seq \in l.savedSeq..l.seq => new.savedSeq = seq)
        /\ new.savedSeq \in 0..Len(s)
    BY <1>1, <2>1, <2>2 DEF saved
  <2>9. \A j \in 1..Len(s) : s[j].seq = j /\ (j > new.savedSeq => IsOp(s[j]))
    BY <1>1, <2>8 DEF LogFits
  <2> QED
    BY <1>1, <2>2, <2>3, <2>5, <2>6, <2>7, <2>8, <2>9 DEF LogFits, new
<1> QED
  BY <1>2, <1>3

(* Reset. *)
LEMMA ResetFits ==
  ASSUME NEW l, NEW s, LogFits(l, s)
  PROVE  /\ Replaced(Reset(l).seq) \in SlotSet
         /\ LogFits(Reset(l), Append(s, Replaced(Reset(l).seq)))
         /\ Reset(l).savedSeq = Len(s) + 1
<1> DEFINE new == Reset(l)
           e == Replaced(new.seq)
           longer == Append(s, e)
<1>1. s \in Seq(SlotSet) /\ Len(s) \in Nat /\ l.seq = Len(s)
  BY DEF LogFits
<1>2. /\ DOMAIN new = {"entries", "seq", "savedSeq"} /\ new.entries = <<>>
      /\ new.seq = Len(s) + 1 /\ new.savedSeq = Len(s) + 1
  BY <1>1 DEF Reset
<1>3. e \in SlotSet /\ e.seq = Len(s) + 1
  BY <1>1, <1>2 DEF SlotSet, Replaced, Entry
<1> HIDE DEF new, e
<1>4. /\ longer \in Seq(SlotSet) /\ Len(longer) = Len(s) + 1 /\ longer[Len(s) + 1] = e
      /\ \A i \in 1..Len(s) : longer[i] = s[i]
  BY <1>1, <1>3
<1> HIDE DEF longer
<1>5. ASSUME NEW j \in 1..Len(longer)
      PROVE  longer[j].seq = j /\ ~(j > new.savedSeq)
  <2>1. j \in 1..Len(s) \/ j = Len(s) + 1
    BY <1>1, <1>4
  <2> QED
    BY <1>1, <1>2, <1>3, <1>4, <2>1 DEF LogFits
<1>6. /\ new.entries \in Seq(EntrySet) /\ Len(new.entries) = 0
      /\ new.savedSeq \in 0..Len(longer) /\ new.seq = Len(longer)
      /\ Len(new.entries) <= new.seq - new.savedSeq
  BY <1>1, <1>2, <1>4
<1> QED
  BY <1>2, <1>3, <1>4, <1>5, <1>6 DEF LogFits, new, e, longer

(* The retained entries behind a position they reach back to. *)
LEMMA RestFits ==
  ASSUME NEW l, NEW s, LogFits(l, s), NEW from \in Base(l)..l.seq
  PROVE  /\ After(l.entries, from) \in Seq(EntrySet)
         /\ Len(After(l.entries, from)) = l.seq - from
         /\ \A i \in 1..(l.seq - from) : After(l.entries, from)[i] = s[from + i]
<1> DEFINE m == Len(l.entries)
           base == Base(l)
           k == Behind(l.entries, base, from)
           rest == After(l.entries, from)
<1>1. /\ m \in Nat /\ l.seq \in Nat /\ l.seq = Len(s) /\ l.entries \in Seq(EntrySet)
      /\ base \in l.savedSeq..l.seq /\ base \in Nat /\ base = l.seq - m
      /\ l.savedSeq \in Nat
      /\ \A i \in 1..m : l.entries[i].seq = base + i
  BY RetainedRun
<1>2. from \in Nat /\ from >= base /\ from <= l.seq
  BY <1>1
<1> HIDE DEF base
<1>3. /\ k \in 0..m /\ rest \in Seq(EntrySet) /\ Len(rest) = m - k
      /\ \A i \in 1..(m - k) : rest[i] = l.entries[k + i]
  BY <1>1, <1>2, AfterRun, ZenonT(30)
<1>4. k = from - base
  BY <1>1, <1>2 DEF Behind
<1> HIDE DEF k, rest, m
<1>5. Len(rest) = l.seq - from
  BY <1>1, <1>2, <1>3, <1>4
<1>6. ASSUME NEW i \in 1..(l.seq - from) PROVE rest[i] = s[from + i]
  <2>1. /\ i \in 1..(m - k) /\ k + i \in 1..m /\ base + (k + i) = from + i
        /\ l.seq - m + (k + i) = from + i
    BY <1>1, <1>2, <1>3, <1>4
  <2>2. l.entries[k + i] = s[l.seq - m + (k + i)]
    BY <2>1 DEF LogFits, m
  <2> QED
    BY <1>3, <2>1, <2>2
<1> QED
  BY <1>3, <1>5, <1>6 DEF rest

(* A position that may be replayed from has everything after it retained. *)
LEMMA ReplayableReaches ==
  ASSUME NEW l, NEW s, LogFits(l, s), NEW from \in 0..Len(s), Replayable(l, from),
         from # l.seq
  PROVE  from >= Base(l) /\ from >= l.savedSeq
<1> DEFINE m == Len(l.entries)
           base == Base(l)
<1>1. /\ m \in Nat /\ l.seq \in Nat /\ l.seq = Len(s) /\ l.entries \in Seq(EntrySet)
      /\ base \in Nat /\ base = l.seq - m /\ l.savedSeq \in Nat
      /\ \A i \in 1..m : l.entries[i].seq = base + i
  BY RetainedRun
<1>2. from >= l.savedSeq /\ from < l.seq /\ (l.entries # <<>> => l.entries[1].seq <= from + 1)
  BY <1>1 DEF Replayable
<1>3. l.entries # <<>>
  BY <1>1, <1>2 DEF LogFits
<1>4. \A f \in Seq(EntrySet) : f # <<>> => Len(f) > 0
  OBVIOUS
<1>5. m > 0
  BY <1>1, <1>3, <1>4
<1> HIDE DEF m, base
<1>6. l.entries[1].seq = base + 1
  BY <1>1, <1>5
<1>7. from >= base
  BY <1>1, <1>2, <1>3, <1>6
<1> QED
  BY <1>2, <1>7 DEF base

(* Since: what it answers, unless it tells the client to reset, is what followed. *)
Follows(s, from, ops) ==
  /\ ops \in Seq(EntrySet) /\ Len(ops) = Len(s) - from
  /\ \A i \in 1..(Len(s) - from) : ops[i] = s[from + i]

(* An answer of Since that is no reset is what followed the position. *)
LEMMA SinceFits ==
  ASSUME NEW l, NEW s, LogFits(l, s), NEW from \in 0..Len(s)
  PROVE  \/ Since(l, from) = [ops |-> <<>>, head |-> Len(s), reset |-> TRUE]
         \/ /\ Since(l, from) = [ops |-> Since(l, from).ops, head |-> Len(s), reset |-> FALSE]
            /\ Follows(s, from, Since(l, from).ops)
            /\ from = Len(s) \/ from >= l.savedSeq
<1>1. l.seq = Len(s) /\ Len(s) \in Nat /\ ~(from < 0)
  BY DEF LogFits
<1>2. CASE ~Replayable(l, from)
  BY <1>1, <1>2 DEF Since
<1>3. CASE Replayable(l, from) /\ from = l.seq
  <2>1. Since(l, from) = [ops |-> <<>>, head |-> Len(s), reset |-> FALSE]
    BY <1>1, <1>3, Zenon DEF Since
  <2> QED
    BY <1>1, <1>3, <2>1 DEF Follows
<1>4. CASE Replayable(l, from) /\ from # l.seq
  <2>1. from >= Base(l) /\ from >= l.savedSeq
    BY <1>4, ReplayableReaches
  <2>2. from \in Base(l)..l.seq
    BY <1>1, <2>1, RetainedRun
  <2>3. Since(l, from) = [ops |-> After(l.entries, from), head |-> Len(s), reset |-> FALSE]
    BY <1>1, <1>4, Zenon DEF Since
  <2>4. Follows(s, from, After(l.entries, from))
    BY <1>1, <2>2, RestFits DEF Follows
  <2> QED
    BY <2>1, <2>3, <2>4
<1> QED
  BY <1>2, <1>3, <1>4

-----------------------------------------------------------------------------
(***************************************************************************)
(* What a tab has taken in, what it holds back and what it asks for, in a  *)
(* log of the positions s of which the file reflects the first saved.      *)
(***************************************************************************)
CallSet == [phase : {"asked", "lost", "answered"}, op : OpSet, base : Nat]

IsTab(t) ==
  /\ DOMAIN t = {"open", "link", "room", "joined", "join", "applied", "doc", "queue",
                 "submit", "since", "flushAfter", "awaited", "reorder", "timer",
                 "resynced", "told", "seen"}
  /\ t.applied \in Nat /\ t.seen \in Seq(SlotSet) /\ t.queue \in Seq(OpSet)
  /\ t.submit.phase \in {"asked", "lost", "answered"} => t.submit \in CallSet

Slotted(s) == s \in Seq(SlotSet) /\ \A k \in 1..Len(s) : s[k].seq = k

(* Between its join and the first answer a tab shows the file but counts nothing
   as applied. *)
Level(t) == t.applied = Len(t.seen)

Sees(t, s) == Len(t.seen) <= Len(s) /\ \A i \in 1..Len(t.seen) : t.seen[i] = s[i]

Holds(t, s) ==
  \A n \in DOMAIN t.reorder :
    /\ n \in 1..Len(s) /\ t.reorder[n] = s[n] /\ IsOp(s[n])
    /\ ~Level(t) => n > Len(t.seen)

MayAsk(t, from) ==
  from \in 0..Len(t.seen) /\ (Level(t) \/ from \in {0, Len(t.seen)})

(* A submission that is sent names a position that the tab counted as applied. *)
Asks(t) == t.submit.phase = "asked" => t.submit.base <= t.applied

Took(t, s, saved) ==
  /\ IsTab(t) /\ Sees(t, s) /\ Holds(t, s) /\ Asks(t)
  /\ Level(t) \/ (t.applied = 0 /\ Len(t.seen) <= saved)
  /\ t.since.phase = "asked" => MayAsk(t, t.since.from)

(* The submission awaited is still that one, or none was awaited and now the head
   of the queue is. *)
Settled(t) == t.submit.phase \in {"idle", "catching"}

Submits(t, u) ==
  \/ u.submit = t.submit
  \/ /\ Settled(t)
     /\ \/ Settled(u)
        \/ /\ u.submit.phase = "asked" /\ u.queue # <<>> /\ u.submit.op = Head(u.queue)
           /\ u.submit.base = u.applied

SameSheet(t, u) ==
  /\ u.applied = t.applied /\ u.doc = t.doc /\ u.reorder = t.reorder
  /\ u.timer = t.timer /\ u.seen = t.seen

SamePlace(t, u) ==
  /\ u.open = t.open /\ u.link = t.link /\ u.room = t.room /\ u.joined = t.joined
  /\ u.join = t.join /\ u.queue = t.queue /\ u.resynced = t.resynced

(* A step that changes calls only. *)
Steers(t, u) == IsTab(u) /\ SameSheet(t, u) /\ SamePlace(t, u) /\ Submits(t, u)

(* Flush changes calls only. *)
LEMMA FlushSteers ==
  ASSUME NEW t, IsTab(t)
  PROVE  Steers(t, Flush(t)) /\ Flush(t).since = t.since
<1> DEFINE call == [phase |-> "asked", op |-> Head(t.queue), base |-> t.applied]
           u == [t EXCEPT !.submit = call]
<1>1. CASE t.submit.phase # "idle" \/ t.queue = <<>> \/ ~t.link
  BY <1>1 DEF Flush, Steers, SameSheet, SamePlace, Submits
<1>2. CASE ~(t.submit.phase # "idle" \/ t.queue = <<>> \/ ~t.link)
  <2>1. Flush(t) = u
    BY <1>2 DEF Flush
  <2>2. t.queue # <<>> /\ t.submit.phase = "idle" /\ Head(t.queue) \in OpSet
    BY <1>2 DEF IsTab
  <2>3. call.phase = "asked" /\ call.op = Head(t.queue) /\ call \in CallSet
    BY <2>2 DEF CallSet, IsTab
  <2> HIDE DEF call
  <2>4. u.submit = call /\ SameSheet(t, u) /\ SamePlace(t, u) /\ u.since = t.since
        /\ DOMAIN u = DOMAIN t
    BY DEF IsTab, SameSheet, SamePlace
  <2> HIDE DEF u
  <2>5. IsTab(u)
    BY <2>2, <2>3, <2>4 DEF IsTab, SameSheet, SamePlace
  <2>6. u.submit.base = u.applied
    BY <2>4 DEF call, SameSheet
  <2>7. Submits(t, u)
    BY <2>2, <2>3, <2>4, <2>6 DEF Submits, Settled, SamePlace
  <2> QED
    BY <2>1, <2>4, <2>5, <2>7 DEF Steers
<1> QED
  BY <1>1, <1>2

(* Two such steps make one. *)
LEMMA SteersOn ==
  ASSUME NEW t, NEW u, NEW v, Steers(t, u), Steers(u, v)
  PROVE  Steers(t, v)
BY DEF Steers, SameSheet, SamePlace, Submits, Settled

(* The end of a catch-up changes calls only. *)
LEMMA EndCatchUpSteers ==
  ASSUME NEW t, IsTab(t)
  PROVE  Steers(t, EndCatchUp(t)) /\ EndCatchUp(t).since = NoCall
<1> DEFINE told == t.told \/ t.awaited > t.applied
           call == IF t.submit.phase = "catching" THEN NoCall ELSE t.submit
           u == [t EXCEPT !.since = NoCall, !.flushAfter = FALSE, !.awaited = 0,
                          !.told = told, !.submit = call]
<1>1. EndCatchUp(t) = IF t.flushAfter \/ t.submit.phase = "catching" THEN Flush(u) ELSE u
  BY DEF EndCatchUp
<1>2. call = t.submit \/ (t.submit.phase = "catching" /\ call.phase = "idle")
  BY DEF NoCall
<1> HIDE DEF told, call
<1>3. /\ u.submit = call /\ SameSheet(t, u) /\ SamePlace(t, u) /\ u.since = NoCall
      /\ DOMAIN u = DOMAIN t
  BY DEF IsTab, SameSheet, SamePlace
<1> HIDE DEF u
<1>4. IsTab(u)
  BY <1>2, <1>3 DEF IsTab, SameSheet, SamePlace
<1>5. Submits(t, u)
  BY <1>2, <1>3 DEF Submits, Settled
<1>6. Steers(t, u)
  BY <1>3, <1>4, <1>5 DEF Steers
<1>7. Steers(u, Flush(u)) /\ Flush(u).since = NoCall
  BY <1>3, <1>4, FlushSteers
<1>8. Steers(t, Flush(u))
  BY <1>6, <1>7, SteersOn
<1> QED
  BY <1>1, <1>3, <1>6, <1>7, <1>8

(* So does its start. *)
LEMMA StartCatchUpSteers ==
  ASSUME NEW t, IsTab(t), NEW from
  PROVE  /\ Steers(t, StartCatchUp(t, from))
         /\ \/ StartCatchUp(t, from).since = t.since
            \/ StartCatchUp(t, from).since.phase = "idle"
            \/ StartCatchUp(t, from).since.from = from
<1> DEFINE call == [phase |-> "asked", from |-> from]
           u == [t EXCEPT !.since = call]
<1>1. CASE t.since.phase # "idle"
  BY <1>1 DEF StartCatchUp, Steers, SameSheet, SamePlace, Submits
<1>2. CASE ~(t.since.phase # "idle") /\ ~t.link
  BY <1>2, EndCatchUpSteers DEF StartCatchUp, NoCall
<1>3. CASE ~(t.since.phase # "idle") /\ t.link
  <2>1. StartCatchUp(t, from) = u
    BY <1>3 DEF StartCatchUp
  <2>2. call.from = from
    OBVIOUS
  <2> HIDE DEF call
  <2>3. /\ u.submit = t.submit /\ SameSheet(t, u) /\ SamePlace(t, u) /\ u.since = call
        /\ DOMAIN u = DOMAIN t
    BY DEF IsTab, SameSheet, SamePlace
  <2> HIDE DEF u
  <2>4. IsTab(u)
    BY <2>3 DEF IsTab, SameSheet, SamePlace
  <2> QED
    BY <2>1, <2>2, <2>3, <2>4 DEF Steers, Submits
<1> QED
  BY <1>1, <1>2, <1>3

(* A step that changes calls only leaves what the tab took in. *)
LEMMA SteersKeeps ==
  ASSUME NEW t, NEW u, NEW s, NEW saved, Took(t, s, saved), Steers(t, u),
         u.since.phase = "asked" => MayAsk(t, u.since.from)
  PROVE  Took(u, s, saved)
<1>1. /\ IsTab(u) /\ u.applied = t.applied /\ u.reorder = t.reorder /\ u.seen = t.seen
  BY DEF Steers, SameSheet
<1>2. Level(u) <=> Level(t)
  BY <1>1 DEF Level
<1>3. Sees(u, s) /\ Holds(u, s)
  BY <1>1, <1>2 DEF Took, Sees, Holds
<1>6. Asks(u)
  BY <1>1 DEF Took, IsTab, Asks, Steers, Submits, Settled
<1>4. u.since.phase = "asked" => MayAsk(u, u.since.from)
  BY <1>1, <1>2 DEF MayAsk
<1> QED
  BY <1>1, <1>2, <1>3, <1>4, <1>6 DEF Took

(* The end of a catch-up keeps the tab in line with the log. *)
LEMMA EndCatchUpSound ==
  ASSUME NEW t, NEW s, NEW saved, Took(t, s, saved)
  PROVE  Steers(t, EndCatchUp(t)) /\ Took(EndCatchUp(t), s, saved)
<1>1. Steers(t, EndCatchUp(t)) /\ EndCatchUp(t).since.phase = "idle"
  BY EndCatchUpSteers DEF Took, NoCall
<1> QED
  BY <1>1, SteersKeeps

(* So does a catch-up from a position the tab may ask about. *)
LEMMA StartCatchUpSound ==
  ASSUME NEW t, NEW s, NEW saved, Took(t, s, saved), NEW from, MayAsk(t, from)
  PROVE  Steers(t, StartCatchUp(t, from)) /\ Took(StartCatchUp(t, from), s, saved)
<1> DEFINE u == StartCatchUp(t, from)
<1>1. /\ Steers(t, u)
      /\ u.since = t.since \/ u.since.phase = "idle" \/ u.since.from = from
  BY StartCatchUpSteers DEF Took
<1> HIDE DEF u
<1>2. u.since.phase = "asked" => MayAsk(t, u.since.from)
  BY <1>1 DEF Took
<1>3. Took(u, s, saved)
  BY <1>1, <1>2, SteersKeeps
<1> QED
  BY <1>1, <1>3 DEF u

-----------------------------------------------------------------------------
(***************************************************************************)
(* Taking entries in.                                                      *)
(***************************************************************************)
LEMMA MaxNat ==
  ASSUME NEW n \in Nat, NEW S \in SUBSET (0..n), S # {}
  PROVE  Max(S) \in S /\ \A x \in S : x <= Max(S)
<1> DEFINE bounds == {m \in Nat : \A x \in S : x <= m}
<1>1. n \in bounds
  OBVIOUS
<1>2. PICK m \in bounds : \A k \in bounds : m <= k
  BY <1>1, Kept!LeastNatural
<1>3. m \in S
  <2> SUFFICES ASSUME m \notin S PROVE FALSE
    OBVIOUS
  <2>1. \A x \in S : x \in Nat /\ x < m
    BY <1>2
  <2>2. m \in Nat /\ m > 0
    <3>1. PICK x \in S : TRUE
      OBVIOUS
    <3>2. m \in Nat /\ x \in Nat /\ x < m
      BY <1>2, <2>1, <3>1
    <3> QED
      BY <3>2
  <2>3. m - 1 \in Nat /\ \A x \in S : x <= m - 1
    BY <2>1, <2>2
  <2>4. m - 1 \in bounds
    BY <2>3
  <2> QED
    BY <1>2, <2>2, <2>4
<1>4. \E x \in S : \A y \in S : x >= y
  BY <1>2, <1>3
<1>5. Max(S) \in S /\ \A y \in S : Max(S) >= y
  BY <1>4 DEF Max
<1> QED
  BY <1>5

(* What is on its way to a tab before a step suits it after the step too. *)
Leads(t, u) ==
  /\ t.room => u.room
  /\ ~u.room => u.seen = t.seen
  /\ Len(t.seen) <= Len(u.seen)
  /\ Level(t) => Level(u)
  /\ ~Level(u) => u.seen = t.seen

(* A step that takes entries in and changes no calls. *)
Takes(t, u) ==
  /\ IsTab(u) /\ SamePlace(t, u)
  /\ u.submit = t.submit /\ u.since = t.since
  /\ Len(t.seen) <= Len(u.seen)
  /\ Level(t) => Level(u)
  /\ ~Level(u) => u.seen = t.seen

(* The entries are those of the positions that come next. *)
ComesNext(t, s, entries) ==
  /\ entries \in Seq(EntrySet) /\ Len(t.seen) + Len(entries) <= Len(s)
  /\ \A i \in 1..Len(entries) : entries[i] = s[Len(t.seen) + i]

(* A tab that takes in the entries that come next stays in line with the log. *)
LEMMA TakeInSound ==
  ASSUME NEW t, NEW s, NEW saved, Took(t, s, saved), Slotted(s),
         NEW entries, ComesNext(t, s, entries), NEW doc
  PROVE  /\ Takes(t, TakeIn(t, entries, doc)) /\ Took(TakeIn(t, entries, doc), s, saved)
         /\ TakeIn(t, entries, doc).seen = t.seen \o entries
         /\ TakeIn(t, entries, doc).reorder = t.reorder
         /\ TakeIn(t, entries, doc).timer = t.timer
         /\ entries = <<>> => TakeIn(t, entries, doc).applied = t.applied
         /\ entries # <<>> => Level(TakeIn(t, entries, doc))
<1> DEFINE p == Len(t.seen)
           m == Len(entries)
           last == IF entries = <<>> THEN t.applied ELSE entries[Len(entries)].seq
           u == TakeIn(t, entries, doc)
           seen == t.seen \o entries
<1>1. /\ IsTab(t) /\ t.seen \in Seq(SlotSet) /\ p \in Nat /\ m \in Nat /\ t.applied \in Nat
      /\ p + m <= Len(s) /\ Len(s) \in Nat /\ \A i \in 1..p : t.seen[i] = s[i]
      /\ \A i \in 1..m : entries[i] = s[p + i]
      /\ entries \in Seq(EntrySet) /\ entries \in Seq(SlotSet)
  <2>1. \A f \in Seq(EntrySet) : f \in Seq(SlotSet)
    BY DEF SlotSet
  <2> QED
    BY <2>1 DEF Took, IsTab, Sees, ComesNext, Slotted
<1>2. /\ seen \in Seq(SlotSet) /\ Len(seen) = p + m
      /\ (\A i \in 1..p : seen[i] = t.seen[i]) /\ (\A i \in 1..m : seen[p + i] = entries[i])
      /\ entries = <<>> => seen = t.seen /\ m = 0
      /\ entries # <<>> => m > 0
  <2>1. \A f, g \in Seq(SlotSet) :
          /\ f \o g \in Seq(SlotSet) /\ Len(f \o g) = Len(f) + Len(g)
          /\ (\A i \in 1..Len(f) : (f \o g)[i] = f[i])
          /\ (\A i \in 1..Len(g) : (f \o g)[Len(f) + i] = g[i])
          /\ (g = <<>> => f \o g = f /\ Len(g) = 0) /\ (g # <<>> => Len(g) > 0)
    OBVIOUS
  <2> QED
    BY <1>1, <2>1
<1>3. last = IF entries = <<>> THEN t.applied ELSE p + m
  <2>1. CASE entries # <<>>
    <3>1. m \in 1..m /\ p + m \in 1..Len(s)
      BY <1>1, <1>2, <2>1
    <3>2. entries[m] = s[p + m] /\ s[p + m].seq = p + m
      BY <1>1, <3>1 DEF Slotted
    <3> QED
      BY <2>1, <3>2
  <2> QED
    BY <2>1
<1> HIDE DEF last, seen
<1>4. /\ u.seen = seen /\ u.applied = last /\ u.reorder = t.reorder /\ u.timer = t.timer
      /\ SamePlace(t, u) /\ u.submit = t.submit /\ u.since = t.since
      /\ DOMAIN u = DOMAIN t
  BY <1>1 DEF TakeIn, IsTab, SamePlace, last, seen
<1> HIDE DEF u
<1>5. IsTab(u)
  BY <1>1, <1>2, <1>3, <1>4 DEF IsTab, SamePlace
<1> HIDE DEF p, m
<1>6. Len(u.seen) = p + m
  BY <1>2, <1>4
<1>7. entries # <<>> => Level(u)
  BY <1>3, <1>4, <1>6 DEF Level
<1>8. Level(t) => Level(u)
  <2>1. entries = <<>> /\ Level(t) => u.applied = t.applied /\ u.seen = t.seen
    BY <1>2, <1>3, <1>4
  <2> QED
    BY <1>7, <2>1 DEF Level
<1>9. ~Level(u) => u.seen = t.seen /\ u.applied = t.applied /\ ~Level(t)
  BY <1>2, <1>3, <1>4, <1>7, <1>8
<1>10. Len(t.seen) <= Len(u.seen)
  BY <1>1, <1>6 DEF p
<1>11. Takes(t, u)
  BY <1>4, <1>5, <1>8, <1>9, <1>10 DEF Takes
<1>12. Sees(u, s)
  <2>1. ASSUME NEW i \in 1..(p + m) PROVE seen[i] = s[i]
    <3>1. i \in 1..p \/ (i - p \in 1..m /\ p + (i - p) = i)
      BY <1>1, <2>1
    <3> QED
      BY <1>1, <1>2, <3>1, SMTT(30)
  <2> QED
    BY <1>1, <1>2, <1>4, <2>1 DEF Sees
<1>13. Holds(u, s)
  BY <1>4, <1>9 DEF Took, Holds
<1>14. u.since.phase = "asked" => MayAsk(u, u.since.from)
  <2> SUFFICES ASSUME t.since.phase = "asked" PROVE MayAsk(u, t.since.from)
    BY <1>4
  <2>1. t.since.from \in 0..p /\ (Level(t) \/ t.since.from \in {0, p})
    BY DEF Took, MayAsk, p
  <2>2. t.since.from \in 0..Len(u.seen)
    BY <1>1, <1>6, <2>1
  <2>3. ~Level(u) => t.since.from \in {0, Len(u.seen)}
    BY <1>9, <2>1 DEF p
  <2> QED
    BY <2>2, <2>3 DEF MayAsk
<1>15. Level(u) \/ (u.applied = 0 /\ Len(u.seen) <= saved)
  BY <1>9 DEF Took
<1>16. Asks(u)
  <2>1. t.applied <= u.applied
    <3>1. t.applied <= p
      BY <1>1 DEF Took, Level, p
    <3> QED
      BY <1>1, <1>2, <1>3, <1>4, <3>1
  <2>2. t.submit.phase = "asked" => t.submit.base \in Nat /\ t.submit.base <= t.applied
    BY <1>1 DEF IsTab, CallSet, Took, Asks
  <2> QED
    BY <1>1, <1>4, <1>5, <2>1, <2>2 DEF Asks, IsTab
<1>17. Took(u, s, saved)
  BY <1>5, <1>12, <1>13, <1>14, <1>15, <1>16 DEF Took
<1> QED
  BY <1>3, <1>4, <1>7, <1>11, <1>17 DEF u, seen

(* Two steps that take entries in make one. *)
LEMMA TakesOn ==
  ASSUME NEW t, NEW u, NEW v, IsTab(t), Takes(t, u), Takes(u, v)
  PROVE  Takes(t, v)
<1>1. Len(t.seen) \in Nat /\ Len(u.seen) \in Nat /\ Len(v.seen) \in Nat
  BY DEF IsTab, Takes
<1>2. Len(t.seen) <= Len(v.seen)
  BY <1>1 DEF Takes
<1> QED
  BY <1>2 DEF Takes, SamePlace

(* Other entries may be held, if they suit. *)
LEMMA HeldSound ==
  ASSUME NEW t, NEW s, NEW saved, Took(t, s, saved), NEW f,
         \A n \in DOMAIN f : /\ n \in 1..Len(s) /\ f[n] = s[n] /\ IsOp(s[n])
                             /\ ~Level(t) => n > Len(t.seen)
  PROVE  /\ Takes(t, [t EXCEPT !.reorder = f]) /\ Took([t EXCEPT !.reorder = f], s, saved)
         /\ [t EXCEPT !.reorder = f].seen = t.seen
<1> DEFINE u == [t EXCEPT !.reorder = f]
<1>1. /\ u.reorder = f /\ u.seen = t.seen /\ u.applied = t.applied
      /\ SamePlace(t, u) /\ u.submit = t.submit /\ u.since = t.since
      /\ DOMAIN u = DOMAIN t
  BY DEF Took, IsTab, SamePlace
<1> HIDE DEF u
<1>2. IsTab(u) /\ (Level(u) <=> Level(t))
  BY <1>1 DEF Took, IsTab, SamePlace, Level
<1>3. Takes(t, u)
  <2>1. Len(t.seen) <= Len(t.seen)
    BY DEF Took, IsTab
  <2> QED
    BY <1>1, <1>2, <2>1 DEF Takes
<1>4. Sees(u, s) /\ Holds(u, s) /\ Asks(u)
  BY <1>1, <1>2 DEF Took, Sees, Holds, Asks
<1>5. Took(u, s, saved)
  BY <1>1, <1>2, <1>4 DEF Took, MayAsk
<1> QED
  BY <1>1, <1>3, <1>5 DEF u

(* A tab may hold fewer entries. *)
LEMMA FewerHeldSound ==
  ASSUME NEW t, NEW s, NEW saved, Took(t, s, saved), NEW f,
         DOMAIN f \subseteq DOMAIN t.reorder, \A n \in DOMAIN f : f[n] = t.reorder[n]
  PROVE  /\ Takes(t, [t EXCEPT !.reorder = f]) /\ Took([t EXCEPT !.reorder = f], s, saved)
         /\ [t EXCEPT !.reorder = f].seen = t.seen
<1>1. \A n \in DOMAIN f : /\ n \in 1..Len(s) /\ f[n] = s[n] /\ IsOp(s[n])
                          /\ ~Level(t) => n > Len(t.seen)
  BY DEF Took, Holds
<1> QED
  BY <1>1, HeldSound

(* The held entries that follow without a gap are those of the next positions. *)
LEMMA HeldFollow ==
  ASSUME NEW t, NEW s, NEW saved, Took(t, s, saved), Slotted(s)
  PROVE  LET ready == {n \in Keys(t.reorder) :
                         n > t.applied /\ (t.applied + 1)..n \subseteq Keys(t.reorder)}
             last == Max(ready \cup {t.applied})
         IN  ComesNext(t, s, [i \in 1..(last - t.applied) |-> t.reorder[t.applied + i]])
<1> DEFINE ready == {n \in Keys(t.reorder) :
                       n > t.applied /\ (t.applied + 1)..n \subseteq Keys(t.reorder)}
           last == Max(ready \cup {t.applied})
           held == [i \in 1..(last - t.applied) |-> t.reorder[t.applied + i]]
           p == Len(t.seen)
<1>1. /\ t.applied \in Nat /\ p \in Nat /\ Len(s) \in Nat /\ p <= Len(s)
      /\ t.applied = p \/ (t.applied = 0 /\ p > 0)
      /\ \A n \in DOMAIN t.reorder : /\ n \in 1..Len(s) /\ t.reorder[n] = s[n] /\ IsOp(s[n])
                                     /\ t.applied # p => n > p
  BY DEF Took, IsTab, Sees, Holds, Level, Slotted
<1> HIDE DEF p
<1>2. /\ last \in ready \cup {t.applied} /\ last \in 0..Len(s) /\ last >= t.applied
  <2>1. ready \cup {t.applied} \in SUBSET (0..Len(s))
    BY <1>1 DEF Keys
  <2> HIDE DEF ready
  <2> QED
    BY <1>1, <2>1, MaxNat
<1>3. CASE last = t.applied
  <2> HIDE DEF last
  <2>1. 1..(last - t.applied) = {}
    BY <1>1, <1>3
  <2>2. held = <<>>
    BY <2>1
  <2>3. ComesNext(t, s, <<>>)
    BY <1>1 DEF ComesNext, p
  <2> QED
    BY <2>2, <2>3 DEF last
<1>4. CASE last # t.applied
  <2>1. last > t.applied /\ (t.applied + 1)..last \subseteq DOMAIN t.reorder
    BY <1>2, <1>4 DEF Keys
  <2>2. t.applied = p
    <3>1. t.applied + 1 \in (t.applied + 1)..last
      BY <1>1, <1>2, <2>1
    <3> QED
      BY <1>1, <2>1, <3>1
  <2> HIDE DEF last, ready
  <2> DEFINE m == last - p
  <2>3. m \in Nat /\ p + m = last /\ p + m <= Len(s) /\ last - t.applied = m
    BY <1>1, <1>2, <2>1, <2>2
  <2> HIDE DEF m
  <2>4. ASSUME NEW i \in 1..m
        PROVE  t.reorder[p + i] = s[p + i] /\ s[p + i] \in EntrySet
    <3>1. p + i \in (t.applied + 1)..last /\ p + i \in 1..Len(s)
      BY <1>1, <2>2, <2>3
    <3>2. t.reorder[p + i] = s[p + i] /\ IsOp(s[p + i])
      BY <1>1, <2>1, <3>1
    <3>3. s[p + i] \in SlotSet
      BY <3>1 DEF Slotted
    <3> QED
      BY <3>2, <3>3, SlotIsOp
  <2> DEFINE all == [i \in 1..m |-> t.reorder[p + i]]
  <2>5. all \in Seq(EntrySet) /\ Len(all) = m /\ \A i \in 1..m : all[i] = s[p + i]
    BY <2>3, <2>4
  <2>6. held = all
    BY <2>2, <2>3
  <2> HIDE DEF all, held
  <2>7. ComesNext(t, s, held)
    BY <2>3, <2>5, <2>6 DEF ComesNext, p
  <2> QED
    BY <2>7 DEF held, last, ready
<1> QED
  BY <1>3, <1>4

(* Draining the reorder buffer keeps the tab in line with the log. *)
LEMMA DrainSound ==
  ASSUME NEW t, NEW s, NEW saved, Took(t, s, saved), Slotted(s), NEW c
  PROVE  Takes(t, Drain(c, t)) /\ Took(Drain(c, t), s, saved)
<1> DEFINE ready == {n \in Keys(t.reorder) :
                       n > t.applied /\ (t.applied + 1)..n \subseteq Keys(t.reorder)}
           last == Max(ready \cup {t.applied})
           held == [i \in 1..(last - t.applied) |-> t.reorder[t.applied + i]]
           rest == Only(t.reorder, Keys(t.reorder) \ ready)
           u == [t EXCEPT !.reorder = rest]
           doc == [x \in Cells |-> LET writers == Writers(c, held, x)
                                   IN  IF writers = {} \/ Owns(u, x) THEN u.doc[x]
                                       ELSE held[Max(writers)].ops.n]
<1>1. Drain(c, t) = TakeIn(u, held, doc)
  BY DEF Drain, ApplyEntries
<1>2. ComesNext(t, s, held)
  BY HeldFollow
<1>3. DOMAIN rest \subseteq DOMAIN t.reorder /\ \A n \in DOMAIN rest : rest[n] = t.reorder[n]
  BY DEF Only, Keys
<1> HIDE DEF ready, last, held, rest, doc
<1>4. Takes(t, u) /\ Took(u, s, saved) /\ u.seen = t.seen
  BY <1>3, FewerHeldSound
<1> HIDE DEF u
<1>5. ComesNext(u, s, held)
  BY <1>2, <1>4 DEF ComesNext
<1>6. Takes(u, TakeIn(u, held, doc)) /\ Took(TakeIn(u, held, doc), s, saved)
  BY <1>4, <1>5, TakeInSound
<1>7. Takes(t, TakeIn(u, held, doc))
  BY <1>4, <1>6, TakesOn DEF Took
<1> QED
  BY <1>1, <1>6, <1>7

(* An entry that arrives is a logged one, and not one a file already reflects. *)
Suits(t, e, s) ==
  /\ e \in EntrySet /\ e.seq \in 1..Len(s) /\ s[e.seq] = e
  /\ ~Level(t) => e.seq > Len(t.seen)

(* So does holding an entry of the log. *)
LEMMA HoldSound ==
  ASSUME NEW t, NEW s, NEW saved, Took(t, s, saved), NEW e, Suits(t, e, s)
  PROVE  Takes(t, Hold(t, e)) /\ Took(Hold(t, e), s, saved)
<1> DEFINE f == [n \in Keys(t.reorder) \cup {e.seq} |->
                   IF n = e.seq THEN e ELSE t.reorder[n]]
<1>1. Hold(t, e) = [t EXCEPT !.reorder = f]
  BY DEF Hold
<1>2. /\ DOMAIN f = DOMAIN t.reorder \cup {e.seq}
      /\ \A n \in DOMAIN f : f[n] = IF n = e.seq THEN e ELSE t.reorder[n]
  BY DEF Keys
<1> HIDE DEF f
<1>3. e.seq \in 1..Len(s) /\ s[e.seq] = e /\ IsOp(e) /\ (~Level(t) => e.seq > Len(t.seen))
  BY EntryIsOp DEF Suits
<1>4. \A n \in DOMAIN f : /\ n \in 1..Len(s) /\ f[n] = s[n] /\ IsOp(s[n])
                          /\ ~Level(t) => n > Len(t.seen)
  BY <1>2, <1>3 DEF Took, Holds
<1> QED
  BY <1>1, <1>4, HeldSound

(* So does the timer. *)
LEMMA TimerSound ==
  ASSUME NEW t, NEW s, NEW saved, Took(t, s, saved), NEW b
  PROVE  Takes(t, [t EXCEPT !.timer = b]) /\ Took([t EXCEPT !.timer = b], s, saved)
<1> DEFINE u == [t EXCEPT !.timer = b]
<1>1. /\ u.reorder = t.reorder /\ u.seen = t.seen /\ u.applied = t.applied
      /\ SamePlace(t, u) /\ u.submit = t.submit /\ u.since = t.since
      /\ DOMAIN u = DOMAIN t
  BY DEF Took, IsTab, SamePlace
<1> HIDE DEF u
<1>2. IsTab(u) /\ (Level(u) <=> Level(t))
  BY <1>1 DEF Took, IsTab, SamePlace, Level
<1>3. Takes(t, u)
  <2>1. Len(t.seen) <= Len(t.seen)
    BY DEF Took, IsTab
  <2> QED
    BY <1>1, <1>2, <2>1 DEF Takes
<1>4. Sees(u, s) /\ Holds(u, s) /\ Asks(u)
  BY <1>1, <1>2 DEF Took, Sees, Holds, Asks
<1>5. Took(u, s, saved)
  BY <1>1, <1>2, <1>4 DEF Took, MayAsk
<1> QED
  BY <1>3, <1>5 DEF u

(* ApplyEntries takes in the entries that come next. *)
LEMMA ApplyEntriesSound ==
  ASSUME NEW t, NEW s, NEW saved, Took(t, s, saved), Slotted(s), NEW c,
         NEW entries, ComesNext(t, s, entries)
  PROVE  /\ Takes(t, ApplyEntries(c, t, entries)) /\ Took(ApplyEntries(c, t, entries), s, saved)
         /\ entries = <<>> => /\ ApplyEntries(c, t, entries).applied = t.applied
                              /\ ApplyEntries(c, t, entries).seen = t.seen
         /\ entries # <<>> => Level(ApplyEntries(c, t, entries))
<1> DEFINE doc == [x \in Cells |-> LET writers == Writers(c, entries, x)
                                   IN  IF writers = {} \/ Owns(t, x) THEN t.doc[x]
                                       ELSE entries[Max(writers)].ops.n]
           u == TakeIn(t, entries, doc)
<1>1. ApplyEntries(c, t, entries) = u
  BY DEF ApplyEntries
<1> HIDE DEF doc
<1>2. /\ Takes(t, u) /\ Took(u, s, saved) /\ u.seen = t.seen \o entries
      /\ entries = <<>> => u.applied = t.applied
      /\ entries # <<>> => Level(u)
  BY TakeInSound
<1>3. entries = <<>> => t.seen \o entries = t.seen
  BY DEF Took, IsTab
<1> HIDE DEF u
<1> QED
  BY <1>1, <1>2, <1>3

(* An entry at the next position comes next. *)
LEMMA NextComes ==
  ASSUME NEW t, NEW s, NEW saved, Took(t, s, saved), Slotted(s),
         NEW e, Suits(t, e, s), e.seq = t.applied + 1
  PROVE  ComesNext(t, s, <<e>>) /\ Level(t)
<1>1. /\ e \in EntrySet /\ e.seq \in 1..Len(s) /\ s[e.seq] = e /\ Len(t.seen) \in Nat
      /\ t.applied = Len(t.seen)
  <2>1. /\ Len(t.seen) \in Nat /\ t.applied \in Nat
        /\ t.applied = Len(t.seen) \/ (t.applied = 0 /\ e.seq > Len(t.seen))
    BY DEF Took, IsTab, Suits, Level
  <2> QED
    BY <2>1 DEF Suits
<1>2. <<e>> \in Seq(EntrySet) /\ Len(<<e>>) = 1 /\ <<e>>[1] = e
  BY <1>1
<1>3. Len(s) \in Nat
  BY DEF Slotted
<1> QED
  BY <1>1, <1>2, <1>3 DEF ComesNext, Level

(* The next entry is taken in and the buffer drained. *)
LEMMA NextSound ==
  ASSUME NEW t, NEW s, NEW saved, Took(t, s, saved), Slotted(s), NEW c,
         NEW e, Suits(t, e, s), e.seq = t.applied + 1
  PROVE  /\ Takes(t, Drain(c, ApplyEntries(c, t, <<e>>)))
         /\ Took(Drain(c, ApplyEntries(c, t, <<e>>)), s, saved)
<1>1. ComesNext(t, s, <<e>>)
  BY NextComes
<1> DEFINE u == ApplyEntries(c, t, <<e>>)
<1>2. Takes(t, u) /\ Took(u, s, saved)
  BY <1>1, ApplyEntriesSound
<1> HIDE DEF u
<1>3. Takes(u, Drain(c, u)) /\ Took(Drain(c, u), s, saved)
  BY <1>2, DrainSound
<1> QED
  BY <1>2, <1>3, TakesOn DEF u, Took

(* Receiving an entry of the log keeps the tab in line with it. *)
LEMMA ReceiveSound ==
  ASSUME NEW t, NEW s, NEW saved, Took(t, s, saved), Slotted(s), NEW c,
         NEW e, Suits(t, e, s)
  PROVE  Takes(t, Receive(c, t, e)) /\ Took(Receive(c, t, e), s, saved)
<1>0. Takes(t, t)
  BY DEF Took, IsTab, Takes, SamePlace
<1>1. Takes(t, Hold(t, e)) /\ Took(Hold(t, e), s, saved)
  BY HoldSound
<1>2. CASE e.client = c
  <2> DEFINE u == IF e.seq > t.applied THEN Hold(t, e) ELSE t
  <2>1. Takes(t, u) /\ Took(u, s, saved)
    BY <1>0, <1>1
  <2>2. Receive(c, t, e) = Drain(c, u)
    BY <1>2 DEF Receive
  <2> HIDE DEF u
  <2>3. Takes(u, Drain(c, u)) /\ Took(Drain(c, u), s, saved)
    BY <2>1, DrainSound
  <2> QED
    BY <2>1, <2>2, <2>3, TakesOn DEF Took
<1>3. CASE e.client # c /\ e.seq <= t.applied
  BY <1>0, <1>3 DEF Receive
<1>4. CASE e.client # c /\ ~(e.seq <= t.applied) /\ e.seq = t.applied + 1
  <2>1. Receive(c, t, e) = Drain(c, ApplyEntries(c, t, <<e>>))
    BY <1>4 DEF Receive
  <2> QED
    BY <1>4, <2>1, NextSound
<1>5. CASE e.client # c /\ ~(e.seq <= t.applied) /\ e.seq # t.applied + 1
  <2> DEFINE u == Hold(t, e)
  <2>1. Receive(c, t, e) = [u EXCEPT !.timer = TRUE]
    BY <1>5 DEF Receive
  <2> HIDE DEF u
  <2>2. Takes(u, [u EXCEPT !.timer = TRUE]) /\ Took([u EXCEPT !.timer = TRUE], s, saved)
    BY <1>1, TimerSound DEF u
  <2> QED
    BY <1>1, <2>1, <2>2, TakesOn DEF Took, u
<1> QED
  BY <1>2, <1>3, <1>4, <1>5

(* The answer to a catch-up is what followed some position taken in; a tab that
   counts nothing as applied asked for what follows the file. *)
AnswerFrom(t, a, from, s) ==
  /\ a.ops \in Seq(EntrySet) /\ a.head \in from..Len(s) /\ Len(a.ops) = a.head - from
  /\ \A i \in 1..Len(a.ops) : a.ops[i] = s[from + i]
  /\ Level(t) \/ from = Len(t.seen)

Answer(t, a, s) == a.reset \/ \E from \in 0..Len(t.seen) : AnswerFrom(t, a, from, s)

(* Of an answer, what the tab lacks comes next. *)
LEMMA RestComesNext ==
  ASSUME NEW t, NEW s, NEW saved, Took(t, s, saved), Slotted(s),
         NEW a, NEW from \in 0..Len(t.seen), AnswerFrom(t, a, from, s)
  PROVE  ComesNext(t, s, After(a.ops, t.applied))
<1> DEFINE p == Len(t.seen)
           m == Len(a.ops)
           k == Behind(a.ops, from, t.applied)
           rest == After(a.ops, t.applied)
           h == a.head
           n == Len(s)
<1>1. /\ p \in Nat /\ m \in Nat /\ n \in Nat /\ t.applied \in Nat /\ from \in 0..p /\ p <= n
      /\ h \in from..n /\ m = h - from /\ a.ops \in Seq(EntrySet)
      /\ t.applied = p \/ (t.applied = 0 /\ p > 0 /\ from = p)
      /\ \A i \in 1..m : a.ops[i] = s[from + i]
  BY DEF Took, IsTab, Sees, Level, Slotted, AnswerFrom
<1> HIDE DEF p, m, h, n
<1>2. \A i \in 1..m : a.ops[i].seq = from + i
  <2> TAKE i \in 1..m
  <2>1. from + i \in 1..n
    BY <1>1
  <2> QED
    BY <1>1, <2>1 DEF Slotted, n
<1>3. /\ k \in 0..m /\ rest \in Seq(EntrySet) /\ Len(rest) = m - k
      /\ \A i \in 1..(m - k) : rest[i] = a.ops[k + i]
  <2>1. from \in Nat /\ t.applied \in Nat /\ a.ops \in Seq(EntrySet)
    BY <1>1
  <2>2. \A i \in 1..Len(a.ops) : a.ops[i].seq = from + i
    BY <1>2 DEF m
  <2>3. /\ k \in 0..Len(a.ops) /\ rest \in Seq(EntrySet) /\ Len(rest) = Len(a.ops) - k
        /\ \A i \in 1..(Len(a.ops) - k) : rest[i] = a.ops[k + i]
    BY <2>1, <2>2, AfterRun
  <2> QED
    BY <2>3 DEF m
<1>4. k = IF t.applied < from THEN 0 ELSE IF t.applied - from > m THEN m ELSE t.applied - from
  BY DEF Behind, m
<1> HIDE DEF k, rest
<1>5. \/ k = m
      \/ from + k = p
  BY <1>1, <1>4
<1>6. p + (m - k) <= n
  BY <1>1, <1>3, <1>5
<1>7. ASSUME NEW i \in 1..(m - k) PROVE rest[i] = s[p + i]
  <2>1. k + i \in 1..m /\ from + (k + i) = p + i
    BY <1>1, <1>3, <1>5
  <2> QED
    BY <1>1, <1>3, <2>1
<1>8. ComesNext(t, s, rest)
  BY <1>3, <1>6, <1>7 DEF ComesNext, p, n
<1> QED
  BY <1>8 DEF rest

(* A tab that counts as applied what it has taken in, no more and no less, is sound. *)
LEMMA CountSound ==
  ASSUME NEW t, NEW s, NEW saved, Took(t, s, saved), NEW h, h = Len(t.seen)
  PROVE  Takes(t, [t EXCEPT !.applied = h]) /\ Took([t EXCEPT !.applied = h], s, saved)
<1> DEFINE u == [t EXCEPT !.applied = h]
<1>1. /\ u.reorder = t.reorder /\ u.seen = t.seen /\ u.applied = h
      /\ SamePlace(t, u) /\ u.submit = t.submit /\ u.since = t.since
      /\ DOMAIN u = DOMAIN t
  BY DEF Took, IsTab, SamePlace
<1> HIDE DEF u
<1>2. IsTab(u) /\ Level(u) /\ Len(t.seen) <= Len(t.seen)
  BY <1>1 DEF Took, IsTab, SamePlace, Level
<1>3. Takes(t, u)
  BY <1>1, <1>2 DEF Takes
<1>4. Sees(u, s) /\ Holds(u, s) /\ Asks(u)
  <2>1. t.applied \in Nat /\ h \in Nat /\ t.applied <= h
    BY DEF Took, IsTab, Level
  <2>2. t.submit.phase = "asked" => t.submit.base \in Nat /\ t.submit.base <= t.applied
    BY DEF Took, IsTab, CallSet, Asks
  <2>3. Asks(u)
    BY <1>1, <2>1, <2>2 DEF Asks
  <2> QED
    BY <1>1, <1>2, <2>3 DEF Took, Sees, Holds
<1>5. Took(u, s, saved)
  BY <1>1, <1>2, <1>4 DEF Took, MayAsk
<1> QED
  BY <1>3, <1>5 DEF u

(* The tab's connection is as it was; its queue too, unless it must reload. *)
Stays(t, u) ==
  /\ u.open = t.open /\ u.link = t.link /\ u.room = t.room /\ u.joined = t.joined
  /\ u.join = t.join

Queues(t, u) ==
  /\ \/ u.queue = t.queue /\ u.resynced = t.resynced
     \/ u.queue = <<>> /\ u.resynced
  /\ Submits(t, u)

Moves(t, u) == Stays(t, u) /\ Queues(t, u) /\ Leads(t, u)

(* What changes only calls, or only takes entries in, moves the tab on. *)
LEMMA StepMoves ==
  ASSUME NEW t, NEW u, NEW s, NEW saved, Took(t, s, saved), Steers(t, u) \/ Takes(t, u), t.room
  PROVE  Moves(t, u)
<1>1. CASE Steers(t, u)
  <2>1. Len(t.seen) <= Len(t.seen)
    BY DEF Took, IsTab
  <2> QED
    BY <1>1, <2>1 DEF Steers, SameSheet, SamePlace, Moves, Stays, Queues, Leads, Level
<1>2. CASE Takes(t, u)
  BY <1>2 DEF Takes, SamePlace, Moves, Stays, Queues, Leads, Submits
<1> QED
  BY <1>1, <1>2

(* Two such moves make one. *)
LEMMA MovesOn ==
  ASSUME NEW t, NEW u, NEW v, IsTab(t), IsTab(u), IsTab(v), Moves(t, u), Moves(u, v),
         t.submit = u.submit, t.queue = u.queue \/ v.queue = u.queue
  PROVE  Moves(t, v)
<1>1. Len(t.seen) \in Nat /\ Len(u.seen) \in Nat /\ Len(v.seen) \in Nat
  BY DEF IsTab
<1>2. Len(t.seen) <= Len(v.seen)
  BY <1>1 DEF Moves, Leads
<1>3. Leads(t, v) /\ Stays(t, v)
  BY <1>2 DEF Moves, Leads, Stays
<1>4. Queues(t, v)
  BY DEF Moves, Queues, Submits, Settled
<1> QED
  BY <1>3, <1>4 DEF Moves

(* An answer without entries past the tab is no longer than what it has. *)
LEMMA EmptyRest ==
  ASSUME NEW f \in Seq(EntrySet), Len(f) = 0, NEW n \in Nat
  PROVE  After(f, n) = <<>>
<1>1. 0 \in Nat /\ \A i \in 1..Len(f) : f[i].seq = 0 + i
  OBVIOUS
<1>2. /\ Behind(f, 0, n) \in 0..Len(f) /\ After(f, n) \in Seq(EntrySet)
      /\ Len(After(f, n)) = Len(f) - Behind(f, 0, n)
  BY <1>1, AfterRun
<1>3. Len(After(f, n)) = 0
  BY <1>2
<1>4. \A g \in Seq(EntrySet) : Len(g) = 0 => g = <<>>
  OBVIOUS
<1> QED
  BY <1>2, <1>3, <1>4

(* A tab told to reload drops its queue. *)
LEMMA ResyncSound ==
  ASSUME NEW t, NEW s, NEW saved, Took(t, s, saved), t.room
  PROVE  /\ Moves(t, Resync(t)) /\ Took(Resync(t), s, saved)
         /\ Resync(t).submit = t.submit /\ Resync(t).room
<1>1. CASE t.resynced
  <2>1. Len(t.seen) <= Len(t.seen)
    BY DEF Took, IsTab
  <2> QED
    BY <1>1, <2>1 DEF Resync, Moves, Stays, Queues, Leads, Submits
<1>2. CASE ~t.resynced
  <2> DEFINE u == [t EXCEPT !.resynced = TRUE, !.queue = <<>>]
  <2>1. Resync(t) = u
    BY <1>2 DEF Resync
  <2>2. /\ u.reorder = t.reorder /\ u.seen = t.seen /\ u.applied = t.applied
        /\ Stays(t, u) /\ u.submit = t.submit /\ u.since = t.since
        /\ DOMAIN u = DOMAIN t /\ u.queue = <<>> /\ u.resynced
    BY DEF Took, IsTab, Stays
  <2> HIDE DEF u
  <2>3. IsTab(u) /\ (Level(u) <=> Level(t)) /\ Len(t.seen) <= Len(t.seen)
    BY <2>2 DEF Took, IsTab, Level
  <2>4. Moves(t, u)
    BY <2>2, <2>3 DEF Moves, Leads, Stays, Queues, Submits
  <2>5. Sees(u, s) /\ Holds(u, s) /\ Asks(u)
    BY <2>2, <2>3 DEF Took, Sees, Holds, Asks
  <2>6. Took(u, s, saved)
    BY <2>2, <2>3, <2>5 DEF Took, MayAsk
  <2>7. u.room
    BY <2>2 DEF Stays
  <2> QED
    BY <2>1, <2>2, <2>4, <2>6, <2>7
<1> QED
  BY <1>1, <1>2

(* What a tab takes in of an answer, and then counts as applied, is the log's. *)
LEMMA AnswerTaken ==
  ASSUME NEW t, NEW s, NEW saved, Took(t, s, saved), Slotted(s), NEW c,
         NEW a, Answer(t, a, s), ~a.reset, NEW u, NEW v,
         u = ApplyEntries(c, t, After(a.ops, t.applied)),
         v = IF a.head > u.applied /\ a.ops = <<>>
             THEN [u EXCEPT !.applied = a.head] ELSE u
  PROVE  /\ Takes(t, u) /\ Took(u, s, saved) /\ Takes(u, v) /\ Took(v, s, saved)
         /\ ComesNext(t, s, After(a.ops, t.applied))
<1> DEFINE entries == After(a.ops, t.applied)
<1>0. PICK from \in 0..Len(t.seen) : AnswerFrom(t, a, from, s)
  BY DEF Answer
<1>1. ComesNext(t, s, entries)
  BY <1>0, RestComesNext
<1>2. a.ops = <<>> => entries = <<>>
  BY <1>0, EmptyRest DEF Took, IsTab, AnswerFrom
<1> HIDE DEF entries
<1>3. /\ Takes(t, u) /\ Took(u, s, saved)
      /\ entries = <<>> => u.applied = t.applied /\ u.seen = t.seen
  <2>1. u = ApplyEntries(c, t, entries)
    BY DEF entries
  <2> QED
    BY <1>1, <2>1, ApplyEntriesSound
<1>4. Takes(u, v) /\ Took(v, s, saved)
  <2>1. CASE a.head > u.applied /\ a.ops = <<>>
    <3>1. u.applied = t.applied /\ u.seen = t.seen
      BY <1>2, <1>3, <2>1
    <3>2. /\ Len(t.seen) \in Nat /\ from \in 0..Len(t.seen) /\ a.head \in from..Len(s)
          /\ Len(a.ops) = a.head - from /\ Len(a.ops) = 0 /\ Len(s) \in Nat
          /\ t.applied = Len(t.seen) \/ from = Len(t.seen)
      BY <1>0, <2>1 DEF AnswerFrom, Level, Took, IsTab, Slotted
    <3>3. a.head = Len(u.seen)
      <4>1. a.head = from /\ a.head > t.applied
        BY <2>1, <3>1, <3>2
      <4> QED
        BY <3>1, <3>2, <4>1
    <3>4. v = [u EXCEPT !.applied = a.head]
      BY <2>1
    <3>5. Took([u EXCEPT !.applied = a.head], s, saved)
             /\ Takes(u, [u EXCEPT !.applied = a.head])
      BY <1>3, <3>3, CountSound
    <3> QED
      BY <3>4, <3>5
  <2>2. CASE ~(a.head > u.applied /\ a.ops = <<>>)
    <3>1. Takes(u, u) /\ v = u
      BY <1>3, <2>2 DEF Took, IsTab, Takes, SamePlace
    <3> QED
      BY <1>3, <3>1
  <2> QED
    BY <2>1, <2>2
<1> QED
  BY <1>1, <1>3, <1>4 DEF entries

(* The answer of a catch-up keeps the tab in line with the log. *)
LEMMA CatchUpAnswerSound ==
  ASSUME NEW t, NEW s, NEW saved, Took(t, s, saved), Slotted(s), t.room, NEW c,
         NEW a, Answer(t, a, s)
  PROVE  Moves(t, CatchUpAnswer(c, t, a)) /\ Took(CatchUpAnswer(c, t, a), s, saved)
<1>1. CASE a.reset
  <2> DEFINE u == Resync(t)
             v == EndCatchUp(u)
  <2>1. Moves(t, u) /\ Took(u, s, saved) /\ u.submit = t.submit /\ u.room
    BY ResyncSound
  <2> HIDE DEF u
  <2>2. Steers(u, v) /\ Took(v, s, saved)
    BY <2>1, EndCatchUpSound
  <2>3. CatchUpAnswer(c, t, a) = v
    BY <1>1 DEF CatchUpAnswer, u
  <2> HIDE DEF v
  <2>4. Moves(u, v) /\ v.queue = u.queue
    BY <2>1, <2>2, StepMoves DEF Steers, SamePlace
  <2>5. Moves(t, v)
    BY <2>1, <2>2, <2>4, MovesOn DEF Took
  <2> QED
    BY <2>2, <2>3, <2>5
<1>2. CASE ~a.reset
  <2> DEFINE u == ApplyEntries(c, t, After(a.ops, t.applied))
             v == IF a.head > u.applied /\ a.ops = <<>>
                  THEN [u EXCEPT !.applied = a.head] ELSE u
             w == Drain(c, v)
             rest == Only(w.reorder, {n \in Keys(w.reorder) : n > w.applied})
             x == [w EXCEPT !.reorder = rest]
  <2>1. /\ Takes(t, u) /\ Took(u, s, saved) /\ Takes(u, v) /\ Took(v, s, saved)
    BY <1>2, AnswerTaken
  <2>2. CatchUpAnswer(c, t, a) = EndCatchUp(x)
    BY <1>2 DEF CatchUpAnswer
  <2> HIDE DEF u
  <2> HIDE DEF v
  <2>5. Takes(v, w) /\ Took(w, s, saved)
    BY <2>1, DrainSound
  <2>6. DOMAIN rest \subseteq DOMAIN w.reorder /\ \A n \in DOMAIN rest : rest[n] = w.reorder[n]
    BY DEF Only, Keys
  <2> HIDE DEF w, rest
  <2>7. Takes(w, x) /\ Took(x, s, saved)
    BY <2>5, <2>6, FewerHeldSound
  <2> HIDE DEF x
  <2>8. Takes(t, x)
    <3>1. Takes(t, v)
      BY <2>1, TakesOn DEF Took
    <3>2. Takes(t, w)
      BY <2>5, <3>1, TakesOn DEF Took
    <3> QED
      BY <2>7, <3>2, TakesOn DEF Took
  <2>9. Steers(x, EndCatchUp(x)) /\ Took(EndCatchUp(x), s, saved)
    BY <2>7, EndCatchUpSound
  <2>10. Moves(t, x) /\ x.room /\ t.submit = x.submit
    BY <2>8, StepMoves DEF Takes, SamePlace
  <2>11. Moves(x, EndCatchUp(x)) /\ EndCatchUp(x).queue = x.queue
    BY <2>7, <2>9, <2>10, StepMoves DEF Steers, SamePlace
  <2>12. Moves(t, EndCatchUp(x))
    BY <2>7, <2>9, <2>10, <2>11, MovesOn DEF Took
  <2> QED
    BY <2>2, <2>9, <2>12
<1> QED
  BY <1>1, <1>2

-----------------------------------------------------------------------------
(***************************************************************************)
(* What may be on its way to a tab, and what a tab makes of it.            *)
(***************************************************************************)
Fits(c, t, m, s, member) ==
  /\ m \in Messages
  /\ ~member => m.kind \notin {"op", "file", "joined"}
  /\ ~t.room => m.kind \in {"op", "file", "joined"}
  /\ m.kind \in {"op", "accepted"} => Suits(t, m.entry, s)
  /\ m.kind = "accepted" => m.entry.client = c
  /\ m.kind = "joined" /\ ~t.room => m.savedSeq = Len(t.seen)
  /\ m.kind = "since" => Answer(t, m.answer, s)

(* A message on its way to a tab that moved on still fits it. *)
LEMMA StillFits ==
  ASSUME NEW c, NEW t, NEW u, NEW m, NEW s, NEW member, Fits(c, t, m, s, member),
         Leads(t, u), IsTab(t), IsTab(u)
  PROVE  Fits(c, u, m, s, member)
<1>1. m.kind \in {"op", "accepted"} => Suits(u, m.entry, s)
  BY DEF Fits, Suits, Leads
<1>2. m.kind = "since" => Answer(u, m.answer, s)
  <2> SUFFICES ASSUME m.kind = "since", ~m.answer.reset PROVE Answer(u, m.answer, s)
    BY DEF Answer
  <2>1. PICK from \in 0..Len(t.seen) : AnswerFrom(t, m.answer, from, s)
    BY DEF Fits, Answer
  <2>2. from \in 0..Len(u.seen)
    BY DEF Leads, IsTab
  <2>3. AnswerFrom(u, m.answer, from, s)
    BY <2>1 DEF AnswerFrom, Leads
  <2> QED
    BY <2>2, <2>3 DEF Answer
<1>3. /\ ~u.room => ~t.room
      /\ ~u.room => u.seen = t.seen
  BY DEF Leads
<1> QED
  BY <1>1, <1>2, <1>3 DEF Fits

(* A tab's connection, its membership of the room and its own view of it. *)
Linked(t, member) ==
  /\ t.room \in BOOLEAN /\ t.joined = t.room /\ (t.room => t.open)
  /\ member \/ t.join.phase = "asked" => t.open /\ t.link
  /\ member => t.join.phase # "asked"
  /\ ~t.room => /\ t.applied = 0 /\ DOMAIN t.reorder = {} /\ t.queue = <<>>
                /\ t.submit.phase = "idle" /\ t.since.phase = "idle"
                /\ ~t.timer /\ ~t.resynced

(* A tab that keeps its place keeps its connection and room. *)
LEMMA StaysLinked ==
  ASSUME NEW t, NEW u, NEW member, Linked(t, member), Stays(t, u), t.room
  PROVE  Linked(u, member)
BY DEF Linked, Stays

(* What becomes of the queue. *)
Proceeds(u) ==
  Settled(u) \/ (u.submit.phase = "asked" /\ u.queue # <<>> /\ u.submit.op = Head(u.queue))

Shift(queue) == IF queue = <<>> THEN queue ELSE Tail(queue)

Reply2 == {"accepted", "stale", "refused"}

Ships(t, u, m) ==
  IF m.kind \in Reply2
  THEN /\ Proceeds(u) /\ u.resynced = t.resynced
       /\ u.queue = IF m.kind = "accepted" THEN Shift(t.queue) ELSE t.queue
  ELSE Queues(t, u)

Handles(c, t, u, m, s, saved, member) ==
  /\ Took(u, s, saved) /\ Linked(u, member) /\ Leads(t, u) /\ Ships(t, u, m)
  /\ u.open = t.open

(* A message that moves a tab in the room is handled. *)
LEMMA MovesHandle ==
  ASSUME NEW c, NEW t, NEW u, NEW m, NEW s, NEW saved, NEW member,
         Linked(t, member), t.room, m.kind \notin Reply2, Moves(t, u), Took(u, s, saved)
  PROVE  Handles(c, t, u, m, s, saved, member)
BY StaysLinked DEF Moves, Ships, Handles, Stays

(* A message that is no reply may be passed over. *)
LEMMA NothingHandled ==
  ASSUME NEW c, NEW t, NEW m, NEW s, NEW saved, NEW member,
         Linked(t, member), m.kind \notin Reply2, Took(t, s, saved)
  PROVE  Handles(c, t, t, m, s, saved, member)
<1>1. Len(t.seen) <= Len(t.seen)
  BY DEF Took, IsTab
<1> QED
  BY <1>1 DEF Handles, Leads, Ships, Queues, Submits

(* A tab whose submission is settled, and maybe shifted. *)
Settles(t, u) ==
  /\ DOMAIN u = DOMAIN t /\ u.submit.phase \in {"idle", "catching"}
  /\ u.queue \in Seq(OpSet) /\ u.since = t.since /\ u.resynced = t.resynced
  /\ Stays(t, u) /\ SameSheet(t, u)

(* A tab whose submission is settled is still in line with the log. *)
LEMMA SettleSound ==
  ASSUME NEW t, NEW u, NEW s, NEW saved, Took(t, s, saved), Settles(t, u)
  PROVE  Took(u, s, saved)
<1>1. IsTab(u)
  BY DEF Took, IsTab, SameSheet, Settles
<1>2. Level(u) <=> Level(t)
  BY DEF SameSheet, Level, Settles
<1>3. Sees(u, s) /\ Holds(u, s) /\ Asks(u)
  BY <1>2 DEF Took, Sees, Holds, Asks, SameSheet, Settles
<1> QED
  BY <1>1, <1>2, <1>3 DEF Took, MayAsk, SameSheet, Settles

(* A tab that keeps its sheet and its position does not fall behind. *)
LEMMA SettledLeads ==
  ASSUME NEW t, NEW u, IsTab(t), SameSheet(t, u), Stays(t, u)
  PROVE  Leads(t, u)
<1>1. Len(t.seen) <= Len(t.seen)
  BY DEF IsTab
<1> QED
  BY <1>1 DEF SameSheet, Stays, Leads, Level

(* A tab only moves forward. *)
LEMMA LeadsOn ==
  ASSUME NEW t, NEW u, NEW v, IsTab(t), IsTab(u), IsTab(v), Leads(t, u), Leads(u, v)
  PROVE  Leads(t, v)
<1>1. Len(t.seen) \in Nat /\ Len(u.seen) \in Nat /\ Len(v.seen) \in Nat
  BY DEF IsTab
<1>2. Len(t.seen) <= Len(v.seen)
  BY <1>1 DEF Leads
<1> QED
  BY <1>2 DEF Leads

(* An acknowledgement keeps the tab in line with the log. *)
LEMMA AcceptedSound ==
  ASSUME NEW t, NEW s, NEW saved, Took(t, s, saved), Slotted(s), NEW member,
         Linked(t, member), t.room, NEW c, NEW m, m.kind = "accepted", Suits(t, m.entry, s)
  PROVE  Handles(c, t, Accepted(c, t, m.entry), m, s, saved, member)
<1> DEFINE e == m.entry
           queue == Shift(t.queue)
           u == [t EXCEPT !.submit = NoCall, !.queue = queue]
           v == IF e.seq = u.applied + 1 THEN Drain(c, ApplyEntries(c, u, <<e>>))
                ELSE IF e.seq > u.applied THEN Hold(u, e) ELSE u
           w == Flush(v)
<1>1. Accepted(c, t, e) = w
  BY Zenon DEF Accepted, Shift
<1>2. queue \in Seq(OpSet)
  BY DEF Took, IsTab, Shift
<1> HIDE DEF queue
<1>3. NoCall.phase \in {"idle", "catching"}
  BY DEF NoCall
<1>4. /\ Took(u, s, saved) /\ u.submit = NoCall /\ u.queue = queue
      /\ u.resynced = t.resynced /\ Stays(t, u) /\ SameSheet(t, u)
  <2>1. /\ DOMAIN u = DOMAIN t /\ u.submit = NoCall /\ u.queue = queue
        /\ u.since = t.since /\ u.resynced = t.resynced /\ Stays(t, u) /\ SameSheet(t, u)
    BY DEF Took, IsTab, Stays, SameSheet
  <2> HIDE DEF u
  <2>2. Settles(t, u)
    BY <1>2, <1>3, <2>1 DEF Settles
  <2> QED
    BY <2>1, <2>2, SettleSound
<1> HIDE DEF u
<1>5. Suits(u, e, s)
  BY <1>4 DEF Suits, SameSheet, Level
<1>6. Takes(u, v) /\ Took(v, s, saved)
  <2>1. Takes(u, Hold(u, e)) /\ Took(Hold(u, e), s, saved)
    BY <1>4, <1>5, HoldSound
  <2>2. Takes(u, u)
    BY <1>4 DEF Took, IsTab, Takes, SamePlace
  <2>3. e.seq = u.applied + 1 => /\ Takes(u, Drain(c, ApplyEntries(c, u, <<e>>)))
                                 /\ Took(Drain(c, ApplyEntries(c, u, <<e>>)), s, saved)
    BY <1>4, <1>5, NextSound
  <2> QED
    BY <1>4, <2>1, <2>2, <2>3
<1> HIDE DEF v
<1>7. Steers(v, w) /\ w.since = v.since
  BY <1>6, FlushSteers DEF Took
<1> HIDE DEF w
<1>8. Took(w, s, saved)
  BY <1>6, <1>7, SteersKeeps DEF Took
<1>9. u.room /\ v.room
  BY <1>4, <1>6 DEF Stays, Takes, SamePlace
<1>10. Leads(t, u) /\ Leads(u, v) /\ Leads(v, w)
  BY <1>4, <1>6, <1>7, <1>9, SettledLeads, StepMoves DEF Took, Moves
<1>11. Leads(t, w)
  <2>1. IsTab(t) /\ IsTab(u) /\ IsTab(v) /\ IsTab(w)
    BY <1>4, <1>6, <1>8 DEF Took
  <2>2. Leads(t, v)
    BY <1>10, <2>1, LeadsOn
  <2> QED
    BY <1>10, <2>1, <2>2, LeadsOn
<1>12. Stays(t, w)
  BY <1>4, <1>6, <1>7 DEF Stays, Takes, Steers, SamePlace
<1>13. Proceeds(w) /\ w.queue = queue /\ w.resynced = t.resynced
  <2>1. v.submit = NoCall /\ v.queue = queue /\ v.resynced = t.resynced
    BY <1>4, <1>6 DEF Takes, SamePlace
  <2> QED
    BY <1>3, <1>7, <2>1 DEF Steers, SamePlace, Submits, Proceeds, Settled
<1>14. Linked(w, member)
  BY <1>12, StaysLinked
<1>15. Ships(t, w, m)
  BY <1>13 DEF Ships, Reply2, queue
<1> QED
  BY <1>1, <1>8, <1>11, <1>12, <1>14, <1>15 DEF Handles, Stays

(* A tab may ask for what follows its applied position. *)
LEMMA AppliedMayAsk ==
  ASSUME NEW t, NEW s, NEW saved, Took(t, s, saved), NEW u,
         u.applied = t.applied, u.seen = t.seen
  PROVE  MayAsk(u, t.applied)
BY DEF Took, IsTab, Level, MayAsk

(* A refusal keeps the tab in line with the log. *)
LEMMA RefusedSound ==
  ASSUME NEW t, NEW s, NEW saved, Took(t, s, saved), NEW member,
         Linked(t, member), t.room, NEW c, NEW m, m.kind = "refused"
  PROVE  Handles(c, t, Refused(t), m, s, saved, member)
<1> DEFINE u == Refused(t)
<1>1. /\ DOMAIN u = DOMAIN t /\ u.submit = NoCall /\ u.queue = t.queue
      /\ u.since = t.since /\ u.resynced = t.resynced /\ Stays(t, u) /\ SameSheet(t, u)
  BY DEF Refused, Took, IsTab, Stays, SameSheet
<1>2. NoCall.phase \in {"idle", "catching"}
  BY DEF NoCall
<1> HIDE DEF u
<1>3. /\ Took(u, s, saved) /\ u.submit = NoCall /\ u.queue = t.queue
      /\ u.resynced = t.resynced /\ Stays(t, u) /\ SameSheet(t, u)
  <2>1. Settles(t, u)
    BY <1>1, <1>2 DEF Settles, Took, IsTab
  <2> QED
    BY <1>1, <2>1, SettleSound
<1>4. Linked(u, member) /\ Leads(t, u) /\ u.open = t.open
  BY <1>3, StaysLinked, SettledLeads DEF Took, Stays
<1>5. Ships(t, u, m)
  BY <1>2, <1>3 DEF Ships, Reply2, Proceeds, Settled
<1> QED
  BY <1>3, <1>4, <1>5 DEF Handles, u

(* So does a refusal as stale, and the catch-up it starts. *)
LEMMA StaleSound ==
  ASSUME NEW t, NEW s, NEW saved, Took(t, s, saved), NEW member,
         Linked(t, member), t.room, NEW c, NEW m, m.kind = "stale"
  PROVE  Handles(c, t, Stale(t), m, s, saved, member)
<1> DEFINE call == [phase |-> "catching"]
           u == [t EXCEPT !.submit = call]
           v == StartCatchUp(u, t.applied)
<1>0. Stale(t) = v
  BY DEF Stale
<1>2. call.phase \in {"idle", "catching"} /\ call.phase = "catching"
  OBVIOUS
<1> HIDE DEF call
<1>1. /\ DOMAIN u = DOMAIN t /\ u.submit = call /\ u.queue = t.queue
      /\ u.since = t.since /\ u.resynced = t.resynced /\ Stays(t, u) /\ SameSheet(t, u)
  BY DEF Took, IsTab, Stays, SameSheet
<1> HIDE DEF u
<1>3. /\ Took(u, s, saved) /\ u.submit = call /\ u.queue = t.queue
      /\ u.resynced = t.resynced /\ Stays(t, u) /\ SameSheet(t, u)
  <2>1. Settles(t, u)
    BY <1>1, <1>2 DEF Settles, Took, IsTab
  <2> QED
    BY <1>1, <2>1, SettleSound
<1>4. MayAsk(u, t.applied)
  <2>1. u.applied = t.applied /\ u.seen = t.seen
    BY <1>3 DEF SameSheet
  <2> QED
    BY <2>1, AppliedMayAsk
<1>5. Steers(u, v) /\ Took(v, s, saved)
  BY <1>3, <1>4, StartCatchUpSound
<1> HIDE DEF v
<1>6. Leads(t, v)
  <2>1. u.room
    BY <1>3 DEF Stays
  <2>2. Leads(t, u) /\ Leads(u, v)
    BY <1>3, <1>5, <2>1, SettledLeads, StepMoves DEF Took, Moves
  <2>3. IsTab(t) /\ IsTab(u) /\ IsTab(v)
    BY <1>3, <1>5 DEF Took
  <2> QED
    BY <2>2, <2>3, LeadsOn
<1>7. Stays(t, v)
  BY <1>3, <1>5 DEF Stays, Steers, SamePlace
<1>8. Linked(v, member)
  BY <1>7, StaysLinked
<1>9. Ships(t, v, m)
  BY <1>2, <1>3, <1>5 DEF Ships, Reply2, Proceeds, Settled, Steers, SamePlace, Submits
<1> QED
  BY <1>0, <1>5, <1>6, <1>7, <1>8, <1>9 DEF Handles, Stays

(* So does the news of a save or a replacement. *)
LEMMA FileChangedSound ==
  ASSUME NEW t, NEW s, NEW saved, Took(t, s, saved), t.room, NEW reset, NEW savedSeq
  PROVE  Moves(t, FileChanged(t, reset, savedSeq)) /\ Took(FileChanged(t, reset, savedSeq), s, saved)
<1>1. CASE reset
  <2> DEFINE u == [t EXCEPT !.told = TRUE]
  <2>1. /\ SameSheet(t, u) /\ SamePlace(t, u) /\ u.submit = t.submit /\ u.since = t.since
        /\ DOMAIN u = DOMAIN t
    BY DEF Took, IsTab, SameSheet, SamePlace
  <2> HIDE DEF u
  <2>2. IsTab(u)
    BY <2>1 DEF Took, IsTab, SameSheet, SamePlace
  <2>3. Steers(t, u)
    BY <2>1, <2>2 DEF Steers, Submits
  <2>4. Took(u, s, saved)
    BY <2>1, <2>3, SteersKeeps DEF Took
  <2>5. FileChanged(t, reset, savedSeq) = u
    BY <1>1 DEF FileChanged, u
  <2> QED
    BY <2>3, <2>4, <2>5, StepMoves
<1>2. CASE ~reset /\ savedSeq <= t.applied
  <2>1. Steers(t, t)
    BY DEF Took, Steers, SameSheet, SamePlace, Submits
  <2>2. FileChanged(t, reset, savedSeq) = t
    BY <1>2 DEF FileChanged
  <2> QED
    BY <2>1, <2>2, StepMoves
<1>3. CASE ~reset /\ ~(savedSeq <= t.applied)
  <2> DEFINE awaited == IF t.awaited > savedSeq THEN t.awaited ELSE savedSeq
             u == [t EXCEPT !.awaited = awaited]
             v == StartCatchUp(u, t.applied)
  <2>0. FileChanged(t, reset, savedSeq) = v
    BY <1>3 DEF FileChanged
  <2> HIDE DEF awaited
  <2>1. /\ SameSheet(t, u) /\ SamePlace(t, u) /\ u.submit = t.submit /\ u.since = t.since
        /\ DOMAIN u = DOMAIN t
    BY DEF Took, IsTab, SameSheet, SamePlace
  <2> HIDE DEF u
  <2>2. IsTab(u)
    BY <2>1 DEF Took, IsTab, SameSheet, SamePlace
  <2>3. Steers(t, u)
    BY <2>1, <2>2 DEF Steers, Submits
  <2>4. Took(u, s, saved)
    BY <2>1, <2>3, SteersKeeps DEF Took
  <2>5. MayAsk(u, t.applied)
    <3>1. u.applied = t.applied /\ u.seen = t.seen
      BY <2>1 DEF SameSheet
    <3> QED
      BY <3>1, AppliedMayAsk
  <2>6. Steers(u, v) /\ Took(v, s, saved)
    BY <2>4, <2>5, StartCatchUpSound
  <2> HIDE DEF v
  <2>7. Steers(t, v)
    BY <2>3, <2>6, SteersOn
  <2> QED
    BY <2>0, <2>6, <2>7, StepMoves
<1> QED
  BY <1>1, <1>2, <1>3

(* So does the answer to a join. *)
LEMMA JoinedSound ==
  ASSUME NEW t, NEW s, NEW saved, Took(t, s, saved), Slotted(s), Linked(t, TRUE),
         NEW c, NEW m, m.kind = "joined", ~t.room => m.savedSeq = Len(t.seen)
  PROVE  Handles(c, t, Joined(t, m.savedSeq), m, s, saved, TRUE)
<1> DEFINE from == IF t.joined THEN t.applied ELSE m.savedSeq
           u == [t EXCEPT !.join = NoCall, !.room = TRUE, !.joined = TRUE, !.flushAfter = TRUE]
           v == StartCatchUp(u, from)
<1>1. Joined(t, m.savedSeq) = v
  BY DEF Joined
<1>2. /\ SameSheet(t, u) /\ u.submit = t.submit /\ u.since = t.since
      /\ u.open = t.open /\ u.link = t.link /\ u.queue = t.queue /\ u.resynced = t.resynced
      /\ u.room = TRUE /\ u.joined = TRUE /\ u.join.phase = "idle"
      /\ DOMAIN u = DOMAIN t
  BY DEF Took, IsTab, SameSheet, NoCall
<1>3. MayAsk(u, from)
  <2>1. u.applied = t.applied /\ u.seen = t.seen
    BY <1>2 DEF SameSheet
  <2>2. CASE t.joined
    BY <2>1, <2>2, AppliedMayAsk
  <2>3. CASE ~t.joined
    <3>1. from = Len(t.seen)
      BY <2>3 DEF Linked
    <3>2. Len(t.seen) \in Nat
      BY DEF Took, IsTab
    <3> QED
      BY <2>1, <3>1, <3>2 DEF MayAsk
  <2> QED
    BY <2>2, <2>3
<1> HIDE DEF u, from
<1>4. IsTab(u)
  BY <1>2 DEF Took, IsTab, SameSheet
<1>5. Took(u, s, saved)
  <2>1. Level(u) <=> Level(t)
    BY <1>2 DEF SameSheet, Level
  <2>2. Sees(u, s) /\ Holds(u, s) /\ Asks(u)
    BY <1>2, <2>1 DEF Took, Sees, Holds, Asks, SameSheet
  <2> QED
    BY <1>2, <1>4, <2>1, <2>2 DEF Took, MayAsk, SameSheet
<1>6. Steers(u, v) /\ Took(v, s, saved)
  BY <1>3, <1>5, StartCatchUpSound
<1> HIDE DEF v
<1>7. Leads(t, v)
  <2>1. Len(t.seen) <= Len(t.seen)
    BY DEF Took, IsTab
  <2> QED
    BY <1>2, <1>6, <2>1 DEF Leads, SameSheet, Steers, SamePlace, Level
<1>8. Linked(v, TRUE)
  BY <1>2, <1>6 DEF Linked, Steers, SamePlace
<1>9. Ships(t, v, m)
  BY <1>2, <1>6 DEF Ships, Reply2, Queues, Submits, Settled, Steers, SamePlace
<1> QED
  BY <1>1, <1>2, <1>6, <1>7, <1>8, <1>9 DEF Handles, Steers, SamePlace

(* Every message that fits a tab keeps it in line with the log. *)
LEMMA HandleSound ==
  ASSUME NEW t, NEW s, NEW saved, Took(t, s, saved), Slotted(s), NEW member,
         Linked(t, member), NEW c, NEW m, Fits(c, t, m, s, member)
  PROVE  Handles(c, t, Handle(c, t, m), m, s, saved, member)
<1>0. m.kind \in {"op", "file", "joined", "since", "failed", "accepted", "stale", "refused"}
  BY DEF Fits, Messages
<1>1. CASE m.kind = "op"
  <2>1. Handle(c, t, m) = IF t.room THEN Receive(c, t, m.entry) ELSE t
    BY <1>1 DEF Handle
  <2>2. m.kind \notin Reply2
    BY <1>1 DEF Reply2
  <2>3. CASE t.room
    <3>1. Takes(t, Receive(c, t, m.entry)) /\ Took(Receive(c, t, m.entry), s, saved)
      BY <1>1, ReceiveSound DEF Fits
    <3> QED
      BY <2>1, <2>2, <2>3, <3>1, StepMoves, MovesHandle
  <2>4. CASE ~t.room
    BY <2>1, <2>2, <2>4, NothingHandled
  <2> QED
    BY <2>3, <2>4
<1>2. CASE m.kind = "file"
  <2>1. Handle(c, t, m) = IF t.room THEN FileChanged(t, m.reset, m.savedSeq) ELSE t
    BY <1>2 DEF Handle
  <2>2. m.kind \notin Reply2
    BY <1>2 DEF Reply2
  <2>3. CASE t.room
    BY <2>1, <2>2, <2>3, FileChangedSound, MovesHandle
  <2>4. CASE ~t.room
    BY <2>1, <2>2, <2>4, NothingHandled
  <2> QED
    BY <2>3, <2>4
<1>3. CASE m.kind = "joined"
  <2>1. Handle(c, t, m) = Joined(t, m.savedSeq)
    BY <1>3 DEF Handle
  <2>2. Linked(t, TRUE) /\ (~t.room => m.savedSeq = Len(t.seen))
    BY <1>3 DEF Fits, Linked
  <2>3. Handles(c, t, Joined(t, m.savedSeq), m, s, saved, TRUE)
    BY <1>3, <2>2, JoinedSound
  <2>4. member
    BY <1>3 DEF Fits
  <2>5. Linked(Joined(t, m.savedSeq), member)
    BY <2>3, <2>4 DEF Handles, Linked
  <2> QED
    BY <2>1, <2>3, <2>5 DEF Handles
<1>4. CASE m.kind = "since"
  <2>1. Handle(c, t, m) = CatchUpAnswer(c, t, m.answer) /\ t.room /\ Answer(t, m.answer, s)
        /\ m.kind \notin Reply2
    BY <1>4 DEF Handle, Fits, Reply2
  <2> QED
    BY <2>1, CatchUpAnswerSound, MovesHandle
<1>5. CASE m.kind = "failed"
  <2>1. Handle(c, t, m) = EndCatchUp(t) /\ t.room /\ m.kind \notin Reply2
    BY <1>5 DEF Handle, Fits, Reply2
  <2> QED
    BY <2>1, EndCatchUpSound, StepMoves, MovesHandle
<1>6. CASE m.kind = "accepted"
  <2>1. Handle(c, t, m) = Accepted(c, t, m.entry) /\ t.room /\ Suits(t, m.entry, s)
    BY <1>6 DEF Handle, Fits
  <2> QED
    BY <1>6, <2>1, AcceptedSound
<1>7. CASE m.kind = "stale"
  <2>1. Handle(c, t, m) = Stale(t) /\ t.room
    BY <1>7 DEF Handle, Fits
  <2> QED
    BY <1>7, <2>1, StaleSound
<1>8. CASE m.kind = "refused"
  <2>1. Handle(c, t, m) = Refused(t) /\ t.room
    BY <1>8 DEF Handle, Fits
  <2> QED
    BY <1>8, <2>1, RefusedSound
<1> QED
  BY <1>0, <1>1, <1>2, <1>3, <1>4, <1>5, <1>6, <1>7, <1>8

-----------------------------------------------------------------------------
(***************************************************************************)
(* The first part of the invariant: what every tab has taken in follows    *)
(* the log, and what is on its way to it will.                             *)
(***************************************************************************)
TabFits(c, t, box, s, saved, member) ==
  /\ IsTab(t) /\ Linked(t, member)
  /\ t.room \/ member => Took(t, s, saved)
  /\ box \in Seq(Messages)
  /\ \A i \in 1..Len(box) : Fits(c, t, box[i], s, member)

IsLeft(l) == DOMAIN l = {"opens", "network", "edits", "drops", "saves", "replaces"}

Typed ==
  /\ DOMAIN tab = Tabs /\ DOMAIN inbox = Tabs /\ members \subseteq Tabs /\ IsLeft(left)
  /\ made \in Seq(Tabs)
  /\ \A c \in Tabs : c \in left.opens => ~tab[c].open

AllFit == \A c \in Tabs : TabFits(c, tab[c], inbox[c], slots, log.savedSeq, c \in members)

TakenInv == Typed /\ LogFits(log, slots) /\ AllFit

(* A message that fits may be sent. *)
LEMMA BoxAppend ==
  ASSUME NEW c, NEW t, NEW box, NEW s, NEW saved, NEW member,
         TabFits(c, t, box, s, saved, member), NEW m, Fits(c, t, m, s, member)
  PROVE  TabFits(c, t, Append(box, m), s, saved, member)
<1>1. box \in Seq(Messages) /\ m \in Messages
  BY DEF TabFits, Fits
<1>2. /\ Append(box, m) \in Seq(Messages)
      /\ \A i \in 1..Len(Append(box, m)) :
           Append(box, m)[i] = m \/ (i \in 1..Len(box) /\ Append(box, m)[i] = box[i])
  <2>1. \A b \in Seq(Messages), x \in Messages :
          /\ Append(b, x) \in Seq(Messages)
          /\ \A i \in 1..Len(Append(b, x)) :
               Append(b, x)[i] = x \/ (i \in 1..Len(b) /\ Append(b, x)[i] = b[i])
    <3> HIDE DEF Messages
    <3> QED
      OBVIOUS
  <2> QED
    BY <1>1, <2>1
<1> QED
  BY <1>2 DEF TabFits

(* What was on its way to a tab that moved on still fits. *)
LEMMA TabMoves ==
  ASSUME NEW c, NEW t, NEW u, NEW box, NEW s, NEW saved, NEW member,
         TabFits(c, t, box, s, saved, member), Linked(u, member), Leads(t, u),
         IsTab(u), u.room \/ member => Took(u, s, saved)
  PROVE  TabFits(c, u, box, s, saved, member)
<1>1. \A i \in 1..Len(box) : Fits(c, u, box[i], s, member)
  BY StillFits DEF TabFits
<1> QED
  BY <1>1 DEF TabFits

Longer(s, r) == Len(s) <= Len(r) /\ \A i \in 1..Len(s) : r[i] = s[i]

(* A longer log still fits every tab. *)
LEMMA Outlives ==
  ASSUME NEW c, NEW t, NEW box, NEW s \in Seq(SlotSet), NEW saved \in Nat, NEW member,
         TabFits(c, t, box, s, saved, member),
         NEW r \in Seq(SlotSet), NEW saved2 \in Nat, Longer(s, r), saved <= saved2
  PROVE  TabFits(c, t, box, r, saved2, member)
<1>1. Len(s) \in Nat /\ Len(r) \in Nat /\ Len(s) <= Len(r) /\ \A i \in 1..Len(s) : r[i] = s[i]
  BY DEF Longer
<1>2. ASSUME Took(t, s, saved) PROVE Took(t, r, saved2)
  <2>1. Len(t.seen) \in Nat
    BY <1>2 DEF Took, IsTab
  <2>2. Sees(t, r)
    BY <1>1, <1>2, <2>1 DEF Took, Sees
  <2>3. Holds(t, r)
    BY <1>1, <1>2 DEF Took, Holds
  <2>4. Len(t.seen) <= saved => Len(t.seen) <= saved2
    BY <2>1
  <2> QED
    BY <1>2, <2>2, <2>3, <2>4 DEF Took
<1>3. ASSUME NEW m, Fits(c, t, m, s, member) PROVE Fits(c, t, m, r, member)
  <2>1. m.kind \in {"op", "accepted"} => Suits(t, m.entry, r)
    BY <1>1, <1>3 DEF Fits, Suits
  <2>2. m.kind = "since" => Answer(t, m.answer, r)
    <3> SUFFICES ASSUME m.kind = "since", ~m.answer.reset PROVE Answer(t, m.answer, r)
      BY DEF Answer
    <3>1. PICK from \in 0..Len(t.seen) : AnswerFrom(t, m.answer, from, s)
      BY <1>3 DEF Fits, Answer
    <3> DEFINE a == m.answer
               n == Len(a.ops)
               h == a.head
    <3>2. /\ a.ops \in Seq(EntrySet) /\ h \in from..Len(s) /\ n = h - from
          /\ \A i \in 1..n : a.ops[i] = s[from + i]
          /\ Level(t) \/ from = Len(t.seen)
      BY <3>1 DEF AnswerFrom
    <3>3. from \in Nat
      BY DEF TabFits, IsTab
    <3> HIDE DEF n, h
    <3>4. h \in from..Len(r)
      BY <1>1, <3>2, <3>3
    <3>5. \A i \in 1..n : from + i \in 1..Len(s)
      BY <1>1, <3>2, <3>3
    <3>6. \A i \in 1..n : a.ops[i] = r[from + i]
      BY <1>1, <3>2, <3>5
    <3>7. AnswerFrom(t, a, from, r)
      BY <3>2, <3>4, <3>6 DEF AnswerFrom, n, h
    <3> QED
      BY <3>7 DEF Answer
  <2> QED
    BY <1>3, <2>1, <2>2 DEF Fits
<1> QED
  BY <1>2, <1>3 DEF TabFits

(* A step of one tab leaves the others as they are. *)
LEMMA OneTabStep ==
  ASSUME TakenInv, NEW c \in Tabs, Typed', UNCHANGED <<log, slots>>,
         \A d \in Tabs : d # c => /\ tab'[d] = tab[d] /\ inbox'[d] = inbox[d]
                                  /\ d \in members' <=> d \in members,
         TabFits(c, tab'[c], inbox'[c], slots, log.savedSeq, c \in members')
  PROVE  TakenInv'
<1>1. ASSUME NEW d \in Tabs
      PROVE  TabFits(d, tab'[d], inbox'[d], slots', log'.savedSeq, d \in members')
  <2>1. CASE d = c
    BY <2>1
  <2>2. CASE d # c
    <3>1. TabFits(d, tab[d], inbox[d], slots, log.savedSeq, d \in members)
      BY DEF TakenInv, AllFit
    <3>2. (d \in members') = (d \in members)
      BY <2>2
    <3> QED
      BY <2>2, <3>1, <3>2
  <2> QED
    BY <2>1, <2>2
<1>2. AllFit'
  BY <1>1 DEF AllFit
<1> QED
  BY <1>2 DEF TakenInv

(* What is left when an element is removed. *)
LEMMA RemoveElements ==
  ASSUME NEW T, NEW b \in Seq(T), NEW k \in 1..Len(b)
  PROVE  /\ RemoveAt(b, k) \in Seq(T)
         /\ Len(RemoveAt(b, k)) = Len(b) - 1
         /\ \A j \in 1..(Len(b) - 1) : RemoveAt(b, k)[j] = IF j < k THEN b[j] ELSE b[j + 1]
<1> DEFINE m == Len(b)
           front == SubSeq(b, 1, k - 1)
           back == SubSeq(b, k + 1, m)
<1>1. RemoveAt(b, k) = front \o back
  BY DEF RemoveAt
<1>2. /\ front \in Seq(T) /\ Len(front) = k - 1 /\ \A j \in 1..(k - 1) : front[j] = b[j]
      /\ back \in Seq(T) /\ Len(back) = m - k /\ \A j \in 1..(m - k) : back[j] = b[k + j]
  OBVIOUS
<1>3. m \in Nat /\ k \in 1..m
  OBVIOUS
<1> HIDE DEF front, back, m
<1>4. \A f, g \in Seq(T) :
        /\ f \o g \in Seq(T) /\ Len(f \o g) = Len(f) + Len(g)
        /\ \A j \in 1..(Len(f) + Len(g)) :
             (f \o g)[j] = IF j <= Len(f) THEN f[j] ELSE g[j - Len(f)]
  OBVIOUS
<1>5. /\ front \o back \in Seq(T) /\ Len(front \o back) = (k - 1) + (m - k)
      /\ \A j \in 1..((k - 1) + (m - k)) :
           (front \o back)[j] = IF j <= k - 1 THEN front[j] ELSE back[j - (k - 1)]
  <2>1. /\ front \o back \in Seq(T) /\ Len(front \o back) = Len(front) + Len(back)
        /\ \A j \in 1..(Len(front) + Len(back)) :
             (front \o back)[j] = IF j <= Len(front) THEN front[j] ELSE back[j - Len(front)]
    BY <1>2, <1>4
  <2>2. Len(front) = k - 1 /\ Len(back) = m - k
    BY <1>2
  <2> QED
    BY <2>1, <2>2, Zenon
<1>6. (k - 1) + (m - k) = m - 1
  BY <1>3
<1>7. ASSUME NEW j \in 1..(m - 1)
      PROVE  (front \o back)[j] = IF j < k THEN b[j] ELSE b[j + 1]
  <2>1. CASE j < k
    BY <1>2, <1>3, <1>5, <1>6, <2>1
  <2>2. CASE ~(j < k)
    <3>1. j - (k - 1) \in 1..(m - k) /\ k + (j - (k - 1)) = j + 1 /\ ~(j <= k - 1)
      BY <1>3, <2>2
    <3> QED
      BY <1>2, <1>5, <1>6, <2>2, <3>1
  <2> QED
    BY <2>1, <2>2
<1> QED
  BY <1>1, <1>5, <1>6, <1>7 DEF m

(* A message may be taken. *)
LEMMA BoxRemove ==
  ASSUME NEW c, NEW t, NEW box, NEW s, NEW saved, NEW member,
         TabFits(c, t, box, s, saved, member), NEW i \in 1..Len(box)
  PROVE  TabFits(c, t, RemoveAt(box, i), s, saved, member)
<1> DEFINE m == Len(box)
           rest == RemoveAt(box, i)
<1>1. box \in Seq(Messages) /\ m \in Nat
  BY DEF TabFits
<1>2. /\ rest \in Seq(Messages) /\ Len(rest) = m - 1
      /\ \A j \in 1..(m - 1) : rest[j] = IF j < i THEN box[j] ELSE box[j + 1]
  BY <1>1, RemoveElements
<1> HIDE DEF rest
<1>3. ASSUME NEW j \in 1..(m - 1) PROVE Fits(c, t, rest[j], s, member)
  <2>1. j \in 1..m /\ j + 1 \in 1..m
    BY <1>1
  <2>2. rest[j] = box[j] \/ rest[j] = box[j + 1]
    BY <1>2
  <2> QED
    BY <2>1, <2>2 DEF TabFits
<1>4. TabFits(c, t, rest, s, saved, member)
  BY <1>2, <1>3 DEF TabFits
<1> QED
  BY <1>4 DEF rest

(* Deliver keeps the first part of the invariant. *)
LEMMA DeliverTaken ==
  ASSUME TakenInv, NEW c \in Tabs, NEW i \in Arriving(c),
         tab' = [tab EXCEPT ![c] = Handle(c, tab[c], inbox[c][i])],
         inbox' = [inbox EXCEPT ![c] = RemoveAt(inbox[c], i)],
         UNCHANGED <<log, members, file, left, slots, ground, made>>
  PROVE  /\ TakenInv'
         /\ Fits(c, tab[c], inbox[c][i], slots, c \in members)
         /\ Handles(c, tab[c], tab'[c], inbox[c][i], slots, log.savedSeq, c \in members)
<1> DEFINE t == tab[c]
           m == inbox[c][i]
           u == Handle(c, t, m)
<1>1. /\ TabFits(c, t, inbox[c], slots, log.savedSeq, c \in members)
      /\ DOMAIN tab = Tabs /\ DOMAIN inbox = Tabs /\ Typed /\ i \in 1..Len(inbox[c])
  BY DEF TakenInv, AllFit, Typed, Arriving
<1>2. Fits(c, t, m, slots, c \in members)
  BY <1>1 DEF TabFits
<1>3. Took(t, slots, log.savedSeq) /\ Linked(t, c \in members)
  <2>1. t.room \/ c \in members
    BY <1>2 DEF Fits
  <2> QED
    BY <1>1, <2>1 DEF TabFits
<1>4. Slotted(slots)
  BY DEF TakenInv, LogFits, Slotted
<1>5. Handles(c, t, u, m, slots, log.savedSeq, c \in members)
  BY <1>2, <1>3, <1>4, HandleSound
<1>6. /\ tab'[c] = u /\ inbox'[c] = RemoveAt(inbox[c], i)
      /\ DOMAIN tab' = Tabs /\ DOMAIN inbox' = Tabs
      /\ \A d \in Tabs : d # c => tab'[d] = tab[d] /\ inbox'[d] = inbox[d]
  BY <1>1
<1> HIDE DEF u
<1>7. TabFits(c, u, inbox[c], slots, log.savedSeq, c \in members)
  <2>1. /\ Took(u, slots, log.savedSeq) /\ Linked(u, c \in members) /\ Leads(t, u)
        /\ IsTab(u)
    BY <1>5 DEF Handles, Took
  <2> QED
    BY <1>1, <2>1, TabMoves
<1>8. TabFits(c, u, RemoveAt(inbox[c], i), slots, log.savedSeq, c \in members)
  BY <1>1, <1>7, BoxRemove
<1>9. Typed'
  <2>1. u.open = t.open
    BY <1>5 DEF Handles
  <2>2. \A d \in Tabs : tab'[d].open = tab[d].open
    BY <1>6, <2>1
  <2> QED
    BY <1>1, <1>6, <2>2 DEF Typed
<1>10. TakenInv'
  BY <1>6, <1>8, <1>9, OneTabStep
<1> QED
  BY <1>2, <1>5, <1>6, <1>10

(* A step of the tab alone, with no message sent or taken. *)
LEMMA TabStepTaken ==
  ASSUME TakenInv, NEW c \in Tabs, NEW u, tab' = [tab EXCEPT ![c] = u],
         UNCHANGED <<log, members, inbox, slots>>, IsLeft(left'), made' \in Seq(Tabs),
         left'.opens = left.opens, u.open = tab[c].open,
         IsTab(u), Linked(u, c \in members), Leads(tab[c], u),
         u.room \/ c \in members => Took(u, slots, log.savedSeq)
  PROVE  TakenInv'
<1>1. /\ TabFits(c, tab[c], inbox[c], slots, log.savedSeq, c \in members)
      /\ DOMAIN tab = Tabs /\ DOMAIN inbox = Tabs /\ Typed
  BY DEF TakenInv, AllFit, Typed
<1>2. tab'[c] = u /\ DOMAIN tab' = Tabs /\ \A d \in Tabs : d # c => tab'[d] = tab[d]
  BY <1>1
<1>3. TabFits(c, u, inbox[c], slots, log.savedSeq, c \in members)
  BY <1>1, TabMoves
<1>4. Typed'
  <2>1. \A d \in Tabs : tab'[d].open = tab[d].open
    BY <1>2
  <2> QED
    BY <1>1, <1>2, <2>1 DEF Typed
<1> QED
  BY <1>2, <1>3, <1>4, OneTabStep

(* An edit is queued, and sent unless one is under way. *)
LEMMA PushSound ==
  ASSUME NEW t, NEW s, NEW saved, Took(t, s, saved), NEW cell, NEW n, NEW op \in OpSet,
         NEW u, u = Push(Written(t, cell, n), op)
  PROVE  /\ Took(u, s, saved) /\ Leads(t, u) /\ Stays(t, u)
         /\ u.queue = Append(t.queue, op) /\ u.resynced = t.resynced /\ Submits(t, u)
<1> DEFINE queue == Append(t.queue, op)
           w == Written(t, cell, n)
           v == [w EXCEPT !.queue = Append(@, op)]
<1>1. u = Flush(v)
  BY DEF Push
<1>2. queue \in Seq(OpSet)
  BY DEF Took, IsTab
<1>3. /\ v.applied = t.applied /\ v.reorder = t.reorder /\ v.timer = t.timer
      /\ v.seen = t.seen /\ v.queue = queue /\ v.resynced = t.resynced
      /\ v.submit = t.submit /\ v.since = t.since /\ Stays(t, v)
      /\ DOMAIN v = DOMAIN t
  <2>1. /\ w.applied = t.applied /\ w.reorder = t.reorder /\ w.timer = t.timer
        /\ w.seen = t.seen /\ w.queue = t.queue /\ w.resynced = t.resynced
        /\ w.submit = t.submit /\ w.since = t.since /\ Stays(t, w)
        /\ DOMAIN w = DOMAIN t
    BY DEF Took, IsTab, Stays, Written
  <2>2. v = [w EXCEPT !.queue = Append(w.queue, op)]
    OBVIOUS
  <2> HIDE DEF w, v
  <2> QED
    BY <2>1, <2>2 DEF Took, IsTab, Stays
<1> HIDE DEF v, queue
<1>4. IsTab(v)
  BY <1>2, <1>3 DEF Took, IsTab
<1>5. Took(v, s, saved)
  <2>1. Level(v) <=> Level(t)
    BY <1>3 DEF Level
  <2>2. Sees(v, s) /\ Holds(v, s) /\ Asks(v)
    BY <1>3, <2>1 DEF Took, Sees, Holds, Asks
  <2> QED
    BY <1>3, <1>4, <2>1, <2>2 DEF Took, MayAsk
<1>6. Steers(v, u) /\ u.since = v.since
  BY <1>1, <1>4, FlushSteers
<1>7. Took(u, s, saved)
  BY <1>5, <1>6, SteersKeeps DEF Took
<1>8. Leads(t, u)
  <2>1. Len(t.seen) <= Len(t.seen)
    BY DEF Took, IsTab
  <2> QED
    BY <1>3, <1>6, <2>1 DEF Leads, Level, Steers, SameSheet, SamePlace, Stays
<1>9. Stays(t, u)
  BY <1>3, <1>6 DEF Stays, Steers, SamePlace
<1>10. u.queue = queue /\ u.resynced = t.resynced /\ Submits(t, u)
  BY <1>3, <1>6 DEF Steers, SamePlace, Submits, Settled
<1> QED
  BY <1>7, <1>8, <1>9, <1>10 DEF queue

(* Edit keeps the first part of the invariant. *)
LEMMA EditTaken ==
  ASSUME TakenInv, NEW c \in Tabs, NEW cell \in Cells, Edit(c, cell)
  PROVE  /\ TakenInv' /\ tab[c].room
         /\ tab'[c].queue = Append(tab[c].queue, [n |-> Len(made) + 1, cell |-> cell])
         /\ tab'[c].resynced = tab[c].resynced /\ Submits(tab[c], tab'[c])
         /\ tab'[c].room
<1> DEFINE t == tab[c]
           op == [n |-> Len(made) + 1, cell |-> cell]
           n == Len(made) + 1
           u == Push(Written(t, cell, n), op)
<1>1. /\ tab' = [tab EXCEPT ![c] = u] /\ t.joined /\ made' = Append(made, c)
      /\ left' = [left EXCEPT !.edits = @ - 1]
      /\ UNCHANGED <<log, members, file, inbox, slots, ground>>
  BY DEF Edit
<1>2. /\ TabFits(c, t, inbox[c], slots, log.savedSeq, c \in members)
      /\ DOMAIN tab = Tabs /\ made \in Seq(Tabs) /\ IsLeft(left)
  BY DEF TakenInv, AllFit, Typed
<1>3. t.room /\ Took(t, slots, log.savedSeq) /\ Linked(t, c \in members)
  BY <1>1, <1>2 DEF TabFits, Linked
<1>4. op \in OpSet
  BY <1>2 DEF OpSet
<1> HIDE DEF op, n
<1>5. /\ Took(u, slots, log.savedSeq) /\ Leads(t, u) /\ Stays(t, u)
      /\ u.queue = Append(t.queue, op) /\ u.resynced = t.resynced /\ Submits(t, u)
  <2>1. u = Push(Written(t, cell, n), op)
    OBVIOUS
  <2> HIDE DEF u
  <2> QED
    BY <1>3, <1>4, <2>1, PushSound
<1>6. tab'[c] = u
  BY <1>1, <1>2
<1> HIDE DEF u
<1>7. made' \in Seq(Tabs) /\ IsLeft(left') /\ left'.opens = left.opens
  BY <1>1, <1>2 DEF IsLeft
<1>8. IsTab(u) /\ Linked(u, c \in members) /\ u.open = t.open /\ u.room
  BY <1>3, <1>5, StaysLinked DEF Took, Stays
<1>9. TakenInv'
  BY <1>1, <1>5, <1>7, <1>8, TabStepTaken
<1> QED
  BY <1>3, <1>5, <1>6, <1>8, <1>9 DEF op

(* TimerFires keeps the first part of the invariant. *)
LEMMA TimerTaken ==
  ASSUME TakenInv, NEW c \in Tabs, TimerFires(c)
  PROVE  TakenInv' /\ Queues(tab[c], tab'[c]) /\ tab'[c].room = tab[c].room
<1> DEFINE t == tab[c]
           v == [t EXCEPT !.timer = FALSE]
           u == StartCatchUp(v, t.applied)
<1>1. /\ tab' = [tab EXCEPT ![c] = u] /\ t.timer
      /\ UNCHANGED <<log, members, file, inbox, left, slots, ground, made>>
  BY DEF TimerFires
<1>2. /\ TabFits(c, t, inbox[c], slots, log.savedSeq, c \in members)
      /\ DOMAIN tab = Tabs /\ made \in Seq(Tabs) /\ IsLeft(left)
  BY DEF TakenInv, AllFit, Typed
<1>3. t.room /\ Took(t, slots, log.savedSeq) /\ Linked(t, c \in members)
  BY <1>1, <1>2 DEF TabFits, Linked
<1>4. Takes(t, v) /\ Took(v, slots, log.savedSeq)
  BY <1>3, TimerSound
<1>5. v.applied = t.applied /\ v.seen = t.seen
  BY <1>3 DEF Took, IsTab
<1> HIDE DEF v
<1>6. MayAsk(v, t.applied)
  BY <1>3, <1>5, AppliedMayAsk
<1>7. Steers(v, u) /\ Took(u, slots, log.savedSeq)
  BY <1>4, <1>6, StartCatchUpSound
<1>8. tab'[c] = u
  BY <1>1, <1>2
<1> HIDE DEF u
<1>9. Moves(t, u)
  <2>1. Moves(t, v) /\ v.room /\ t.submit = v.submit
    BY <1>3, <1>4, StepMoves DEF Takes, SamePlace
  <2>2. Moves(v, u) /\ u.queue = v.queue
    BY <1>4, <1>7, <2>1, StepMoves DEF Steers, SamePlace
  <2> QED
    BY <1>3, <1>4, <1>7, <2>1, <2>2, MovesOn DEF Took
<1>10. IsTab(u) /\ Linked(u, c \in members) /\ u.open = t.open /\ u.room = t.room
       /\ Leads(t, u) /\ Queues(t, u)
  BY <1>3, <1>7, <1>9, StaysLinked DEF Took, Moves, Stays
<1>11. TakenInv'
  BY <1>1, <1>2, <1>7, <1>10, TabStepTaken
<1> QED
  BY <1>8, <1>10, <1>11

(* Reconnect keeps the first part of the invariant. *)
LEMMA ReconnectTaken ==
  ASSUME TakenInv, NEW c \in Tabs, Reconnect(c)
  PROVE  /\ TakenInv' /\ Queues(tab[c], tab'[c]) /\ tab'[c].room = tab[c].room
         /\ tab'[c].queue = tab[c].queue /\ tab'[c].submit = tab[c].submit
<1> DEFINE t == tab[c]
           call == [phase |-> "asked"]
           u == [t EXCEPT !.link = TRUE, !.join = call]
<1>1. /\ tab' = [tab EXCEPT ![c] = u] /\ t.open /\ ~t.link
      /\ UNCHANGED <<log, members, file, inbox, left, slots, ground, made>>
  BY DEF Reconnect
<1>2. /\ TabFits(c, t, inbox[c], slots, log.savedSeq, c \in members)
      /\ DOMAIN tab = Tabs /\ made \in Seq(Tabs) /\ IsLeft(left)
  BY DEF TakenInv, AllFit, Typed
<1>3. IsTab(t) /\ Linked(t, c \in members) /\ c \notin members
      /\ (t.room => Took(t, slots, log.savedSeq))
  BY <1>1, <1>2 DEF TabFits, Linked
<1>4. call.phase = "asked"
  OBVIOUS
<1> HIDE DEF call
<1>5. /\ SameSheet(t, u) /\ u.open = t.open /\ u.room = t.room /\ u.joined = t.joined
      /\ u.link = TRUE /\ u.join = call /\ u.queue = t.queue /\ u.resynced = t.resynced
      /\ u.submit = t.submit /\ u.since = t.since /\ DOMAIN u = DOMAIN t
  BY <1>3 DEF IsTab, SameSheet
<1>6. tab'[c] = u
  BY <1>1, <1>2
<1> HIDE DEF u
<1>7. IsTab(u) /\ (Level(u) <=> Level(t)) /\ Len(t.seen) <= Len(t.seen)
  BY <1>3, <1>5 DEF IsTab, SameSheet, Level
<1>8. Leads(t, u)
  BY <1>5, <1>7 DEF Leads, SameSheet
<1>9. Linked(u, c \in members)
  BY <1>1, <1>3, <1>4, <1>5 DEF Linked, SameSheet
<1>10. ASSUME u.room PROVE Took(u, slots, log.savedSeq)
  <2>1. Took(t, slots, log.savedSeq)
    BY <1>3, <1>5, <1>10
  <2>2. Sees(u, slots) /\ Holds(u, slots) /\ Asks(u)
    BY <1>5, <1>7, <2>1 DEF Took, Sees, Holds, Asks, SameSheet
  <2> QED
    BY <1>5, <1>7, <2>1, <2>2 DEF Took, MayAsk, SameSheet
<1>11. TakenInv'
  BY <1>1, <1>2, <1>3, <1>5, <1>7, <1>8, <1>9, <1>10, TabStepTaken
<1>12. Queues(t, u)
  BY <1>5 DEF Queues, Submits
<1> QED
  BY <1>5, <1>6, <1>11, <1>12

Nothing(box) == box = <<>>

(* Nothing is on its way to a tab out of the room. *)
LEMMA NothingThere ==
  ASSUME NEW c, NEW t, NEW box, NEW s, NEW saved,
         TabFits(c, t, box, s, saved, FALSE), ~t.room
  PROVE  Nothing(box)
<1>1. box \in Seq(Messages) /\ Len(box) \in Nat
  BY DEF TabFits
<1>2. ASSUME 1 \in 1..Len(box) PROVE FALSE
  BY <1>2 DEF TabFits, Fits
<1>3. Len(box) = 0
  BY <1>1, <1>2
<1>4. \A b \in Seq(Messages) : Len(b) = 0 => b = <<>>
  <2> HIDE DEF Messages
  <2> QED
    OBVIOUS
<1> QED
  BY <1>1, <1>3, <1>4 DEF Nothing

(* A tab out of the room fits any log. *)
LEMMA OutsideFits ==
  ASSUME NEW c, NEW t, NEW s, NEW saved, IsTab(t), Linked(t, FALSE), ~t.room
  PROVE  TabFits(c, t, <<>>, s, saved, FALSE)
<1>1. <<>> \in Seq(Messages) /\ 1..Len(<<>>) = {}
  OBVIOUS
<1>2. t.room \/ FALSE => Took(t, s, saved)
  OBVIOUS
<1>3. \A i \in 1..Len(<<>>) : Fits(c, t, <<>>[i], s, FALSE)
  BY <1>1, Zenon
<1> QED
  BY <1>1, <1>2, <1>3, Zenon DEF TabFits

(* So does a closed one. *)
LEMMA ClosedFits ==
  ASSUME NEW c, NEW s, NEW saved
  PROVE  IsTab(Closed) /\ Linked(Closed, FALSE) /\ ~Closed.room /\ ~Closed.open
         /\ Closed.queue = <<>> /\ Closed.submit = NoCall /\ ~Closed.resynced
         /\ TabFits(c, Closed, <<>>, s, saved, FALSE)
<1>1. /\ DOMAIN Closed = {"open", "link", "room", "joined", "join", "applied", "doc", "queue",
                          "submit", "since", "flushAfter", "awaited", "reorder", "timer",
                          "resynced", "told", "seen"}
      /\ Closed.open = FALSE /\ Closed.link = FALSE /\ Closed.room = FALSE
      /\ Closed.joined = FALSE /\ Closed.join = NoCall /\ Closed.applied = 0
      /\ Closed.queue = <<>> /\ Closed.submit = NoCall /\ Closed.since = NoCall
      /\ Closed.timer = FALSE /\ Closed.resynced = FALSE /\ Closed.seen = <<>>
  BY DEF Closed
<1>2. DOMAIN Closed.reorder = {}
  BY DEF Closed
<1>3. NoCall.phase = "idle"
  BY DEF NoCall
<1>4. <<>> \in Seq(SlotSet) /\ <<>> \in Seq(OpSet)
  OBVIOUS
<1>5. IsTab(Closed)
  BY <1>1, <1>3, <1>4 DEF IsTab
<1>6. Linked(Closed, FALSE)
  BY <1>1, <1>2, <1>3 DEF Linked
<1> QED
  BY <1>1, <1>5, <1>6, OutsideFits

(* Open keeps the first part of the invariant. *)
LEMMA OpenTaken ==
  ASSUME TakenInv, NEW c \in Tabs, Open(c)
  PROVE  /\ TakenInv' /\ ~tab'[c].room /\ ~tab[c].room
         /\ tab'[c].queue = <<>> /\ tab'[c].submit = NoCall /\ inbox[c] = <<>>
<1> DEFINE call == [phase |-> "asked"]
           u == [Closed EXCEPT !.open = TRUE, !.link = TRUE, !.doc = file, !.join = call]
<1>1. /\ c \in left.opens /\ left' = [left EXCEPT !.opens = @ \ {c}]
      /\ tab' = [tab EXCEPT ![c] = u]
      /\ UNCHANGED <<log, members, file, inbox, slots, ground, made>>
  BY DEF Open
<1>2. /\ TabFits(c, tab[c], inbox[c], slots, log.savedSeq, c \in members)
      /\ DOMAIN tab = Tabs /\ made \in Seq(Tabs) /\ IsLeft(left) /\ Typed /\ ~tab[c].open
  BY <1>1 DEF TakenInv, AllFit, Typed
<1>3. c \notin members /\ ~tab[c].room
  BY <1>2 DEF TabFits, Linked
<1>4. inbox[c] = <<>>
  <2>1. (c \in members) = FALSE
    BY <1>3
  <2>2. TabFits(c, tab[c], inbox[c], slots, log.savedSeq, FALSE)
    BY <1>2, <2>1
  <2> QED
    BY <1>3, <2>2, NothingThere DEF Nothing
<1>5. call.phase = "asked"
  OBVIOUS
<1> HIDE DEF call
<1>6. IsTab(Closed) /\ Linked(Closed, FALSE) /\ ~Closed.room
      /\ Closed.queue = <<>> /\ Closed.submit = NoCall /\ ~Closed.resynced
  BY ClosedFits
<1>7. /\ SameSheet([Closed EXCEPT !.doc = file], u) /\ u.open = TRUE /\ u.link = TRUE
      /\ u.room = Closed.room /\ u.joined = Closed.joined /\ u.join = call
      /\ u.applied = Closed.applied /\ u.reorder = Closed.reorder
      /\ u.timer = Closed.timer /\ u.seen = Closed.seen
      /\ u.queue = Closed.queue /\ u.resynced = Closed.resynced
      /\ u.submit = Closed.submit /\ u.since = Closed.since /\ DOMAIN u = DOMAIN Closed
  BY <1>6 DEF IsTab, SameSheet
<1>8. tab'[c] = u /\ DOMAIN tab' = Tabs /\ \A d \in Tabs : d # c => tab'[d] = tab[d]
  BY <1>1, <1>2
<1> HIDE DEF u
<1>9. IsTab(u) /\ Linked(u, FALSE) /\ ~u.room
  BY <1>5, <1>6, <1>7 DEF IsTab, Linked
<1>10. TabFits(c, u, inbox[c], slots, log.savedSeq, c \in members)
  <2>1. TabFits(c, u, <<>>, slots, log.savedSeq, FALSE)
    BY <1>9, OutsideFits
  <2>2. (c \in members) = FALSE
    BY <1>3
  <2> QED
    BY <1>4, <2>1, <2>2
<1>11. Typed'
  <2>1. IsLeft(left') /\ left'.opens = left.opens \ {c}
    BY <1>1, <1>2 DEF IsLeft
  <2>2. \A d \in Tabs : d \in left'.opens => ~tab'[d].open
    BY <1>2, <1>8, <2>1 DEF Typed
  <2> QED
    BY <1>1, <1>2, <1>8, <2>1, <2>2 DEF Typed
<1>12. TakenInv'
  BY <1>1, <1>8, <1>10, <1>11, OneTabStep
<1> QED
  BY <1>3, <1>4, <1>6, <1>7, <1>8, <1>9, <1>12

(* A call of c is answered: its record changes and a message is sent to it. *)
LEMMA ReplyTaken ==
  ASSUME TakenInv, NEW c \in Tabs, NEW u, tab' = [tab EXCEPT ![c] = u],
         NEW m, Reply(c, m), UNCHANGED <<log, slots, left, made>>,
         members' = members \/ members' = members \cup {c}, u.open = tab[c].open,
         TabFits(c, u, inbox[c], slots, log.savedSeq, c \in members'),
         Fits(c, u, m, slots, c \in members')
  PROVE  TakenInv' /\ tab'[c] = u /\ inbox'[c] = Append(inbox[c], m)
<1>1. DOMAIN tab = Tabs /\ DOMAIN inbox = Tabs /\ Typed
  BY DEF TakenInv, Typed
<1>2. /\ tab'[c] = u /\ inbox'[c] = Append(inbox[c], m)
      /\ DOMAIN tab' = Tabs /\ DOMAIN inbox' = Tabs
      /\ \A d \in Tabs : d # c => tab'[d] = tab[d] /\ inbox'[d] = inbox[d]
  BY <1>1 DEF Reply
<1>3. TabFits(c, u, Append(inbox[c], m), slots, log.savedSeq, c \in members')
  BY BoxAppend
<1>4. Typed'
  <2>1. \A d \in Tabs : tab'[d].open = tab[d].open
    BY <1>2
  <2> QED
    BY <1>1, <1>2, <2>1 DEF Typed
<1>5. TakenInv'
  BY <1>2, <1>3, <1>4, OneTabStep
<1> QED
  BY <1>2, <1>5

(* Until its first join is through a tab shows the stored file, where that does not
   change meanwhile. *)
OpensFile == \A c \in Tabs : Opening(c) => tab[c].doc = file

(* HubJoin keeps the first part of the invariant. *)
LEMMA JoinTaken ==
  ASSUME TakenInv, OpensFile, NEW c \in Tabs, HubJoin(c)
  PROVE  /\ TakenInv' /\ tab'[c].room = tab[c].room /\ tab'[c].queue = tab[c].queue
         /\ tab'[c].submit = tab[c].submit /\ tab'[c].resynced = tab[c].resynced
         /\ inbox'[c] = Append(inbox[c], [kind |-> "joined", savedSeq |-> log.savedSeq])
         /\ \A d \in Tabs : d # c => tab'[d] = tab[d] /\ inbox'[d] = inbox[d]
<1> DEFINE t == tab[c]
           call == [phase |-> "answered"]
           seen == TakenInBy(t)
           u == [t EXCEPT !.join = call, !.seen = seen]
           m == [kind |-> "joined", savedSeq |-> log.savedSeq]
<1>1. /\ t.join.phase = "asked" /\ members' = members \cup {c} /\ tab' = [tab EXCEPT ![c] = u]
      /\ Reply(c, m) /\ UNCHANGED <<log, file, left, slots, ground, made>>
  BY DEF HubJoin
<1>2. /\ TabFits(c, t, inbox[c], slots, log.savedSeq, c \in members)
      /\ DOMAIN tab = Tabs /\ DOMAIN inbox = Tabs /\ LogFits(log, slots)
  BY DEF TakenInv, AllFit, Typed
<1>3. c \notin members /\ IsTab(t) /\ Linked(t, c \in members)
  BY <1>1, <1>2 DEF TabFits, Linked
<1>4. call.phase = "answered" /\ m.kind = "joined" /\ m.savedSeq = log.savedSeq
  OBVIOUS
<1>5. slots \in Seq(SlotSet) /\ log.savedSeq \in 0..Len(slots)
  BY <1>2 DEF LogFits
<1>6. m \in Messages
  BY <1>5 DEF Messages
<1>7. /\ seen \in Seq(SlotSet)
      /\ ~t.room => /\ Len(seen) = log.savedSeq
                    /\ \A i \in 1..Len(seen) : seen[i] = slots[i]
  <2>1. CASE t.room
    BY <1>3, <2>1 DEF IsTab, TakenInBy
  <2>2. CASE ~t.room
    <3>1. t.open
      BY <1>1, <1>3 DEF Linked
    <3>2. t.doc = file
      BY <2>2, <3>1 DEF OpensFile, Opening
    <3>3. seen = SubSeq(slots, 1, log.savedSeq)
      BY <2>2, <3>2 DEF TakenInBy
    <3> QED
      BY <1>5, <2>2, <3>3
  <2> QED
    BY <2>1, <2>2
<1> HIDE DEF call, seen, m
<1>8. /\ u.open = t.open /\ u.link = t.link /\ u.room = t.room /\ u.joined = t.joined
      /\ u.join = call /\ u.applied = t.applied /\ u.reorder = t.reorder
      /\ u.timer = t.timer /\ u.seen = seen /\ u.queue = t.queue
      /\ u.resynced = t.resynced /\ u.submit = t.submit /\ u.since = t.since
      /\ DOMAIN u = DOMAIN t
  BY <1>3 DEF IsTab
<1> HIDE DEF u
<1>9. IsTab(u) /\ Linked(u, TRUE)
  BY <1>1, <1>3, <1>4, <1>7, <1>8 DEF IsTab, Linked
<1>10. Took(u, slots, log.savedSeq) /\ (t.room => Leads(t, u))
  <2>1. CASE t.room
    <3>1. Took(t, slots, log.savedSeq) /\ u.seen = t.seen /\ Len(t.seen) <= Len(t.seen)
      BY <1>2, <1>8, <2>1 DEF TabFits, seen, IsTab, TakenInBy
    <3>2. Level(u) <=> Level(t)
      BY <1>8, <3>1 DEF Level
    <3>3. Sees(u, slots) /\ Holds(u, slots) /\ Asks(u)
      BY <1>8, <3>1, <3>2 DEF Took, Sees, Holds, Asks
    <3> QED
      BY <1>8, <1>9, <3>1, <3>2, <3>3 DEF Took, MayAsk, Leads
  <2>2. CASE ~t.room
    <3>1. /\ u.applied = 0 /\ DOMAIN u.reorder = {} /\ u.since.phase = "idle"
          /\ u.submit.phase = "idle"
      BY <1>3, <1>8, <2>2 DEF Linked
    <3>2. Sees(u, slots) /\ Holds(u, slots) /\ Asks(u)
      BY <1>5, <1>7, <1>8, <2>2, <3>1 DEF Sees, Holds, Asks
    <3>3. Len(u.seen) <= log.savedSeq
      BY <1>5, <1>7, <1>8, <2>2
    <3> QED
      BY <1>9, <2>2, <3>1, <3>2, <3>3 DEF Took
  <2> QED
    BY <2>1, <2>2
<1>11. TabFits(c, u, inbox[c], slots, log.savedSeq, TRUE)
  <2>1. CASE t.room
    <3>1. \A i \in 1..Len(inbox[c]) : Fits(c, t, inbox[c][i], slots, c \in members)
      BY <1>2 DEF TabFits
    <3>2. \A i \in 1..Len(inbox[c]) : Fits(c, t, inbox[c][i], slots, TRUE)
      BY <1>3, <3>1 DEF Fits
    <3>3. \A i \in 1..Len(inbox[c]) : Fits(c, u, inbox[c][i], slots, TRUE)
      BY <1>3, <1>9, <1>10, <2>1, <3>2, StillFits
    <3>4. inbox[c] \in Seq(Messages)
      BY <1>2 DEF TabFits
    <3> QED
      BY <1>9, <1>10, <3>3, <3>4 DEF TabFits
  <2>2. CASE ~t.room
    <3>1. inbox[c] = <<>>
      <4>1. (c \in members) = FALSE
        BY <1>3
      <4>2. TabFits(c, tab[c], inbox[c], slots, log.savedSeq, FALSE)
        BY <1>2, <4>1
      <4> QED
        BY <2>2, <4>2, NothingThere DEF Nothing
    <3>2. <<>> \in Seq(Messages) /\ 1..Len(<<>>) = {}
      OBVIOUS
    <3>3. inbox[c] \in Seq(Messages) /\ 1..Len(inbox[c]) = {}
      BY <3>1, <3>2, Zenon
    <3> QED
      BY <1>9, <1>10, <3>3 DEF TabFits
  <2> QED
    BY <2>1, <2>2
<1>12. Fits(c, u, m, slots, TRUE)
  BY <1>4, <1>6, <1>7, <1>8 DEF Fits
<1>13. (c \in members') = TRUE
  BY <1>1
<1>14. TabFits(c, u, inbox[c], slots, log.savedSeq, c \in members') /\ Fits(c, u, m, slots, c \in members')
  BY <1>11, <1>12, <1>13
<1>15. TakenInv' /\ tab'[c] = u /\ inbox'[c] = Append(inbox[c], m)
  <2>1. u.open = tab[c].open /\ (members' = members \/ members' = members \cup {c})
        /\ UNCHANGED <<log, slots, left, made>>
    BY <1>1, <1>8
  <2> QED
    BY <1>1, <1>14, <2>1, ReplyTaken
<1>16. \A d \in Tabs : d # c => tab'[d] = tab[d] /\ inbox'[d] = inbox[d]
  BY <1>1, <1>2 DEF Reply
<1> QED
  BY <1>8, <1>15, <1>16 DEF m

(* A tab that changed nothing it took in is as it was to the log. *)
LEMMA SameTook ==
  ASSUME NEW t, NEW u, NEW s, NEW saved, Took(t, s, saved), IsTab(u), SameSheet(t, u),
         u.since = t.since, u.submit = t.submit \/ u.submit.phase # "asked"
  PROVE  Took(u, s, saved)
<1>1. Level(u) <=> Level(t)
  BY DEF SameSheet, Level
<1>2. Sees(u, s) /\ Holds(u, s) /\ Asks(u)
  BY <1>1 DEF Took, Sees, Holds, Asks, SameSheet
<1> QED
  BY <1>1, <1>2 DEF Took, MayAsk, SameSheet

(* A submission that the hub has answered. *)
Submitted(t, u) ==
  /\ IsTab(u) /\ SameSheet(t, u) /\ SamePlace(t, u) /\ u.since = t.since
  /\ u.submit.phase = "answered" /\ u.submit.op = t.submit.op

(* A call that is answered changes nothing else of the tab. *)
LEMMA AnsweredTab ==
  ASSUME TakenInv, NEW c \in Tabs, tab[c].submit.phase \in {"asked", "lost"}, Answered(c)
  PROVE  /\ Submitted(tab[c], tab'[c]) /\ DOMAIN tab' = Tabs /\ tab[c].submit.op \in OpSet
         /\ \A d \in Tabs : d # c => tab'[d] = tab[d]
         /\ tab[c].room /\ Took(tab[c], slots, log.savedSeq)
<1> DEFINE t == tab[c]
           call == [t.submit EXCEPT !.phase = "answered"]
           u == [t EXCEPT !.submit = call]
<1>1. tab' = [tab EXCEPT ![c] = u] /\ DOMAIN tab = Tabs
  BY DEF Answered, TakenInv, Typed
<1>2. TabFits(c, t, inbox[c], slots, log.savedSeq, c \in members) /\ IsTab(t)
  BY DEF TakenInv, AllFit, TabFits
<1>3. t.room /\ Took(t, slots, log.savedSeq)
  BY <1>2 DEF TabFits, Linked
<1>4. t.submit \in CallSet
  BY <1>2 DEF IsTab
<1>5. call \in CallSet /\ call.phase = "answered" /\ call.op = t.submit.op /\ t.submit.op \in OpSet
  BY <1>4 DEF CallSet
<1>6. tab'[c] = u /\ DOMAIN tab' = Tabs /\ \A d \in Tabs : d # c => tab'[d] = tab[d]
  BY <1>1
<1> HIDE DEF call
<1>7. /\ SameSheet(t, u) /\ SamePlace(t, u) /\ u.since = t.since /\ u.submit = call
      /\ DOMAIN u = DOMAIN t
  BY <1>2 DEF IsTab, SameSheet, SamePlace
<1> HIDE DEF u
<1>8. IsTab(u)
  BY <1>2, <1>5, <1>7 DEF IsTab, SameSheet, SamePlace
<1> QED
  BY <1>3, <1>5, <1>6, <1>7, <1>8 DEF Submitted

(* A tab whose submission is answered is as it was to the log. *)
LEMMA SubmittedFits ==
  ASSUME NEW c, NEW t, NEW u, NEW box, NEW s, NEW saved, NEW member,
         TabFits(c, t, box, s, saved, member), Submitted(t, u), t.room
  PROVE  TabFits(c, u, box, s, saved, member)
<1>1. Took(t, s, saved) /\ Linked(t, member) /\ IsTab(t)
  BY DEF TabFits
<1>2. Took(u, s, saved) /\ IsTab(u)
  <2>1. u.submit.phase # "asked"
    BY DEF Submitted
  <2> QED
    BY <1>1, <2>1, SameTook DEF Submitted
<1>3. Stays(t, u) /\ SameSheet(t, u)
  BY DEF Submitted, SamePlace, Stays
<1>4. Linked(u, member) /\ Leads(t, u)
  BY <1>1, <1>3, StaysLinked, SettledLeads
<1> QED
  BY <1>2, <1>4, TabMoves

(* HubAccepts keeps the first part of the invariant. *)
LEMMA AcceptsTaken ==
  ASSUME TakenInv, NEW c \in Tabs, HubAccepts(c)
  PROVE  /\ TakenInv' /\ Submitted(tab[c], tab'[c]) /\ tab[c].submit.op \in OpSet
         /\ tab[c].submit.phase = "asked" /\ tab[c].room
         /\ slots' = Append(slots, Entry(Len(slots) + 1, c, tab[c].submit.op))
         /\ inbox'[c] = Append(inbox[c],
              [kind |-> "accepted", entry |-> Entry(Len(slots) + 1, c, tab[c].submit.op)])
         /\ \A d \in Tabs : d # c =>
              /\ tab'[d] = tab[d]
              /\ \/ inbox'[d] = inbox[d]
                 \/ \E e \in EntrySet : inbox'[d] = Append(inbox[d], [kind |-> "op", entry |-> e])
<1> DEFINE t == tab[c]
           op == t.submit.op
           e == Entry(log.seq + 1, c, op)
           r == Append(slots, e)
           news == [kind |-> "op", entry |-> e]
           m == [kind |-> "accepted", entry |-> e]
<1>1. /\ t.submit.phase = "asked" /\ c \in members /\ log' = AppendOp(log, c, op)
      /\ slots' = r /\ ReplyAndPush(c, m, news) /\ Answered(c)
      /\ UNCHANGED <<members, file, left, ground, made>>
  BY DEF HubAccepts
<1>2. /\ LogFits(log, slots) /\ Typed /\ DOMAIN inbox = Tabs
      /\ \A d \in Tabs : TabFits(d, tab[d], inbox[d], slots, log.savedSeq, d \in members)
  BY DEF TakenInv, AllFit, Typed
<1>3. /\ Submitted(t, tab'[c]) /\ DOMAIN tab' = Tabs /\ op \in OpSet
      /\ \A d \in Tabs : d # c => tab'[d] = tab[d]
      /\ t.room /\ Took(t, slots, log.savedSeq)
  BY <1>1, AnsweredTab
<1>4. /\ slots \in Seq(SlotSet) /\ log.seq = Len(slots) /\ Len(slots) \in Nat
      /\ log.savedSeq \in Nat
  BY <1>2 DEF LogFits
<1>5. e \in EntrySet /\ LogFits(log', r)
  BY <1>1, <1>2, <1>3, AppendFits
<1>6. e.seq = Len(slots) + 1 /\ e.client = c /\ log'.savedSeq = log.savedSeq
  BY <1>1, <1>4 DEF Entry, AppendOp
<1> HIDE DEF e
<1>7. /\ r \in Seq(SlotSet) /\ Len(r) = Len(slots) + 1 /\ r[Len(slots) + 1] = e
      /\ \A i \in 1..Len(slots) : r[i] = slots[i]
  <2>1. e \in SlotSet
    BY <1>5 DEF SlotSet
  <2> QED
    BY <1>4, <2>1
<1> HIDE DEF r
<1>8. Longer(slots, r)
  BY <1>4, <1>7 DEF Longer
<1>9. ASSUME NEW d \in Tabs
      PROVE  TabFits(d, tab[d], inbox[d], r, log'.savedSeq, d \in members)
  <2>1. TabFits(d, tab[d], inbox[d], slots, log.savedSeq, d \in members)
    BY <1>2
  <2>2. log.savedSeq <= log.savedSeq
    BY <1>4
  <2>3. TabFits(d, tab[d], inbox[d], r, log.savedSeq, d \in members)
    BY <1>4, <1>7, <1>8, <2>1, <2>2, Outlives
  <2> QED
    BY <1>6, <2>3
<1>10. ASSUME NEW d \in Tabs, d \in members \/ tab[d].room
       PROVE  Suits(tab[d], e, r)
  <2>1. Took(tab[d], slots, log.savedSeq)
    BY <1>2, <1>10 DEF TabFits
  <2>2. Len(tab[d].seen) <= Len(slots) /\ Len(tab[d].seen) \in Nat
    BY <2>1 DEF Took, Sees, IsTab
  <2> QED
    BY <1>4, <1>5, <1>6, <1>7, <2>2 DEF Suits
<1>11. news \in Messages /\ news.kind = "op" /\ news.entry = e
       /\ m \in Messages /\ m.kind = "accepted" /\ m.entry = e
  BY <1>5 DEF Messages
<1> HIDE DEF news, m
<1>12. ASSUME NEW d \in Tabs, d # c
       PROVE  TabFits(d, tab'[d], inbox'[d], r, log'.savedSeq, d \in members')
  <2>1. inbox'[d] = IF d \in members THEN Append(inbox[d], news) ELSE inbox[d]
    BY <1>1, <1>12 DEF ReplyAndPush
  <2>2. tab'[d] = tab[d] /\ members' = members
    BY <1>1, <1>3, <1>12
  <2>3. CASE d \notin members
    BY <1>9, <2>1, <2>2, <2>3
  <2>4. CASE d \in members
    <3>1. Suits(tab[d], e, r)
      BY <1>10, <2>4
    <3>2. Fits(d, tab[d], news, r, d \in members)
      BY <1>11, <2>4, <3>1 DEF Fits
    <3>3. TabFits(d, tab[d], Append(inbox[d], news), r, log'.savedSeq, d \in members)
      BY <1>9, <3>2, BoxAppend
    <3> QED
      BY <2>1, <2>2, <2>4, <3>3
  <2> QED
    BY <2>3, <2>4
<1>13. inbox'[c] = Append(inbox[c], m)
  BY <1>1 DEF ReplyAndPush
<1>14. TabFits(c, tab'[c], inbox'[c], r, log'.savedSeq, c \in members')
  <2>1. Suits(t, e, r)
    BY <1>3, <1>10
  <2>2. Fits(c, t, m, r, c \in members)
    BY <1>1, <1>3, <1>6, <1>11, <2>1 DEF Fits
  <2>3. TabFits(c, t, Append(inbox[c], m), r, log'.savedSeq, c \in members)
    BY <1>9, <2>2, BoxAppend
  <2>4. TabFits(c, tab'[c], Append(inbox[c], m), r, log'.savedSeq, c \in members)
    BY <1>3, <2>3, SubmittedFits
  <2> QED
    BY <1>1, <1>13, <2>4
<1>15. AllFit'
  BY <1>1, <1>12, <1>14 DEF AllFit
<1>16. Typed'
  <2>1. DOMAIN inbox' = Tabs
    BY <1>1 DEF ReplyAndPush
  <2>2. \A d \in Tabs : tab'[d].open = tab[d].open
    BY <1>3 DEF Submitted, SamePlace
  <2> QED
    BY <1>1, <1>2, <1>3, <2>1, <2>2 DEF Typed
<1>17. TakenInv'
  BY <1>1, <1>5, <1>15, <1>16 DEF TakenInv
<1>18. \A d \in Tabs : d # c =>
         \/ inbox'[d] = inbox[d]
         \/ \E x \in EntrySet : inbox'[d] = Append(inbox[d], [kind |-> "op", entry |-> x])
  BY <1>1, <1>5 DEF ReplyAndPush, news
<1> QED
  BY <1>1, <1>3, <1>4, <1>13, <1>17, <1>18 DEF e, r, m

(* HubRefuses keeps the first part of the invariant. *)
LEMMA RefusesTaken ==
  ASSUME TakenInv, NEW c \in Tabs, HubRefuses(c)
  PROVE  /\ TakenInv' /\ Submitted(tab[c], tab'[c])
         /\ tab[c].submit.phase \in {"asked", "lost"} /\ tab[c].room
         /\ \E k \in {"refused", "stale"} : inbox'[c] = Append(inbox[c], [kind |-> k])
         /\ \A d \in Tabs : d # c => tab'[d] = tab[d] /\ inbox'[d] = inbox[d]
<1> DEFINE t == tab[c]
           k == IF t.submit.phase = "lost" \/ c \notin members THEN "refused" ELSE "stale"
           m == [kind |-> k]
<1>1. /\ t.submit.phase \in {"asked", "lost"} /\ Reply(c, m) /\ Answered(c)
      /\ UNCHANGED <<log, members, file, left, slots, ground, made>>
  BY DEF HubRefuses
<1>2. /\ Submitted(t, tab'[c]) /\ DOMAIN tab' = Tabs
      /\ \A d \in Tabs : d # c => tab'[d] = tab[d]
      /\ t.room /\ Took(t, slots, log.savedSeq)
  BY <1>1, AnsweredTab
<1>3. /\ TabFits(c, t, inbox[c], slots, log.savedSeq, c \in members)
      /\ Typed /\ DOMAIN inbox = Tabs
  BY DEF TakenInv, AllFit, Typed
<1>4. k \in {"refused", "stale"}
  OBVIOUS
<1> HIDE DEF k
<1>5. m \in Messages /\ m.kind = k
  BY <1>4 DEF Messages
<1>6. inbox'[c] = Append(inbox[c], m) /\ DOMAIN inbox' = Tabs
      /\ \A d \in Tabs : d # c => inbox'[d] = inbox[d]
  BY <1>1, <1>3 DEF Reply
<1> HIDE DEF m
<1>7. Fits(c, t, m, slots, c \in members)
  BY <1>2, <1>4, <1>5 DEF Fits
<1>8. TabFits(c, t, Append(inbox[c], m), slots, log.savedSeq, c \in members)
  BY <1>3, <1>7, BoxAppend
<1>9. TabFits(c, tab'[c], Append(inbox[c], m), slots, log.savedSeq, c \in members)
  BY <1>2, <1>8, SubmittedFits
<1>10. Typed'
  <2>1. \A d \in Tabs : tab'[d].open = tab[d].open
    BY <1>2 DEF Submitted, SamePlace
  <2> QED
    BY <1>1, <1>2, <1>3, <1>6, <2>1 DEF Typed
<1>11. TakenInv'
  BY <1>1, <1>2, <1>6, <1>9, <1>10, OneTabStep
<1> QED
  BY <1>1, <1>2, <1>4, <1>6, <1>11 DEF m

(* HubSince: what the log answers is what followed the position asked about. *)
LEMMA SinceFitsTab ==
  ASSUME NEW t, NEW l, NEW s, LogFits(l, s), Took(t, s, l.savedSeq),
         t.since.phase = "asked"
  PROVE  Answer(t, Since(l, t.since.from), s)
         /\ Since(l, t.since.from) \in [ops : Seq(EntrySet), head : Nat, reset : BOOLEAN]
<1> DEFINE from == t.since.from
           a == Since(l, from)
           p == Len(t.seen)
<1>1. /\ from \in 0..p /\ (Level(t) \/ from \in {0, p}) /\ p \in Nat /\ p <= Len(s)
      /\ Level(t) \/ (t.applied = 0 /\ p <= l.savedSeq)
  BY DEF Took, MayAsk, Sees, IsTab
<1>2. s \in Seq(SlotSet) /\ Len(s) \in Nat /\ l.savedSeq \in Nat
  BY DEF LogFits
<1>3. Level(t) <=> t.applied = p
  BY DEF Level
<1> HIDE DEF p
<1>4. from \in 0..Len(s)
  BY <1>1, <1>2
<1> HIDE DEF from
<1>5. \/ a = [ops |-> <<>>, head |-> Len(s), reset |-> TRUE]
      \/ /\ a = [ops |-> a.ops, head |-> Len(s), reset |-> FALSE]
         /\ Follows(s, from, a.ops)
         /\ from = Len(s) \/ from >= l.savedSeq
  BY <1>4, SinceFits
<1> HIDE DEF a
<1>6. CASE a = [ops |-> <<>>, head |-> Len(s), reset |-> TRUE]
  <2>1. a.reset = TRUE
    BY <1>6
  <2>2. Answer(t, a, s)
    BY <2>1 DEF Answer
  <2>3. a \in [ops : Seq(EntrySet), head : Nat, reset : BOOLEAN]
    BY <1>2, <1>6
  <2> QED
    BY <2>2, <2>3 DEF a, from
<1>7. CASE /\ a = [ops |-> a.ops, head |-> Len(s), reset |-> FALSE]
           /\ Follows(s, from, a.ops)
           /\ from = Len(s) \/ from >= l.savedSeq
  <2>1. a.head = Len(s) /\ a.reset = FALSE
    BY <1>7
  <2>2. a.ops \in Seq(EntrySet) /\ Len(a.ops) = Len(s) - from
        /\ \A i \in 1..(Len(s) - from) : a.ops[i] = s[from + i]
    BY <1>7 DEF Follows
  <2>3. Level(t) \/ from = p
    BY <1>1, <1>2, <1>3, <1>7
  <2>4. Len(s) \in from..Len(s)
    BY <1>2, <1>4
  <2>5. AnswerFrom(t, a, from, s)
    BY <2>1, <2>2, <2>3, <2>4 DEF AnswerFrom, p
  <2>6. Answer(t, a, s)
    BY <1>1, <2>5 DEF Answer, p
  <2>7. a \in [ops : Seq(EntrySet), head : Nat, reset : BOOLEAN]
    <3>1. \A ops \in Seq(EntrySet), h \in Nat, b \in BOOLEAN :
            [ops |-> ops, head |-> h, reset |-> b]
              \in [ops : Seq(EntrySet), head : Nat, reset : BOOLEAN]
      OBVIOUS
    <3>2. [ops |-> a.ops, head |-> Len(s), reset |-> FALSE]
            \in [ops : Seq(EntrySet), head : Nat, reset : BOOLEAN]
      BY <1>2, <2>2, <3>1
    <3> QED
      BY <1>7, <3>2, Zenon
  <2> QED
    BY <2>6, <2>7 DEF a, from
<1> QED
  BY <1>5, <1>6, <1>7

(* HubSince keeps the first part of the invariant. *)
LEMMA SinceTaken ==
  ASSUME TakenInv, NEW c \in Tabs, HubSince(c)
  PROVE  /\ TakenInv' /\ Queues(tab[c], tab'[c]) /\ tab'[c].room /\ tab[c].room
         /\ tab'[c].queue = tab[c].queue /\ tab'[c].submit = tab[c].submit
         /\ \E m \in Messages : /\ inbox'[c] = Append(inbox[c], m)
                                /\ m.kind \in {"since", "failed"}
         /\ \A d \in Tabs : d # c => tab'[d] = tab[d] /\ inbox'[d] = inbox[d]
<1> DEFINE t == tab[c]
           call == [phase |-> "answered"]
           u == [t EXCEPT !.since = call]
           told == t.since.phase = "asked" /\ c \in members
           m == IF told THEN [kind |-> "since", answer |-> Since(log, t.since.from)]
                ELSE [kind |-> "failed"]
<1>1. /\ t.since.phase \in {"asked", "lost"} /\ Reply(c, m) /\ tab' = [tab EXCEPT ![c] = u]
      /\ UNCHANGED <<log, members, file, left, slots, ground, made>>
  BY DEF HubSince
<1>2. /\ TabFits(c, t, inbox[c], slots, log.savedSeq, c \in members)
      /\ LogFits(log, slots) /\ DOMAIN inbox = Tabs /\ DOMAIN tab = Tabs
  BY DEF TakenInv, AllFit, Typed
<1>3. t.room /\ Took(t, slots, log.savedSeq) /\ IsTab(t)
  BY <1>1, <1>2 DEF TabFits, Linked
<1>4. call.phase = "answered"
  OBVIOUS
<1> HIDE DEF call
<1>5. /\ SameSheet(t, u) /\ SamePlace(t, u) /\ u.submit = t.submit /\ u.since = call
      /\ DOMAIN u = DOMAIN t
  BY <1>3 DEF IsTab, SameSheet, SamePlace
<1> HIDE DEF u
<1>6. IsTab(u)
  BY <1>3, <1>5 DEF IsTab, SameSheet, SamePlace
<1>7. Steers(t, u)
  BY <1>5, <1>6 DEF Steers, Submits
<1>8. Took(u, slots, log.savedSeq)
  BY <1>3, <1>4, <1>5, <1>7, SteersKeeps
<1>9. Moves(t, u)
  BY <1>3, <1>7, StepMoves
<1>10. m \in Messages /\ m.kind \in {"since", "failed"}
       /\ (m.kind = "since" => Answer(t, m.answer, slots))
  <2>1. CASE told
    <3>1. /\ Answer(t, Since(log, t.since.from), slots)
          /\ Since(log, t.since.from) \in [ops : Seq(EntrySet), head : Nat, reset : BOOLEAN]
      BY <1>2, <1>3, <2>1, SinceFitsTab
    <3> DEFINE a == Since(log, t.since.from)
    <3>2. m = [kind |-> "since", answer |-> a]
      BY <2>1
    <3> HIDE DEF a, m
    <3>3. m \in Messages /\ m.kind = "since" /\ m.answer = a
      BY <3>1, <3>2 DEF Messages, a
    <3> QED
      BY <3>1, <3>3 DEF a
  <2>2. CASE ~told
    BY <2>2 DEF Messages
  <2> QED
    BY <2>1, <2>2
<1> HIDE DEF m
<1>11. Fits(c, t, m, slots, c \in members)
  BY <1>3, <1>10 DEF Fits
<1>12. Fits(c, u, m, slots, c \in members) /\ Linked(u, c \in members)
  BY <1>2, <1>3, <1>6, <1>9, <1>11, StillFits, StaysLinked DEF TabFits, Moves
<1>13. TabFits(c, u, inbox[c], slots, log.savedSeq, c \in members)
  BY <1>2, <1>6, <1>8, <1>9, <1>12, TabMoves DEF Moves
<1>14. TakenInv' /\ tab'[c] = u /\ inbox'[c] = Append(inbox[c], m)
  <2>1. members' = members /\ u.open = t.open /\ UNCHANGED <<log, slots, left, made>>
    BY <1>1, <1>5 DEF SamePlace
  <2>2. /\ TabFits(c, u, inbox[c], slots, log.savedSeq, c \in members')
        /\ Fits(c, u, m, slots, c \in members')
    BY <1>12, <1>13, <2>1
  <2> QED
    BY <1>1, <2>1, <2>2, ReplyTaken
<1>15. \A d \in Tabs : d # c => tab'[d] = tab[d] /\ inbox'[d] = inbox[d]
  BY <1>1, <1>2 DEF Reply
<1> QED
  BY <1>3, <1>5, <1>9, <1>10, <1>14, <1>15 DEF Moves, SamePlace

-----------------------------------------------------------------------------
(***************************************************************************)
(* What arrives of an inbox whose connection is gone: the answers already  *)
(* given, each as often as it was there.                                   *)
(***************************************************************************)
IsAnswer(m) == ~(IsEvent(m) \/ m.kind = "joined")

OneReply(box) ==
  \A i, j \in 1..Len(box) : box[i].kind \in Reply2 /\ box[j].kind \in Reply2 => i = j

Sifts(r, box, k) ==
  /\ r \in Seq(Messages)
  /\ \A j \in 1..Len(r) : IsAnswer(r[j]) /\ \E i \in 1..k : box[i] = r[j]
  /\ \A i \in 1..k : IsAnswer(box[i]) => \E j \in 1..Len(r) : r[j] = box[i]
  /\ OneReply(box) => OneReply(r)

(* One more message is sifted. *)
LEMMA SiftNext ==
  ASSUME NEW box \in Seq(Messages), NEW k \in 0..(Len(box) - 1), NEW r, Sifts(r, box, k)
  PROVE  Sifts(KeepAnswer(r, box[k + 1]), box, k + 1)
<1> DEFINE m == box[k + 1]
<1>1. m \in Messages /\ r \in Seq(Messages) /\ k + 1 \in 1..(k + 1) /\ k + 1 \in 1..Len(box)
      /\ Len(r) \in Nat /\ Len(box) \in Nat /\ k \in Nat
  <2>1. \A b \in Seq(Messages) : \A i \in 1..Len(b) : b[i] \in Messages
    <3> HIDE DEF Messages
    <3> QED
      OBVIOUS
  <2>2. k + 1 \in 1..Len(box)
    OBVIOUS
  <2> QED
    BY <2>1, <2>2 DEF Sifts
<1>2. \A i \in 1..(k + 1) : i \in 1..k \/ i = k + 1
  BY <1>1
<1>3. 1..k \subseteq 1..(k + 1)
  BY <1>1
<1>4. CASE ~IsAnswer(m)
  <2>1. KeepAnswer(r, m) = r
    BY <1>4 DEF KeepAnswer, IsAnswer
  <2>2. \A j \in 1..Len(r) : IsAnswer(r[j]) /\ \E i \in 1..(k + 1) : box[i] = r[j]
    BY <1>3 DEF Sifts
  <2>3. \A i \in 1..(k + 1) : IsAnswer(box[i]) => \E j \in 1..Len(r) : r[j] = box[i]
    BY <1>2, <1>4 DEF Sifts
  <2> QED
    BY <1>1, <2>1, <2>2, <2>3 DEF Sifts
<1>5. CASE IsAnswer(m)
  <2> DEFINE q == Append(r, m)
  <2>1. KeepAnswer(r, m) = q
    BY <1>5 DEF KeepAnswer, IsAnswer
  <2>2. /\ q \in Seq(Messages) /\ Len(q) = Len(r) + 1 /\ q[Len(r) + 1] = m
        /\ \A j \in 1..Len(r) : q[j] = r[j]
    <3>1. \A b \in Seq(Messages), x \in Messages :
            /\ Append(b, x) \in Seq(Messages) /\ Len(Append(b, x)) = Len(b) + 1
            /\ Append(b, x)[Len(b) + 1] = x
            /\ \A j \in 1..Len(b) : Append(b, x)[j] = b[j]
      <4> HIDE DEF Messages
      <4> QED
        OBVIOUS
    <3> QED
      BY <1>1, <3>1
  <2> HIDE DEF q
  <2> DEFINE n == Len(r)
  <2>3. \A j \in 1..(n + 1) : j \in 1..n \/ j = n + 1
    BY <1>1
  <2>4. 1..n \subseteq 1..(n + 1) /\ n + 1 \in 1..(n + 1) /\ Len(q) = n + 1
    BY <1>1, <2>2
  <2> HIDE DEF m
  <2>5. ASSUME NEW j \in 1..Len(q)
        PROVE  IsAnswer(q[j]) /\ \E i \in 1..(k + 1) : box[i] = q[j]
    <3>1. CASE j \in 1..n
      BY <1>3, <2>2, <3>1 DEF Sifts
    <3>2. CASE j = n + 1
      BY <1>1, <1>5, <2>2, <3>2 DEF m
    <3> QED
      BY <2>3, <2>4, <3>1, <3>2
  <2>6. ASSUME NEW i \in 1..(k + 1), IsAnswer(box[i])
        PROVE  \E j \in 1..Len(q) : q[j] = box[i]
    <3>1. CASE i \in 1..k
      <4>1. PICK j \in 1..n : r[j] = box[i]
        BY <2>6, <3>1 DEF Sifts
      <4> QED
        BY <2>2, <2>4, <4>1
    <3>2. CASE i = k + 1
      BY <2>2, <2>4, <3>2 DEF m
    <3> QED
      BY <1>2, <3>1, <3>2
  <2>7. ASSUME OneReply(box), NEW i \in 1..Len(q), NEW j \in 1..Len(q),
               q[i].kind \in Reply2, q[j].kind \in Reply2
        PROVE  i = j
    <3>1. ASSUME NEW h \in 1..n, r[h].kind \in Reply2, m.kind \in Reply2
          PROVE  FALSE
      <4>1. PICK g \in 1..k : box[g] = r[h]
        BY <3>1 DEF Sifts
      <4>2. g \in 1..Len(box) /\ g # k + 1
        BY <1>1
      <4> QED
        BY <1>1, <2>7, <3>1, <4>1, <4>2 DEF OneReply, m
    <3>2. (i \in 1..n \/ i = n + 1) /\ (j \in 1..n \/ j = n + 1)
      BY <2>3, <2>4
    <3>3. OneReply(r)
      BY <2>7 DEF Sifts
    <3> QED
      BY <2>2, <2>7, <3>1, <3>2, <3>3 DEF OneReply
  <2> QED
    BY <2>1, <2>2, <2>5, <2>6, <2>7 DEF Sifts, OneReply, m
<1> QED
  BY <1>4, <1>5

(* What a broken stream leaves is a fold, as Folding has it. *)
LEMMA KeptIsFold ==
  ASSUME NEW d, NEW s
  PROVE  FoldLeft(KeepAnswer, d, s) = Kept!Folded(d, s)
BY DEF Kept!Folded, FoldLeft, MapThenFoldSet, Kept!FoldLeft,
       Kept!MapThenFoldSet, Kept!Max, Max

(* It leaves the answers and nothing else. *)
LEMMA KeptSifts ==
  ASSUME NEW box \in Seq(Messages)
  PROVE  Sifts(FoldLeft(KeepAnswer, <<>>, box), box, Len(box))
<1> DEFINE n == Len(box)
<1>1. n \in Nat /\ DOMAIN box = 1..n
  <2>1. \A b \in Seq(Messages) : Len(b) \in Nat /\ DOMAIN b = 1..Len(b)
    <3> HIDE DEF Messages
    <3> QED
      OBVIOUS
  <2> QED
    BY <2>1
<1>2. PICK f : Kept!IsChain(f, n, <<>>, box) /\ Kept!Folded(<<>>, box) = f[n]
  <2> HIDE DEF n
  <2> QED
    BY <1>1, Kept!FoldChain
<1>3. f[0] = <<>> /\ \A k \in 0..(n - 1) : f[k + 1] = KeepAnswer(f[k], box[k + 1])
  BY <1>2 DEF Kept!IsChain
<1> DEFINE S == {k \in 0..n : Sifts(f[k], box, k)}
<1>4. 0 \in S
  <2>1. <<>> \in Seq(Messages) /\ 1..Len(<<>>) = {} /\ 1..0 = {} /\ 0 \in 0..n
    BY <1>1
  <2>2. OneReply(<<>>)
    BY <2>1, Zenon DEF OneReply
  <2>3. Sifts(<<>>, box, 0)
    BY <2>1, <2>2, Zenon DEF Sifts
  <2> QED
    BY <1>3, <2>1, <2>3
<1>5. ASSUME NEW k \in 0..(n - 1), k \in S PROVE k + 1 \in S
  <2>1. Sifts(KeepAnswer(f[k], box[k + 1]), box, k + 1)
    BY <1>5, SiftNext
  <2>2. k + 1 \in 0..n
    BY <1>1
  <2> QED
    BY <1>3, <2>1, <2>2
<1> HIDE DEF S, n
<1>6. 0..n \subseteq S
  BY <1>1, <1>4, <1>5, Kept!Induction
<1>7. n \in 0..n
  BY <1>1
<1> QED
  BY <1>2, <1>6, <1>7, KeptIsFold DEF S, n

(* A connection leaves the room, and its tab keeps box of its inbox. *)
LEMMA LeaveTaken ==
  ASSUME TakenInv, NEW c \in Tabs, NEW u, NEW box, tab' = [tab EXCEPT ![c] = u],
         inbox' = [inbox EXCEPT ![c] = box], LeaveRoom(c), ~Empties(c, Tabs \ {c}),
         TabFits(c, u, box, slots, log.savedSeq, FALSE), members = {c} => ~u.room,
         u.open => tab[c].open, IsLeft(left'), left'.opens = left.opens, made' = made
  PROVE  /\ TakenInv' /\ tab'[c] = u /\ inbox'[c] = box /\ c \notin members'
         /\ \A d \in Tabs : d # c => tab'[d] = tab[d] /\ inbox'[d] = inbox[d]
         /\ slots' = slots \/ \A d \in Tabs : ~tab'[d].room /\ d \notin members'
<1>1. /\ Typed /\ DOMAIN tab = Tabs /\ DOMAIN inbox = Tabs /\ LogFits(log, slots)
      /\ members \subseteq Tabs /\ made \in Seq(Tabs)
      /\ \A d \in Tabs : TabFits(d, tab[d], inbox[d], slots, log.savedSeq, d \in members)
  BY DEF TakenInv, Typed, AllFit
<1>2. /\ tab'[c] = u /\ inbox'[c] = box /\ DOMAIN tab' = Tabs /\ DOMAIN inbox' = Tabs
      /\ \A d \in Tabs : d # c => tab'[d] = tab[d] /\ inbox'[d] = inbox[d]
  BY <1>1
<1>3. members' = members \ {c} /\ (c \in members') = FALSE
  BY DEF LeaveRoom
<1>4. Typed'
  BY <1>1, <1>2, <1>3 DEF Typed
<1>5. CASE members = {c}
  <2>1. log' = EmptyLog /\ slots' = <<>> /\ members' = {}
    BY <1>3, <1>5 DEF LeaveRoom
  <2>2. ASSUME NEW d \in Tabs, d # c
        PROVE  ~tab[d].room /\ IsTab(tab[d]) /\ Linked(tab[d], FALSE) /\ inbox[d] = <<>>
    <3>1. (d \in members) = FALSE
      BY <1>5, <2>2
    <3>2. TabFits(d, tab[d], inbox[d], slots, log.savedSeq, FALSE)
      BY <1>1, <3>1
    <3>3. IsTab(tab[d]) /\ Linked(tab[d], FALSE)
      BY <3>2 DEF TabFits
    <3>4. ~(tab[d].open /\ tab[d].room)
      BY <1>5, <2>2 DEF Empties
    <3>5. ~tab[d].room
      BY <3>3, <3>4 DEF Linked
    <3>6. inbox[d] = <<>>
      BY <3>2, <3>5, NothingThere DEF Nothing
    <3> QED
      BY <3>3, <3>5, <3>6
  <2>3. ~u.room /\ IsTab(u) /\ Linked(u, FALSE) /\ box = <<>>
    <3>1. IsTab(u) /\ Linked(u, FALSE) /\ ~u.room
      BY <1>5 DEF TabFits
    <3>2. box = <<>>
      BY <3>1, NothingThere DEF Nothing
    <3> QED
      BY <3>1, <3>2
  <2>4. ASSUME NEW d \in Tabs
        PROVE  TabFits(d, tab'[d], inbox'[d], slots', log'.savedSeq, d \in members')
    <3>1. ~tab'[d].room /\ IsTab(tab'[d]) /\ Linked(tab'[d], FALSE) /\ inbox'[d] = <<>>
      BY <1>2, <2>2, <2>3
    <3>2. (d \in members') = FALSE
      BY <2>1
    <3>3. TabFits(d, tab'[d], <<>>, slots', log'.savedSeq, FALSE)
      BY <3>1, OutsideFits
    <3> QED
      BY <3>1, <3>2, <3>3
  <2>5. LogFits(log', slots')
    <3>1. <<>> \in Seq(SlotSet) /\ <<>> \in Seq(EntrySet) /\ Len(<<>>) = 0 /\ 1..0 = {}
      OBVIOUS
    <3>2. /\ DOMAIN EmptyLog = {"entries", "seq", "savedSeq"} /\ EmptyLog.entries = <<>>
          /\ EmptyLog.seq = 0 /\ EmptyLog.savedSeq = 0
      BY DEF EmptyLog
    <3>3. LogFits(EmptyLog, <<>>)
      BY <3>1, <3>2 DEF LogFits
    <3> QED
      BY <2>1, <3>3
  <2>6. TakenInv'
    BY <1>4, <2>4, <2>5 DEF TakenInv, AllFit
  <2>7. \A d \in Tabs : ~tab'[d].room /\ d \notin members'
    BY <1>2, <2>1, <2>2, <2>3
  <2> QED
    BY <1>2, <1>3, <2>6, <2>7
<1>6. CASE members # {c}
  <2>1. UNCHANGED <<log, slots>>
    BY <1>6 DEF LeaveRoom
  <2>2. TabFits(c, tab'[c], inbox'[c], slots, log.savedSeq, c \in members')
    BY <1>2, <1>3
  <2>3. \A d \in Tabs : d # c => (d \in members' <=> d \in members)
    BY <1>3
  <2>4. TakenInv'
    BY <1>2, <1>4, <2>1, <2>2, <2>3, OneTabStep
  <2> QED
    BY <1>2, <1>3, <2>1, <2>4
<1> QED
  BY <1>5, <1>6

(* Close keeps the first part of the invariant. *)
LEMMA CloseTaken ==
  ASSUME TakenInv, Mishaps = {}, NEW c \in Tabs, Close(c)
  PROVE  /\ TakenInv' /\ ~tab'[c].room /\ c \notin members' /\ inbox'[c] = <<>>
         /\ \A d \in Tabs : d # c => tab'[d] = tab[d] /\ inbox'[d] = inbox[d]
         /\ slots' = slots \/ \A d \in Tabs : ~tab'[d].room /\ d \notin members'
<1>1. /\ tab' = [tab EXCEPT ![c] = Closed] /\ inbox' = [inbox EXCEPT ![c] = <<>>]
      /\ LeaveRoom(c) /\ ~Empties(c, Tabs \ {c}) /\ UNCHANGED <<file, left, made>>
  BY DEF Close
<1>2. IsLeft(left') /\ left'.opens = left.opens /\ made' = made
  BY <1>1 DEF TakenInv, Typed
<1>3. TabFits(c, Closed, <<>>, slots, log.savedSeq, FALSE) /\ ~Closed.room /\ ~Closed.open
  BY ClosedFits
<1>4. /\ TakenInv' /\ tab'[c] = Closed /\ inbox'[c] = <<>> /\ c \notin members'
      /\ \A d \in Tabs : d # c => tab'[d] = tab[d] /\ inbox'[d] = inbox[d]
      /\ slots' = slots \/ \A d \in Tabs : ~tab'[d].room /\ d \notin members'
  BY <1>1, <1>2, <1>3, LeaveTaken
<1> QED
  BY <1>3, <1>4

(* A tab whose connection is gone: its calls failed, or linger. *)
Unlinked(t) ==
  LET v == [t EXCEPT !.link = FALSE]
  IN  IF v.join.phase = "idle" THEN v ELSE JoinFailed(v)

SameCall(t, u) ==
  \/ u.submit = t.submit
  \/ t.submit.phase = "asked" /\ u.submit.phase = "lost" /\ u.submit.op = t.submit.op

Parts(t, u, s, saved) ==
  /\ IsTab(u) /\ Linked(u, FALSE) /\ Leads(t, u)
  /\ u.open = t.open /\ u.room = t.room /\ u.queue = t.queue /\ u.resynced = t.resynced
  /\ u.room => Took(u, s, saved)

(* A tab that lost its connection keeps its sheet and its queue. *)
LEMMA UnlinkedParts ==
  ASSUME NEW t, NEW s, NEW saved, NEW member, IsTab(t), Linked(t, member),
         t.room => Took(t, s, saved), ~(t.joined /\ t.join.phase # "idle")
  PROVE  /\ Parts(t, Unlinked(t), s, saved) /\ SameSheet(t, Unlinked(t))
         /\ Unlinked(t).submit = t.submit /\ Unlinked(t).since = t.since
<1> DEFINE v == [t EXCEPT !.link = FALSE]
           w == Unlinked(t)
<1>1. /\ v.open = t.open /\ v.room = t.room /\ v.queue = t.queue /\ v.resynced = t.resynced
      /\ v.submit = t.submit /\ v.since = t.since /\ v.joined = t.joined /\ v.join = t.join
      /\ v.link = FALSE /\ SameSheet(t, v) /\ DOMAIN v = DOMAIN t
  BY DEF IsTab, SameSheet
<1>2. w = IF v.join.phase = "idle" THEN v ELSE [v EXCEPT !.join = NoCall, !.joined = FALSE]
  BY DEF Unlinked, JoinFailed
<1> HIDE DEF v
<1>3. /\ w.open = t.open /\ w.room = t.room /\ w.queue = t.queue /\ w.resynced = t.resynced
      /\ w.submit = t.submit /\ w.since = t.since /\ w.joined = t.joined
      /\ w.join.phase = "idle" /\ w.link = FALSE /\ SameSheet(t, w) /\ DOMAIN w = DOMAIN t
  <2>1. CASE v.join.phase = "idle"
    BY <1>1, <1>2, <2>1
  <2>2. CASE v.join.phase # "idle"
    <3>1. w = [v EXCEPT !.join = NoCall, !.joined = FALSE]
      BY <1>2, <2>2
    <3>2. t.joined = FALSE
      BY <1>1, <2>2 DEF Linked
    <3> HIDE DEF w
    <3>3. /\ w.open = v.open /\ w.room = v.room /\ w.queue = v.queue /\ w.resynced = v.resynced
          /\ w.submit = v.submit /\ w.since = v.since /\ w.joined = FALSE
          /\ w.join = NoCall /\ w.link = v.link /\ SameSheet(v, w) /\ DOMAIN w = DOMAIN v
      BY <1>1, <3>1 DEF IsTab, SameSheet
    <3>4. w.join.phase = "idle"
      BY <3>3 DEF NoCall
    <3>5. SameSheet(t, w)
      BY <1>1, <3>3 DEF SameSheet
    <3> QED
      BY <1>1, <3>2, <3>3, <3>4, <3>5
  <2> QED
    BY <2>1, <2>2
<1> HIDE DEF w
<1>4. IsTab(w) /\ Linked(w, FALSE)
  BY <1>3 DEF IsTab, Linked, SameSheet
<1>5. w.room => Took(w, s, saved)
  BY <1>3, <1>4, SameTook
<1>6. Leads(t, w)
  <2>1. Len(t.seen) <= Len(t.seen)
    BY DEF IsTab
  <2> QED
    BY <1>3, <2>1 DEF Leads, SameSheet, Level
<1> QED
  BY <1>3, <1>4, <1>5, <1>6 DEF Parts, w

(* So it does when its calls fail. *)
LEMMA CallsFailParts ==
  ASSUME NEW t, NEW s, NEW saved, Parts(t, t, s, saved)
  PROVE  Parts(t, CallsFail(t), s, saved) /\ Proceeds(CallsFail(t))
<1> DEFINE call == IF t.submit.phase = "catching" THEN t.submit ELSE NoCall
           u == [t EXCEPT !.submit = call]
           v == EndCatchUp(u)
<1>1. CallsFail(t) = IF u.since.phase = "idle" THEN u ELSE v
  BY DEF CallsFail
<1>2. call.phase \in {"idle", "catching"} /\ (t.submit.phase = "idle" => call.phase = "idle")
  BY DEF NoCall
<1> HIDE DEF call
<1>3. /\ SamePlace(t, u) /\ SameSheet(t, u) /\ u.submit = call /\ u.since = t.since
      /\ DOMAIN u = DOMAIN t
  BY DEF Parts, IsTab, SamePlace, SameSheet
<1> HIDE DEF u
<1>4. IsTab(u) /\ Linked(u, FALSE) /\ Proceeds(u)
  BY <1>2, <1>3 DEF Parts, IsTab, Linked, SamePlace, SameSheet, Proceeds, Settled
<1>5. u.room => Took(u, s, saved)
  <2>1. u.submit.phase # "asked"
    BY <1>2, <1>3
  <2> QED
    BY <1>3, <1>4, <2>1, SameTook DEF Parts, SamePlace
<1>6. Leads(t, u)
  <2>1. Len(t.seen) <= Len(t.seen)
    BY DEF Parts, IsTab
  <2> QED
    BY <1>3, <2>1 DEF Leads, SameSheet, Level, SamePlace
<1>7. Parts(t, u, s, saved)
  BY <1>3, <1>4, <1>5, <1>6 DEF Parts, SamePlace
<1>8. CASE u.since.phase # "idle"
  <2>1. u.room
    BY <1>4, <1>8 DEF Linked
  <2>2. Steers(u, v) /\ Took(v, s, saved)
    BY <1>5, <2>1, EndCatchUpSound
  <2>3. Moves(u, v)
    BY <1>5, <2>1, <2>2, StepMoves
  <2> HIDE DEF v
  <2>4. IsTab(v) /\ Linked(v, FALSE) /\ Leads(u, v)
    BY <1>4, <2>1, <2>2, <2>3, StaysLinked DEF Steers, Moves
  <2>5. Leads(t, v)
    BY <1>4, <1>6, <2>4, LeadsOn DEF Parts
  <2>6. Parts(t, v, s, saved)
    BY <1>7, <2>2, <2>4, <2>5 DEF Parts, Steers, SamePlace
  <2>7. Proceeds(v)
    BY <1>2, <1>3, <2>2 DEF Steers, Submits, Proceeds, Settled
  <2> QED
    BY <1>1, <1>8, <2>6, <2>7
<1> QED
  BY <1>1, <1>4, <1>7, <1>8

(* And when they linger. *)
LEMMA CallsLingerParts ==
  ASSUME NEW t, NEW s, NEW saved, Parts(t, t, s, saved)
  PROVE  Parts(t, CallsLinger(t), s, saved) /\ SameCall(t, CallsLinger(t))
<1> DEFINE call == Abandoned(t.submit)
           asked == Abandoned(t.since)
           u == CallsLinger(t)
<1>1. u = [t EXCEPT !.submit = call, !.since = asked]
  BY DEF CallsLinger
<1>2. /\ \/ call = t.submit
         \/ /\ t.submit.phase = "asked" /\ call.phase = "lost" /\ call.op = t.submit.op
            /\ call \in CallSet
      /\ call.phase # "asked"
  <2>1. CASE t.submit.phase = "asked"
    <3>1. t.submit \in CallSet /\ call = [t.submit EXCEPT !.phase = "lost"]
      BY <2>1 DEF Parts, IsTab, Abandoned
    <3> QED
      BY <2>1, <3>1 DEF CallSet
  <2> QED
    BY <2>1 DEF Abandoned
<1>3. (t.since.phase = "idle" => asked = t.since) /\ (asked.phase # "asked" \/ t.since.phase = "asked")
  BY DEF Abandoned
<1> HIDE DEF call, asked, u
<1>4. /\ SamePlace(t, u) /\ SameSheet(t, u) /\ u.submit = call /\ u.since = asked
      /\ DOMAIN u = DOMAIN t
  BY <1>1 DEF Parts, IsTab, SamePlace, SameSheet
<1>5. IsTab(u) /\ Linked(u, FALSE)
  BY <1>2, <1>3, <1>4 DEF Parts, IsTab, Linked, SamePlace, SameSheet
<1>6. u.since.phase = "asked" => u.since.from = t.since.from
  BY <1>4 DEF Abandoned, asked
<1>7. Level(u) <=> Level(t)
  BY <1>4 DEF Level, SameSheet
<1>8. u.room => Took(u, s, saved)
  <2> SUFFICES ASSUME u.room PROVE Took(u, s, saved)
    OBVIOUS
  <2>1. Took(t, s, saved)
    BY <1>4 DEF Parts, SamePlace
  <2>2. Sees(u, s) /\ Holds(u, s) /\ Asks(u)
    BY <1>2, <1>4, <1>7, <2>1 DEF Took, Sees, Holds, Asks, SameSheet
  <2> QED
    BY <1>3, <1>4, <1>5, <1>6, <1>7, <2>1, <2>2 DEF Took, MayAsk, SameSheet
<1>9. Leads(t, u)
  <2>1. Len(t.seen) <= Len(t.seen)
    BY DEF Parts, IsTab
  <2> QED
    BY <1>4, <1>7, <2>1 DEF Leads, SameSheet, SamePlace
<1> QED
  BY <1>2, <1>4, <1>5, <1>8, <1>9 DEF Parts, SamePlace, SameCall, u

(* A tab that is cut off is left with its parts, and over http with the answers
   that were on their way. *)
Cut(t, u, box, left2box, network) ==
  /\ u.open = t.open /\ u.room = t.room /\ u.queue = t.queue /\ u.resynced = t.resynced
  /\ IF network = "socket"
     THEN Proceeds(u) /\ left2box = <<>>
     ELSE SameCall(t, u) /\ Sifts(left2box, box, Len(box))

(* Two such steps make one. *)
LEMMA PartsOn ==
  ASSUME NEW t, NEW u, NEW v, NEW s, NEW saved, IsTab(t), Parts(t, u, s, saved),
         Parts(u, v, s, saved)
  PROVE  Parts(t, v, s, saved)
<1>1. Leads(t, v)
  BY LeadsOn DEF Parts
<1> QED
  BY <1>1 DEF Parts

(* A tab that lost its connection is one that may lose it. *)
LEMMA PartsAlone ==
  ASSUME NEW t, NEW u, NEW s, NEW saved, Parts(t, u, s, saved)
  PROVE  Parts(u, u, s, saved)
<1>1. Len(u.seen) <= Len(u.seen)
  BY DEF Parts, IsTab
<1> QED
  BY <1>1 DEF Parts, Leads

(* The answers a broken stream leaves still fit the tab. *)
LEMMA SiftedFit ==
  ASSUME NEW c, NEW t, NEW u, NEW box, NEW r, NEW s, NEW saved, NEW member,
         TabFits(c, t, box, s, saved, member), Parts(t, u, s, saved),
         Sifts(r, box, Len(box))
  PROVE  TabFits(c, u, r, s, saved, FALSE)
<1>1. ASSUME NEW j \in 1..Len(r) PROVE Fits(c, u, r[j], s, FALSE)
  <2>1. PICK i \in 1..Len(box) : box[i] = r[j]
    BY DEF Sifts
  <2>2. IsAnswer(r[j])
    BY DEF Sifts
  <2>3. Fits(c, t, r[j], s, member)
    BY <2>1 DEF TabFits
  <2>4. Fits(c, u, r[j], s, member)
    BY <2>3, StillFits DEF TabFits, Parts
  <2>5. r[j].kind \notin {"op", "file", "joined"}
    BY <2>2 DEF IsAnswer, IsEvent
  <2> QED
    BY <2>4, <2>5 DEF Fits
<1>2. r \in Seq(Messages)
  BY DEF Sifts
<1> QED
  BY <1>1, <1>2 DEF TabFits, Parts

(* Drop keeps the first part of the invariant. *)
LEMMA DropTaken ==
  ASSUME TakenInv, Mishaps = {}, NEW c \in Tabs, Drop(c)
  PROVE  /\ TakenInv' /\ c \notin members'
         /\ Cut(tab[c], tab'[c], inbox[c], inbox'[c], left.network)
         /\ \A d \in Tabs : d # c => tab'[d] = tab[d] /\ inbox'[d] = inbox[d]
         /\ slots' = slots \/ \A d \in Tabs : ~tab'[d].room /\ d \notin members'
<1> DEFINE t == tab[c]
           v == Unlinked(t)
           u == IF left.network = "socket" THEN CallsFail(v) ELSE CallsLinger(v)
           b == inbox[c]
           r == IF left.network = "socket" THEN <<>> ELSE FoldLeft(KeepAnswer, <<>>, b)
           s == slots
           saved == log.savedSeq
<1>1. /\ tab' = [tab EXCEPT ![c] = u] /\ inbox' = [inbox EXCEPT ![c] = r]
      /\ left' = [left EXCEPT !.drops = @ - 1] /\ LeaveRoom(c) /\ UNCHANGED <<file, made>>
      /\ ~Empties(c, Tabs) /\ ~(t.joined /\ t.join.phase # "idle")
  <2>1. ~Empties(c, Tabs) /\ ~(t.joined /\ t.join.phase # "idle")
    BY Zenon DEF Drop
  <2>2. v = LET x == [t EXCEPT !.link = FALSE]
            IN  IF x.join.phase = "idle" THEN x ELSE JoinFailed(x)
    BY Zenon DEF Unlinked
  <2> HIDE DEF v
  <2> QED
    BY <2>1, <2>2, Zenon DEF Drop
<1>2. /\ TabFits(c, t, b, s, saved, c \in members) /\ IsLeft(left)
      /\ DOMAIN tab = Tabs /\ DOMAIN inbox = Tabs
  BY DEF TakenInv, AllFit, Typed
<1>3. IsTab(t) /\ Linked(t, c \in members) /\ (t.room => Took(t, s, saved))
  BY <1>2 DEF TabFits
<1>4. Parts(t, v, s, saved) /\ v.submit = t.submit
  BY <1>1, <1>3, UnlinkedParts
<1>5. Parts(v, v, s, saved)
  BY <1>4, PartsAlone
<1> HIDE DEF v
<1>6. Parts(t, u, s, saved)
  <2>1. Parts(v, u, s, saved)
    BY <1>5, CallsFailParts, CallsLingerParts
  <2> HIDE DEF u
  <2> QED
    BY <1>3, <1>4, <2>1, PartsOn
<1>7. IF left.network = "socket" THEN Proceeds(u) ELSE SameCall(t, u)
  <2>1. CASE left.network = "socket"
    <3>1. Proceeds(CallsFail(v))
      BY <1>5, CallsFailParts
    <3> QED
      BY <2>1, <3>1
  <2>2. CASE left.network # "socket"
    <3>1. SameCall(v, CallsLinger(v))
      BY <1>5, CallsLingerParts
    <3>2. u = CallsLinger(v)
      BY <2>2
    <3> HIDE DEF u
    <3>3. SameCall(v, u)
      BY <3>1, <3>2
    <3> QED
      BY <1>4, <2>2, <3>3 DEF SameCall
  <2> QED
    BY <2>1, <2>2
<1> HIDE DEF u
<1>8. /\ TabFits(c, u, r, s, saved, FALSE)
      /\ IF left.network = "socket" THEN r = <<>> ELSE Sifts(r, b, Len(b))
  <2>1. CASE left.network = "socket"
    <3>1. <<>> \in Seq(Messages) /\ 1..Len(<<>>) = {} /\ r = <<>>
      BY <2>1
    <3>2. r \in Seq(Messages) /\ 1..Len(r) = {}
      BY <3>1, Zenon
    <3> HIDE DEF r
    <3>3. TabFits(c, u, r, s, saved, FALSE)
      BY <1>6, <3>2 DEF TabFits, Parts
    <3> QED
      BY <2>1, <3>1, <3>3
  <2>2. CASE left.network # "socket"
    <3>1. Sifts(r, b, Len(b))
      BY <1>2, <2>2, KeptSifts DEF TabFits
    <3> HIDE DEF r
    <3> QED
      BY <1>2, <1>6, <2>2, <3>1, SiftedFit
  <2> QED
    BY <2>1, <2>2
<1> HIDE DEF r
<1>9. members = {c} => ~u.room
  <2>1. members = {c} => ~(t.open /\ t.room)
    BY <1>1 DEF Empties
  <2> QED
    BY <1>3, <1>6, <2>1 DEF Linked, Parts
<1>10. ~Empties(c, Tabs \ {c})
  BY <1>1 DEF Empties
<1>11. IsLeft(left') /\ left'.opens = left.opens /\ made' = made
  BY <1>1, <1>2 DEF IsLeft
<1>12. u.open => t.open
  BY <1>6 DEF Parts
<1>13. /\ TakenInv' /\ tab'[c] = u /\ inbox'[c] = r /\ c \notin members'
       /\ \A d \in Tabs : d # c => tab'[d] = tab[d] /\ inbox'[d] = inbox[d]
       /\ slots' = slots \/ \A d \in Tabs : ~tab'[d].room /\ d \notin members'
  BY <1>1, <1>8, <1>9, <1>10, <1>11, <1>12, LeaveTaken
<1>14. Cut(t, u, b, r, left.network)
  BY <1>6, <1>7, <1>8 DEF Cut, Parts
<1> QED
  BY <1>13, <1>14

(* The log grows or is saved up to a later position, and members are told. *)
LEMMA NewsTaken ==
  ASSUME TakenInv, NEW except, NEW m, PushToAll(except, m), m \in Messages, m.kind = "file",
         LogFits(log', slots'), Longer(slots, slots'), log.savedSeq <= log'.savedSeq,
         UNCHANGED <<members, tab, made>>, IsLeft(left'), left'.opens = left.opens
  PROVE  /\ TakenInv'
         /\ \A d \in Tabs : inbox'[d] = inbox[d] \/ inbox'[d] = Append(inbox[d], m)
<1>1. /\ Typed /\ DOMAIN inbox = Tabs /\ LogFits(log, slots)
      /\ \A d \in Tabs : TabFits(d, tab[d], inbox[d], slots, log.savedSeq, d \in members)
  BY DEF TakenInv, Typed, AllFit
<1>2. /\ slots \in Seq(SlotSet) /\ slots' \in Seq(SlotSet)
      /\ log.savedSeq \in Nat /\ log'.savedSeq \in Nat
  BY <1>1 DEF LogFits
<1>3. ASSUME NEW d \in Tabs
      PROVE  /\ TabFits(d, tab[d], inbox'[d], slots', log'.savedSeq, d \in members)
             /\ inbox'[d] = inbox[d] \/ inbox'[d] = Append(inbox[d], m)
  <2>1. TabFits(d, tab[d], inbox[d], slots', log'.savedSeq, d \in members)
    BY <1>1, <1>2, Outlives
  <2>2. inbox'[d] = IF d \in members \ except THEN Append(inbox[d], m) ELSE inbox[d]
    BY DEF PushToAll
  <2>3. CASE d \in members \ except
    <3>1. Fits(d, tab[d], m, slots', d \in members)
      BY <2>3 DEF Fits
    <3> QED
      BY <2>1, <2>2, <2>3, <3>1, BoxAppend
  <2>4. CASE ~(d \in members \ except)
    BY <2>1, <2>2, <2>4
  <2> QED
    BY <2>3, <2>4
<1>4. AllFit'
  BY <1>3 DEF AllFit
<1>5. Typed'
  <2>1. DOMAIN inbox' = Tabs
    BY DEF PushToAll
  <2> QED
    BY <1>1, <2>1 DEF Typed
<1> QED
  BY <1>3, <1>4, <1>5 DEF TakenInv

(* Save keeps the first part of the invariant. *)
LEMMA SaveTaken ==
  ASSUME TakenInv, NEW c \in Tabs, Save(c)
  PROVE  /\ TakenInv'
         /\ \E m \in Messages :
              /\ m.kind = "file"
              /\ \A d \in Tabs : inbox'[d] = inbox[d] \/ inbox'[d] = Append(inbox[d], m)
<1> DEFINE m == [kind |-> "file", reset |-> FALSE, savedSeq |-> log'.savedSeq]
<1>1. /\ c \in members /\ left' = [left EXCEPT !.saves = @ - 1]
      /\ log' = MarkSaved(log, tab[c].applied) /\ PushToAll({c}, m)
      /\ UNCHANGED <<members, tab, slots, ground, made>>
  BY DEF Save
<1>2. LogFits(log, slots) /\ IsLeft(left) /\ tab[c].applied \in Nat
  BY DEF TakenInv, Typed, AllFit, TabFits, IsTab
<1>3. LogFits(log', slots) /\ log'.savedSeq >= log.savedSeq
  BY <1>1, <1>2, MarkSavedFits
<1>4. log.savedSeq \in Nat /\ log'.savedSeq \in Nat /\ slots \in Seq(SlotSet)
  BY <1>2, <1>3 DEF LogFits
<1>5. Longer(slots, slots) /\ log.savedSeq <= log'.savedSeq
  BY <1>3, <1>4 DEF Longer
<1>6. m \in Messages /\ m.kind = "file"
  BY <1>4 DEF Messages
<1> HIDE DEF m
<1>7. IsLeft(left') /\ left'.opens = left.opens
  BY <1>1, <1>2 DEF IsLeft
<1>8. /\ TakenInv'
      /\ \A d \in Tabs : inbox'[d] = inbox[d] \/ inbox'[d] = Append(inbox[d], m)
  <2>1. slots' = slots
    BY <1>1
  <2>2. LogFits(log', slots') /\ Longer(slots, slots')
    BY <1>3, <1>5, <2>1
  <2> QED
    BY <1>1, <1>5, <1>6, <1>7, <2>2, NewsTaken
<1> QED
  BY <1>6, <1>8

(* Replace keeps the first part of the invariant. *)
LEMMA ReplaceTaken ==
  ASSUME TakenInv, Replace
  PROVE  /\ TakenInv' /\ slots' = Append(slots, Replaced(Len(slots) + 1))
         /\ Replaced(Len(slots) + 1) \in SlotSet
         /\ \E m \in Messages :
              /\ m.kind = "file"
              /\ \A d \in Tabs : inbox'[d] = inbox[d] \/ inbox'[d] = Append(inbox[d], m)
<1> DEFINE m == [kind |-> "file", reset |-> TRUE, savedSeq |-> log'.savedSeq]
           e == Replaced(log'.seq)
<1>1. /\ left' = [left EXCEPT !.replaces = @ - 1] /\ log' = Reset(log)
      /\ slots' = Append(slots, e) /\ PushToAll({}, m)
      /\ UNCHANGED <<members, tab, ground, made>>
  BY DEF Replace
<1>2. LogFits(log, slots) /\ IsLeft(left)
  BY DEF TakenInv, Typed
<1>3. /\ slots \in Seq(SlotSet) /\ Len(slots) \in Nat /\ log.seq = Len(slots)
      /\ log.savedSeq \in 0..Len(slots)
  BY <1>2 DEF LogFits
<1>4. LogFits(log', slots') /\ log'.savedSeq = Len(slots) + 1 /\ e \in SlotSet
  BY <1>1, <1>2, ResetFits
<1>5. log'.seq = Len(slots) + 1
  BY <1>1, <1>3 DEF Reset
<1> HIDE DEF e
<1>6. Longer(slots, slots')
  <2>1. \A f \in Seq(SlotSet), x \in SlotSet :
          Len(f) <= Len(Append(f, x)) /\ \A i \in 1..Len(f) : Append(f, x)[i] = f[i]
    OBVIOUS
  <2> QED
    BY <1>1, <1>3, <1>4, <2>1 DEF Longer
<1>7. m \in Messages /\ m.kind = "file"
  BY <1>3, <1>4 DEF Messages
<1> HIDE DEF m
<1>8. IsLeft(left') /\ left'.opens = left.opens
  BY <1>1, <1>2 DEF IsLeft
<1>9. log.savedSeq <= log'.savedSeq
  BY <1>3, <1>4
<1>10. /\ TakenInv'
       /\ \A d \in Tabs : inbox'[d] = inbox[d] \/ inbox'[d] = Append(inbox[d], m)
  BY <1>1, <1>4, <1>6, <1>7, <1>8, <1>9, NewsTaken
<1> QED
  BY <1>1, <1>4, <1>5, <1>7, <1>10 DEF e

(* The first part of the invariant holds at first. *)
LEMMA InitTaken == Init => TakenInv
<1> SUFFICES ASSUME Init PROVE TakenInv
  OBVIOUS
<1>1. /\ log = EmptyLog /\ members = {} /\ tab = [c \in Tabs |-> Closed]
      /\ inbox = [c \in Tabs |-> <<>>] /\ slots = <<>> /\ made = <<>>
  BY DEF Init
<1>2. IsLeft(left)
  BY DEF Init, IsLeft
<1>3. /\ DOMAIN EmptyLog = {"entries", "seq", "savedSeq"} /\ EmptyLog.entries = <<>>
      /\ EmptyLog.seq = 0 /\ EmptyLog.savedSeq = 0
  BY DEF EmptyLog
<1>4. <<>> \in Seq(SlotSet) /\ <<>> \in Seq(EntrySet) /\ Len(<<>>) = 0 /\ 1..0 = {}
  OBVIOUS
<1>5. LogFits(log, slots)
  <2>1. LogFits(EmptyLog, <<>>)
    BY <1>3, <1>4 DEF LogFits
  <2> QED
    BY <1>1, <2>1
<1>6. ASSUME NEW c \in Tabs
      PROVE  TabFits(c, tab[c], inbox[c], slots, log.savedSeq, c \in members)
  <2>1. tab[c] = Closed /\ inbox[c] = <<>> /\ (c \in members) = FALSE
    BY <1>1
  <2>2. TabFits(c, Closed, <<>>, slots, log.savedSeq, FALSE)
    BY ClosedFits
  <2> QED
    BY <2>1, <2>2
<1>7. Typed
  <2>1. \A c \in Tabs : ~tab[c].open
    BY <1>1, ClosedFits
  <2>2. <<>> \in Seq(Tabs)
    OBVIOUS
  <2> QED
    BY <1>1, <1>2, <2>1, <2>2 DEF Typed
<1> QED
  BY <1>5, <1>6, <1>7 DEF TakenInv, AllFit

(* The answer to a join lets the tab into the room; what comes before it changes
   nothing. *)
LEMMA OutsideHandled ==
  ASSUME NEW c, NEW t, IsTab(t), ~t.room, NEW m, NEW s, Fits(c, t, m, s, TRUE)
  PROVE  Handle(c, t, m).room \/ Handle(c, t, m) = t
<1>1. m.kind \in {"op", "file", "joined"}
  BY DEF Fits
<1>2. CASE m.kind \in {"op", "file"}
  BY <1>2 DEF Handle
<1>3. CASE m.kind = "joined"
  <2> DEFINE from == IF t.joined THEN t.applied ELSE m.savedSeq
             u == [t EXCEPT !.join = NoCall, !.room = TRUE, !.joined = TRUE, !.flushAfter = TRUE]
  <2>1. Handle(c, t, m) = StartCatchUp(u, from)
    BY <1>3 DEF Handle, Joined
  <2> HIDE DEF from
  <2>2. IsTab(u) /\ u.room = TRUE
    BY DEF IsTab
  <2> HIDE DEF u
  <2>3. Steers(u, StartCatchUp(u, from))
    BY <2>2, StartCatchUpSteers
  <2> QED
    BY <2>1, <2>2, <2>3 DEF Steers, SamePlace
<1> QED
  BY <1>1, <1>2, <1>3

(* A step of one tab that leaves it out of the room with its sheet. *)
LEMMA OneOpens ==
  ASSUME OpensFile, DOMAIN tab = Tabs, file' = file, NEW c \in Tabs, NEW u,
         tab' = [tab EXCEPT ![c] = u],
         u.open /\ ~u.room => u.doc = file \/ (Opening(c) /\ u.doc = tab[c].doc)
  PROVE  OpensFile'
<1>1. tab'[c] = u /\ \A d \in Tabs : d # c => tab'[d] = tab[d]
  OBVIOUS
<1>2. u.open /\ ~u.room => u.doc = file
  BY DEF OpensFile
<1> QED
  BY <1>1, <1>2 DEF OpensFile, Opening

(* A tab that is cut off before it is in the room keeps its sheet. *)
LEMMA CutOffOutside ==
  ASSUME NEW t, NEW member, IsTab(t), Linked(t, member), ~t.room,
         NEW u, u = CallsFail(Unlinked(t)) \/ u = CallsLinger(Unlinked(t))
  PROVE  u.doc = t.doc /\ u.room = t.room /\ u.open = t.open
<1> DEFINE v == Unlinked(t)
           v0 == [t EXCEPT !.link = FALSE]
<1>1. /\ v0.doc = t.doc /\ v0.room = t.room /\ v0.open = t.open /\ v0.since = t.since
      /\ DOMAIN v0 = DOMAIN t
  BY DEF IsTab
<1>2. v = IF v0.join.phase = "idle" THEN v0 ELSE [v0 EXCEPT !.join = NoCall, !.joined = FALSE]
  BY DEF Unlinked, JoinFailed
<1> HIDE DEF v0, v
<1>3. /\ v.doc = t.doc /\ v.room = t.room /\ v.open = t.open /\ v.since = t.since
      /\ DOMAIN v = DOMAIN t
  <2> DEFINE w == [v0 EXCEPT !.join = NoCall, !.joined = FALSE]
  <2>1. /\ w.doc = v0.doc /\ w.room = v0.room /\ w.open = v0.open /\ w.since = v0.since
        /\ DOMAIN w = DOMAIN v0
    BY <1>1 DEF IsTab
  <2>2. v = v0 \/ v = w
    BY <1>2
  <2> HIDE DEF w
  <2> QED
    BY <1>1, <2>1, <2>2
<1>4. v.since.phase = "idle"
  BY <1>3 DEF Linked
<1>5. CASE u = CallsFail(v)
  <2> DEFINE call == IF v.submit.phase = "catching" THEN v.submit ELSE NoCall
             w == [v EXCEPT !.submit = call]
  <2>1. u = IF w.since.phase = "idle" THEN w ELSE EndCatchUp(w)
    BY <1>5 DEF CallsFail
  <2> HIDE DEF call
  <2>2. w.doc = v.doc /\ w.room = v.room /\ w.open = v.open /\ w.since = v.since
    BY <1>3 DEF IsTab
  <2> HIDE DEF w
  <2>3. u = w
    BY <1>4, <2>1, <2>2
  <2> QED
    BY <1>3, <2>2, <2>3
<1>6. CASE u = CallsLinger(v)
  <2> DEFINE asked == Abandoned(v.submit)
             since == Abandoned(v.since)
  <2>1. u = [v EXCEPT !.submit = asked, !.since = since]
    BY <1>6 DEF CallsLinger
  <2> HIDE DEF asked, since
  <2>2. u.doc = v.doc /\ u.room = v.room /\ u.open = v.open
    BY <1>3, <2>1 DEF IsTab
  <2> QED
    BY <1>3, <2>2
<1> QED
  BY <1>5, <1>6 DEF v

(* A step of a tab's own lets it show the stored file until it is in the room. *)
LEMMA TabStepOpens ==
  ASSUME TakenInv, OpensFile, NEW c \in Tabs, TabStep(c)
  PROVE  OpensFile'
<1> DEFINE t == tab[c]
<1>1. /\ DOMAIN tab = Tabs /\ IsTab(t) /\ Linked(t, c \in members)
      /\ TabFits(c, t, inbox[c], slots, log.savedSeq, c \in members)
  BY DEF TakenInv, Typed, AllFit, TabFits
<1>2. CASE Open(c)
  <2> DEFINE call == [phase |-> "asked"]
             u == [Closed EXCEPT !.open = TRUE, !.link = TRUE, !.doc = file, !.join = call]
  <2>1. tab' = [tab EXCEPT ![c] = u] /\ file' = file
    BY <1>2 DEF Open
  <2> HIDE DEF call
  <2>2. u.doc = file
    BY DEF Closed
  <2> HIDE DEF u
  <2> QED
    BY <1>1, <2>1, <2>2, OneOpens
<1>3. CASE \E cell \in Cells : Edit(c, cell)
  <2>1. PICK cell \in Cells : Edit(c, cell)
    BY <1>3
  <2>2. tab'[c].room
    BY <2>1, EditTaken
  <2>3. file' = file /\ \A d \in Tabs : d # c => tab'[d] = tab[d]
    BY <1>1, <2>1 DEF Edit
  <2> QED
    BY <2>2, <2>3 DEF OpensFile, Opening
<1>4. CASE Deliver(c)
  <2>1. PICK i \in Arriving(c) : tab' = [tab EXCEPT ![c] = Handle(c, t, inbox[c][i])]
    BY <1>4 DEF Deliver
  <2> DEFINE m == inbox[c][i]
             u == Handle(c, t, m)
  <2>2. Fits(c, t, m, slots, c \in members)
    BY <1>1, <2>1 DEF TabFits, Arriving
  <2>3. file' = file
    BY <1>4 DEF Deliver
  <2>4. CASE t.room
    <3>1. \E j \in Arriving(c) :
            /\ tab' = [tab EXCEPT ![c] = Handle(c, tab[c], inbox[c][j])]
            /\ inbox' = [inbox EXCEPT ![c] = RemoveAt(inbox[c], j)]
            /\ UNCHANGED <<log, members, file, left, slots, ground, made>>
      BY <1>4 DEF Deliver
    <3>2. PICK j \in Arriving(c) :
            /\ tab' = [tab EXCEPT ![c] = Handle(c, tab[c], inbox[c][j])]
            /\ inbox' = [inbox EXCEPT ![c] = RemoveAt(inbox[c], j)]
            /\ UNCHANGED <<log, members, file, left, slots, ground, made>>
      BY <3>1
    <3>3. Leads(tab[c], tab'[c])
      BY <3>2, DeliverTaken DEF Handles
    <3>4. tab'[c].room
      BY <2>4, <3>3 DEF Leads
    <3>5. \A d \in Tabs : d # c => tab'[d] = tab[d]
      BY <1>1, <3>2
    <3> QED
      BY <2>3, <3>4, <3>5 DEF OpensFile, Opening
  <2>5. CASE ~t.room
    <3>1. Fits(c, t, m, slots, TRUE)
      BY <2>2, <2>5 DEF Fits
    <3>2. u.room \/ u = t
      BY <1>1, <2>5, <3>1, OutsideHandled
    <3>3. tab' = [tab EXCEPT ![c] = u]
      BY <2>1
    <3> HIDE DEF u, m
    <3>4. u.open /\ ~u.room => u.doc = file \/ (Opening(c) /\ u.doc = tab[c].doc)
      BY <3>2 DEF Opening
    <3> QED
      BY <1>1, <2>3, <3>3, <3>4, OneOpens
  <2> QED
    BY <2>4, <2>5
<1>5. CASE TimerFires(c)
  <2>1. tab'[c].room = t.room /\ t.timer /\ file' = file
    BY <1>5, TimerTaken DEF TimerFires
  <2>2. t.room
    BY <1>1, <2>1 DEF Linked
  <2>3. \A d \in Tabs : d # c => tab'[d] = tab[d]
    BY <1>1, <1>5 DEF TimerFires
  <2> QED
    BY <2>1, <2>2, <2>3 DEF OpensFile, Opening
<1>6. CASE Reconnect(c)
  <2> DEFINE call == [phase |-> "asked"]
             u == [t EXCEPT !.link = TRUE, !.join = call]
  <2>1. tab' = [tab EXCEPT ![c] = u] /\ file' = file
    BY <1>6 DEF Reconnect
  <2> HIDE DEF call
  <2>2. u.doc = t.doc /\ u.open = t.open /\ u.room = t.room
    BY <1>1 DEF IsTab
  <2> HIDE DEF u
  <2>3. u.open /\ ~u.room => u.doc = file \/ (Opening(c) /\ u.doc = tab[c].doc)
    BY <2>2 DEF Opening
  <2> QED
    BY <1>1, <2>1, <2>3, OneOpens
<1>7. CASE Close(c)
  <2>1. tab' = [tab EXCEPT ![c] = Closed] /\ file' = file
    BY <1>7 DEF Close
  <2>2. ~Closed.open
    BY DEF Closed
  <2> HIDE DEF t
  <2> QED
    BY <1>1, <2>1, <2>2, OneOpens
<1> QED
  BY <1>2, <1>3, <1>4, <1>5, <1>6, <1>7 DEF TabStep

(* An answer of the hub leaves the tab's sheet. *)
LEMMA HubStepOpens ==
  ASSUME TakenInv, OpensFile, NEW c \in Tabs, HubStep(c)
  PROVE  OpensFile'
<1> DEFINE t == tab[c]
<1>1. DOMAIN tab = Tabs /\ IsTab(t)
  BY DEF TakenInv, Typed, AllFit, TabFits
<1>2. ASSUME NEW u, tab' = [tab EXCEPT ![c] = u], file' = file,
             u.doc = t.doc, u.open = t.open, u.room = t.room
      PROVE  OpensFile'
  <2>1. u.open /\ ~u.room => u.doc = file \/ (Opening(c) /\ u.doc = tab[c].doc)
    BY <1>2 DEF Opening
  <2> QED
    BY <1>1, <1>2, <2>1, OneOpens
<1>3. \A x, y : LET u == [t EXCEPT !.join = x, !.seen = y]
                IN  u.doc = t.doc /\ u.open = t.open /\ u.room = t.room
  BY <1>1 DEF IsTab
<1>4. \A x : LET u == [t EXCEPT !.submit = x]
             IN  u.doc = t.doc /\ u.open = t.open /\ u.room = t.room
  BY <1>1 DEF IsTab
<1>5. \A x : LET u == [t EXCEPT !.since = x]
             IN  u.doc = t.doc /\ u.open = t.open /\ u.room = t.room
  BY <1>1 DEF IsTab
<1>6. CASE HubJoin(c)
  <2>1. \E x, y : tab' = [tab EXCEPT ![c] = [t EXCEPT !.join = x, !.seen = y]]
    BY <1>6, Zenon DEF HubJoin
  <2>2. file' = file
    BY <1>6 DEF HubJoin
  <2> QED
    BY <1>2, <1>3, <2>1, <2>2, Zenon
<1>7. CASE HubAccepts(c) \/ HubRefuses(c)
  <2>1. Answered(c) /\ file' = file
    BY <1>7 DEF HubAccepts, HubRefuses
  <2>2. \E x : tab' = [tab EXCEPT ![c] = [t EXCEPT !.submit = x]]
    BY <2>1, Zenon DEF Answered
  <2> QED
    BY <1>2, <1>4, <2>1, <2>2, Zenon
<1>8. CASE HubSince(c)
  <2>1. \E x : tab' = [tab EXCEPT ![c] = [t EXCEPT !.since = x]]
    BY <1>8, Zenon DEF HubSince
  <2>2. file' = file
    BY <1>8 DEF HubSince
  <2> QED
    BY <1>2, <1>5, <2>1, <2>2, Zenon
<1> QED
  BY <1>6, <1>7, <1>8 DEF HubStep

(* A tab that is cut off keeps its sheet. *)
LEMMA DropOpens ==
  ASSUME Mishaps = {}, TakenInv, OpensFile, NEW c \in Tabs, Drop(c)
  PROVE  OpensFile'
<1> DEFINE t == tab[c]
           v == Unlinked(t)
           u == IF left.network = "socket" THEN CallsFail(v) ELSE CallsLinger(v)
<1>1. DOMAIN tab = Tabs /\ IsTab(t) /\ Linked(t, c \in members)
  BY DEF TakenInv, Typed, AllFit, TabFits
<1>2. tab' = [tab EXCEPT ![c] = u] /\ file' = file
  <2>1. v = LET x == [t EXCEPT !.link = FALSE]
            IN  IF x.join.phase = "idle" THEN x ELSE JoinFailed(x)
    BY Zenon DEF Unlinked
  <2> HIDE DEF v
  <2> QED
    BY <2>1, Zenon DEF Drop
<1>3. u = CallsFail(v) \/ u = CallsLinger(v)
  OBVIOUS
<1> HIDE DEF u, v
<1>4. CASE t.room
  <2>1. Cut(tab[c], tab'[c], inbox[c], inbox'[c], left.network)
        /\ \A d \in Tabs : d # c => tab'[d] = tab[d] /\ inbox'[d] = inbox[d]
    BY DropTaken
  <2> QED
    BY <1>2, <1>4, <2>1 DEF Cut, OpensFile, Opening
<1>5. CASE ~t.room
  <2>1. u.doc = t.doc /\ u.room = t.room /\ u.open = t.open
    BY <1>1, <1>3, <1>5, CutOffOutside DEF v
  <2>2. u.open /\ ~u.room => u.doc = file \/ (Opening(c) /\ u.doc = tab[c].doc)
    BY <2>1 DEF Opening
  <2> QED
    BY <1>1, <1>2, <2>2, OneOpens
<1> QED
  BY <1>4, <1>5

(* Every step lets a tab show the stored file until it is in the room. *)
LEMMA StepOpens ==
  ASSUME Mishaps = {}, TakenInv, OpensFile, [Next]_vars
  PROVE  OpensFile'
<1>1. ASSUME UNCHANGED vars PROVE OpensFile'
  BY <1>1 DEF vars, OpensFile, Opening
<1>2. ASSUME NEW c \in Tabs, Save(c) PROVE OpensFile'
  BY <1>2 DEF Save, OpensFile, Opening
<1>3. ASSUME Replace PROVE OpensFile'
  BY <1>3 DEF Replace, OpensFile, Opening
<1> QED
  BY <1>1, <1>2, <1>3, TabStepOpens, HubStepOpens, DropOpens DEF Next

(* No tab is open at first. *)
LEMMA InitOpens == Init => OpensFile
BY DEF Init, Closed, OpensFile, Opening

(* Every step keeps the first part of the invariant. *)
LEMMA StepTaken ==
  ASSUME Mishaps = {}, TakenInv, OpensFile, [Next]_vars
  PROVE  TakenInv'
<1>1. ASSUME UNCHANGED vars PROVE TakenInv'
  BY <1>1 DEF vars, TakenInv, Typed, AllFit
<1>2. ASSUME NEW c \in Tabs, TabStep(c) PROVE TakenInv'
  <2>1. ASSUME NEW i \in Arriving(c),
               tab' = [tab EXCEPT ![c] = Handle(c, tab[c], inbox[c][i])],
               inbox' = [inbox EXCEPT ![c] = RemoveAt(inbox[c], i)],
               UNCHANGED <<log, members, file, left, slots, ground, made>>
        PROVE  TakenInv'
    BY <2>1, DeliverTaken
  <2>2. Deliver(c) => TakenInv'
    BY <2>1 DEF Deliver
  <2> QED
    BY <1>2, <2>2, OpenTaken, EditTaken, TimerTaken, ReconnectTaken, CloseTaken
       DEF TabStep
<1>3. ASSUME NEW c \in Tabs, HubStep(c) PROVE TakenInv'
  BY <1>3, JoinTaken, AcceptsTaken, RefusesTaken, SinceTaken DEF HubStep
<1>4. ASSUME NEW c \in Tabs, Drop(c) PROVE TakenInv'
  BY <1>4, DropTaken
<1>5. ASSUME NEW c \in Tabs, Save(c) PROVE TakenInv'
  BY <1>5, SaveTaken
<1> QED
  BY <1>1, <1>2, <1>3, <1>4, <1>5, ReplaceTaken DEF Next

(* What every tab has taken in, and everything on its way to it, fits the log, and a
   tab that is not in the room yet has loaded the file as it is: as long as no
   connection is lost during a rejoin, no file is saved or replaced between a load and
   its first join, and the room is not emptied under its tabs.  Mishaps = {} says so
   here and below. *)
THEOREM SheetInductive ==
  ASSUME Mishaps = {}
  PROVE  Spec => [](TakenInv /\ OpensFile)
<1>1. Init => TakenInv /\ OpensFile
  BY InitTaken, InitOpens
<1>2. TakenInv /\ OpensFile /\ [Next]_vars => (TakenInv /\ OpensFile)'
  BY StepTaken, StepOpens
<1> QED
  BY <1>1, <1>2, PTL DEF Spec

(* A tab takes in every position of the log, in order, and counts none as applied
   that it has not taken in (applyOps, catchUp, applyFoldedOps), unless one of
   AllMishaps happens. *)
THEOREM SeenAlwaysPrefix ==
  ASSUME Mishaps = {}
  PROVE  Spec => []SeenIsLogPrefix
<1>1. TakenInv => SeenIsLogPrefix
  <2> SUFFICES ASSUME TakenInv, NEW c \in Tabs, InRoom(c)
               PROVE  IsPrefix(tab[c].seen, slots) /\ tab[c].applied <= Len(tab[c].seen)
    BY DEF SeenIsLogPrefix
  <2> DEFINE t == tab[c]
             p == t.seen
  <2>1. Took(t, slots, log.savedSeq) /\ slots \in Seq(SlotSet)
    BY DEF TakenInv, AllFit, TabFits, LogFits, InRoom
  <2>2. /\ p \in Seq(SlotSet) /\ Len(p) <= Len(slots) /\ \A i \in 1..Len(p) : p[i] = slots[i]
    BY <2>1 DEF Took, IsTab, Sees
  <2>3. t.applied <= Len(p)
    BY <2>1 DEF Took, IsTab, Level
  <2> HIDE DEF p
  <2>4. IsPrefix(p, slots)
    <3>1. p = SubSeq(slots, 1, Len(p))
      <4>1. \A f, g \in Seq(SlotSet) : Len(f) <= Len(g) /\ (\A i \in 1..Len(f) : f[i] = g[i])
              => f = SubSeq(g, 1, Len(f))
        OBVIOUS
      <4> QED
        BY <2>1, <2>2, <4>1
    <3> QED
      BY <2>1, <2>2, <3>1 DEF IsPrefix
  <2> QED
    BY <2>3, <2>4 DEF p
<1> QED
  BY <1>1, SheetInductive, PTL

(* The hub accepts only from a tab that has taken in the whole log and counted it as
   applied: what is sent names the position it was made at. *)
LEMMA AcceptsFromWhole ==
  ASSUME TakenInv, NEW c \in Tabs, HubAccepts(c)
  PROVE  tab[c].seen = slots /\ Level(tab[c])
<1> DEFINE t == tab[c]
           p == t.seen
           call == t.submit
<1>1. call.phase = "asked" /\ c \in members /\ call.base = log.seq
  BY DEF HubAccepts, Fresh
<1>2. Took(t, slots, log.savedSeq) /\ slots \in Seq(SlotSet) /\ log.seq = Len(slots)
  BY <1>1 DEF TakenInv, AllFit, TabFits, LogFits
<1>3. /\ p \in Seq(SlotSet) /\ Len(p) <= Len(slots) /\ \A i \in 1..Len(p) : p[i] = slots[i]
      /\ call.base <= t.applied /\ t.applied \in Nat /\ t.applied <= Len(p)
  BY <1>1, <1>2 DEF Took, IsTab, Sees, Asks, Level
<1>4. Len(p) = Len(slots) /\ Level(t)
  BY <1>1, <1>2, <1>3 DEF Level
<1>5. \A f, g \in Seq(SlotSet) : Len(f) = Len(g) /\ (\A i \in 1..Len(f) : f[i] = g[i]) => f = g
  OBVIOUS
<1> QED
  BY <1>2, <1>3, <1>4, <1>5

(* An edit enters the log only from a tab that has taken in the whole log before
   it: what is sent names the position it was made at, and no tab has counted as
   applied more than it has taken in (flush, and the hub's compare-and-append).  No
   mishap may happen: a tab that loads the file before a replacement and joins after it
   submits on bytes it never saw. *)
THEOREM EditsAlwaysBuildOnWholeLog ==
  ASSUME Mishaps = {}
  PROVE  Spec => EditsBuildOnWholeLog
<1>1. TakenInv /\ [Next]_vars =>
        [\A c \in Tabs : HubAccepts(c) => tab[c].seen = slots]_vars
  BY AcceptsFromWhole
<1> QED
  BY <1>1, SheetInductive, PTL DEF Spec, EditsBuildOnWholeLog

-----------------------------------------------------------------------------
(***************************************************************************)
(* The second part of the invariant: where a tab's edits are.  An edit is  *)
(* queued in the order it was made until it is acknowledged; the one sent  *)
(* is the head; its answer is on its way once at most.                     *)
(***************************************************************************)
MadeIn(c, m) == {n \in 1..Len(m) : m[n] = c}
LoggedIn(c, s, n) == {i \in 1..Len(s) : s[i].client = c /\ s[i].ops.n = n}
QueuedIn(t, n) == \E i \in 1..Len(t.queue) : t.queue[i].n = n
Sending(t) == t.submit.phase \in {"asked", "lost", "answered"}

Keeps(c, t, m) ==
  /\ \A i \in 1..Len(t.queue) : t.queue[i].n \in MadeIn(c, m)
  /\ \A i, j \in 1..Len(t.queue) : i < j => t.queue[i].n < t.queue[j].n
  /\ t.resynced => t.queue = <<>>
  /\ Sending(t) => /\ t.submit.op.n \in MadeIn(c, m)
                   /\ ~t.resynced => t.queue # <<>> /\ t.submit.op = Head(t.queue)

Replies(t, box) ==
  /\ OneReply(box)
  /\ \A i \in 1..Len(box) : box[i].kind \in Reply2 =>
       /\ t.submit.phase = "answered"
       /\ box[i].kind = "accepted" => box[i].entry.ops = t.submit.op

InOrder(c, t, s, m) ==
  t.room /\ ~t.resynced =>
    \A n \in MadeIn(c, m) :
      /\ LoggedIn(c, s, n) # {} \/ QueuedIn(t, n)
      /\ \A k \in LoggedIn(c, s, n), l \in MadeIn(c, m) :
           l < n => \E j \in LoggedIn(c, s, l) : j < k

(* Of the queue, only what an acknowledgement on its way is about is logged. *)
OnceOnly(c, t, box, s) ==
  /\ t.submit.phase = "asked" => LoggedIn(c, s, t.submit.op.n) = {}
  /\ \A i \in 1..Len(t.queue) : LoggedIn(c, s, t.queue[i].n) # {} =>
       /\ t.submit.phase = "answered" /\ t.queue[i] = t.submit.op
       /\ \E j \in 1..Len(box) : box[j].kind = "accepted"

KeptTab(c, t, box, s, m, network) ==
  /\ Keeps(c, t, m) /\ Replies(t, box) /\ InOrder(c, t, s, m)
  /\ network = "http" => OnceOnly(c, t, box, s)

(* The answers in one inbox are those in the other. *)
SameReplies(box, box2) ==
  /\ OneReply(box) => OneReply(box2)
  /\ \A j \in 1..Len(box2) : box2[j].kind \in Reply2 => \E i \in 1..Len(box) : box[i] = box2[j]
  /\ \A i \in 1..Len(box) : box[i].kind = "accepted" => \E j \in 1..Len(box2) : box2[j] = box[i]

(* Head and tail of a queue. *)
LEMMA HeadFirst ==
  ASSUME NEW q \in Seq(OpSet)
  PROVE  /\ Len(q) \in Nat
         /\ q # <<>> => /\ Head(q) = q[1] /\ 1 \in 1..Len(q)
                        /\ Tail(q) \in Seq(OpSet) /\ Len(Tail(q)) = Len(q) - 1
                        /\ \A i \in 1..(Len(q) - 1) : Tail(q)[i] = q[i + 1]
OBVIOUS

(* A step in which the tab keeps its queue, or drops it to be reloaded. *)
LEMMA QueuesKeep ==
  ASSUME NEW c, NEW t, NEW u, NEW box, NEW box2, NEW s, NEW m, NEW network,
         KeptTab(c, t, box, s, m, network), IsTab(t), IsTab(u), Queues(t, u),
         SameReplies(box, box2), ~u.room \/ t.room \/ MadeIn(c, m) = {}
  PROVE  KeptTab(c, u, box2, s, m, network)
<1>1. \/ u.queue = t.queue /\ u.resynced = t.resynced
      \/ u.queue = <<>> /\ u.resynced
  BY DEF Queues
<1>2. \/ u.submit = t.submit
      \/ /\ Settled(t)
         /\ Settled(u) \/ (u.submit.phase = "asked" /\ u.queue # <<>> /\ u.submit.op = Head(u.queue))
  BY DEF Queues, Submits
<1>3. u.queue \in Seq(OpSet) /\ 1..Len(<<>>) = {}
  BY DEF IsTab
<1>4. u.queue # <<>> => Head(u.queue) = u.queue[1] /\ 1 \in 1..Len(u.queue)
  BY <1>3, HeadFirst
<1>5. Settled(t) => t.submit.phase # "answered"
  BY DEF Settled
<1>6. Keeps(c, u, m)
  <2>1. /\ \A i \in 1..Len(u.queue) : u.queue[i].n \in MadeIn(c, m)
        /\ \A i, j \in 1..Len(u.queue) : i < j => u.queue[i].n < u.queue[j].n
        /\ u.resynced => u.queue = <<>>
    BY <1>1, <1>3 DEF KeptTab, Keeps
  <2>2. CASE u.submit = t.submit
    BY <1>1, <2>1, <2>2 DEF KeptTab, Keeps, Sending
  <2>3. CASE u.submit # t.submit
    BY <1>2, <1>4, <2>1, <2>3 DEF Keeps, Sending, Settled
  <2> QED
    BY <2>2, <2>3
<1>7. Replies(u, box2)
  BY <1>2, <1>5 DEF KeptTab, Replies, SameReplies
<1>8. InOrder(c, u, s, m)
  BY <1>1 DEF KeptTab, InOrder, QueuedIn
<1>9. ASSUME network = "http" PROVE OnceOnly(c, u, box2, s)
  <2>1. OnceOnly(c, t, box, s)
    BY <1>9 DEF KeptTab
  <2>2. ASSUME NEW i \in 1..Len(u.queue), LoggedIn(c, s, u.queue[i].n) # {}
        PROVE  /\ u.submit.phase = "answered" /\ u.queue[i] = u.submit.op
               /\ \E j \in 1..Len(box2) : box2[j].kind = "accepted"
    <3>1. u.queue = t.queue
      BY <1>1, <1>3, <2>2
    <3>2. /\ t.submit.phase = "answered" /\ t.queue[i] = t.submit.op
          /\ \E j \in 1..Len(box) : box[j].kind = "accepted"
      BY <2>1, <2>2, <3>1 DEF OnceOnly
    <3> QED
      BY <1>2, <1>5, <3>1, <3>2 DEF SameReplies
  <2>3. u.submit.phase = "asked" => LoggedIn(c, s, u.submit.op.n) = {}
    <3>1. CASE u.submit = t.submit
      BY <2>1, <3>1 DEF OnceOnly
    <3>2. CASE u.submit # t.submit
      <4>1. u.submit.phase = "asked" => u.submit.op = u.queue[1] /\ 1 \in 1..Len(u.queue)
        BY <1>2, <1>4, <3>2 DEF Settled
      <4> QED
        BY <2>2, <4>1
    <3> QED
      BY <3>1, <3>2
  <2> QED
    BY <2>2, <2>3 DEF OnceOnly
<1> QED
  BY <1>6, <1>7, <1>8, <1>9 DEF KeptTab

(* A tab out of the room has made no claim to anything. *)
LEMMA OutsideKept ==
  ASSUME NEW c, NEW t, NEW box, NEW s, NEW saved, NEW member,
         TabFits(c, t, box, s, saved, member), ~t.room, NEW r, NEW m, NEW network
  PROVE  KeptTab(c, t, box, r, m, network)
<1>1. t.queue = <<>> /\ t.submit.phase = "idle" /\ ~t.resynced /\ 1..Len(<<>>) = {}
  BY DEF TabFits, Linked
<1>2. \A i \in 1..Len(box) : box[i].kind \notin Reply2
  BY DEF TabFits, Fits, Reply2
<1>3. Keeps(c, t, m)
  BY <1>1 DEF Keeps, Sending
<1>4. Replies(t, box)
  BY <1>2 DEF Replies, OneReply
<1>5. OnceOnly(c, t, box, r)
  BY <1>1 DEF OnceOnly
<1> QED
  BY <1>3, <1>4, <1>5 DEF KeptTab, InOrder

(* Somebody else's entry is logged. *)
LEMMA OtherLogged ==
  ASSUME NEW c, NEW s \in Seq(SlotSet), NEW e \in SlotSet, e.client # c, NEW n
  PROVE  LoggedIn(c, Append(s, e), n) = LoggedIn(c, s, n)
<1>1. /\ Len(Append(s, e)) = Len(s) + 1 /\ Append(s, e)[Len(s) + 1] = e /\ Len(s) \in Nat
      /\ \A i \in 1..Len(s) : Append(s, e)[i] = s[i]
  OBVIOUS
<1>2. \A i \in 1..(Len(s) + 1) : i \in 1..Len(s) \/ i = Len(s) + 1
  BY <1>1
<1>3. 1..Len(s) \subseteq 1..(Len(s) + 1)
  BY <1>1
<1> QED
  BY <1>1, <1>2, <1>3 DEF LoggedIn

(* An entry of the tab's own is logged. *)
LEMMA OwnLogged ==
  ASSUME NEW c, NEW s \in Seq(SlotSet), NEW e \in SlotSet, e.client = c, NEW n
  PROVE  LoggedIn(c, Append(s, e), n)
           = LoggedIn(c, s, n) \cup (IF e.ops.n = n THEN {Len(s) + 1} ELSE {})
<1>1. /\ Len(Append(s, e)) = Len(s) + 1 /\ Append(s, e)[Len(s) + 1] = e /\ Len(s) \in Nat
      /\ \A i \in 1..Len(s) : Append(s, e)[i] = s[i]
  OBVIOUS
<1>2. \A i \in 1..(Len(s) + 1) : i \in 1..Len(s) \/ i = Len(s) + 1
  BY <1>1
<1>3. 1..Len(s) \subseteq 1..(Len(s) + 1) /\ Len(s) + 1 \in 1..(Len(s) + 1)
  BY <1>1
<1> QED
  BY <1>1, <1>2, <1>3 DEF LoggedIn

(* Somebody else's entry changes nothing of a tab's own edits. *)
LEMMA OtherKeeps ==
  ASSUME NEW c, NEW t, NEW box, NEW s \in Seq(SlotSet), NEW m, NEW network,
         KeptTab(c, t, box, s, m, network), NEW e \in SlotSet, e.client # c
  PROVE  KeptTab(c, t, box, Append(s, e), m, network)
<1>1. \A n : LoggedIn(c, Append(s, e), n) = LoggedIn(c, s, n)
  BY OtherLogged
<1> QED
  BY <1>1 DEF KeptTab, InOrder, OnceOnly

(* Nor does somebody else's edit. *)
LEMMA OthersEditKeeps ==
  ASSUME NEW c, NEW t, NEW box, NEW s, NEW m \in Seq(Tabs), NEW network,
         KeptTab(c, t, box, s, m, network), NEW d \in Tabs, d # c
  PROVE  KeptTab(c, t, box, s, Append(m, d), network)
<1>1. /\ Len(Append(m, d)) = Len(m) + 1 /\ Append(m, d)[Len(m) + 1] = d /\ Len(m) \in Nat
      /\ \A i \in 1..Len(m) : Append(m, d)[i] = m[i]
  OBVIOUS
<1>2. \A i \in 1..(Len(m) + 1) : i \in 1..Len(m) \/ i = Len(m) + 1
  BY <1>1
<1>3. 1..Len(m) \subseteq 1..(Len(m) + 1)
  BY <1>1
<1>4. MadeIn(c, Append(m, d)) = MadeIn(c, m)
  BY <1>1, <1>2, <1>3 DEF MadeIn
<1> QED
  BY <1>4 DEF KeptTab, Keeps, InOrder

(* Every logged edit was made by the tab it is logged for. *)
SlotsMade(s, m) ==
  \A i \in 1..Len(s) : IsOp(s[i]) => s[i].ops.n \in 1..Len(m) /\ m[s[i].ops.n] = s[i].client

NoneTwice(s) ==
  \A i, j \in 1..Len(s) : IsOp(s[i]) /\ IsOp(s[j]) /\ s[i].ops.n = s[j].ops.n => i = j

(* An edit of the tab is queued behind the others. *)
LEMMA EditKeeps ==
  ASSUME NEW c \in Tabs, NEW t, NEW u, NEW box, NEW s, NEW m \in Seq(Tabs), NEW network,
         KeptTab(c, t, box, s, m, network), IsTab(t), IsTab(u), SlotsMade(s, m),
         NEW op \in OpSet, op.n = Len(m) + 1, ~t.resynced, u.resynced = t.resynced,
         u.queue = Append(t.queue, op), Submits(t, u), t.room
  PROVE  KeptTab(c, u, box, s, Append(m, c), network)
<1> DEFINE r == Append(m, c)
           q == t.queue
           v == u.queue
           k == Len(q)
<1>1. /\ Len(r) = Len(m) + 1 /\ r[Len(m) + 1] = c /\ Len(m) \in Nat
      /\ \A i \in 1..Len(m) : r[i] = m[i]
  OBVIOUS
<1>2. \A i \in 1..(Len(m) + 1) : i \in 1..Len(m) \/ i = Len(m) + 1
  BY <1>1
<1>3. 1..Len(m) \subseteq 1..(Len(m) + 1) /\ Len(m) + 1 \in 1..(Len(m) + 1)
  BY <1>1
<1>4. MadeIn(c, r) = MadeIn(c, m) \cup {Len(m) + 1}
  BY <1>1, <1>2, <1>3 DEF MadeIn
<1>5. \A n \in MadeIn(c, m) : n \in Nat /\ n < Len(m) + 1
  BY <1>1 DEF MadeIn
<1>6. /\ q \in Seq(OpSet) /\ k \in Nat /\ v \in Seq(OpSet) /\ Len(v) = k + 1 /\ v[k + 1] = op
      /\ \A i \in 1..k : v[i] = q[i]
  BY DEF IsTab
<1>7. v # <<>> /\ Head(v) = v[1] /\ 1 \in 1..Len(v)
  <2>1. v # <<>>
    BY <1>6
  <2> QED
    BY <1>6, <2>1, HeadFirst
<1>8. q # <<>> => Head(q) = q[1] /\ 1 \in 1..k
  BY <1>6, HeadFirst
<1>9. \A i \in 1..(k + 1) : i \in 1..k \/ i = k + 1
  BY <1>6
<1>10. 1..k \subseteq 1..(k + 1) /\ k + 1 \in 1..(k + 1)
  BY <1>6
<1> HIDE DEF r, q, v, k
<1>11. /\ \/ u.submit = t.submit
          \/ /\ Settled(t)
             /\ Settled(u) \/ (u.submit.phase = "asked" /\ u.submit.op = Head(v))
  BY DEF Submits, v
<1>12. LoggedIn(c, s, op.n) = {}
  <2> SUFFICES ASSUME NEW i \in LoggedIn(c, s, op.n) PROVE FALSE
    OBVIOUS
  <2>1. i \in 1..Len(s) /\ s[i].client = c /\ s[i].ops.n = Len(m) + 1
    BY DEF LoggedIn
  <2>2. IsOp(s[i])
    BY <2>1, SheetAssumption DEF IsOp
  <2>3. Len(m) + 1 \in 1..Len(m)
    BY <2>1, <2>2 DEF SlotsMade
  <2> QED
    BY <1>1, <2>3
<1>13. /\ \A i \in 1..k : q[i].n \in MadeIn(c, m)
       /\ \A i, j \in 1..k : i < j => q[i].n < q[j].n
       /\ Sending(t) => t.submit.op.n \in MadeIn(c, m) /\ q # <<>> /\ t.submit.op = Head(q)
  BY DEF KeptTab, Keeps, q, k
<1>14. Keeps(c, u, r)
  <2>1. \A i \in 1..Len(v) : v[i].n \in MadeIn(c, r)
    BY <1>4, <1>6, <1>9, <1>13
  <2>2. ASSUME NEW i \in 1..Len(v), NEW j \in 1..Len(v), i < j PROVE v[i].n < v[j].n
    <3>1. i \in 1..k
      BY <1>6, <2>2
    <3>2. CASE j \in 1..k
      BY <1>6, <1>13, <2>2, <3>1, <3>2
    <3>3. CASE j = k + 1
      BY <1>5, <1>6, <1>13, <3>1, <3>3
    <3> QED
      BY <1>6, <1>9, <3>2, <3>3
  <2>3. Sending(u) => u.submit.op.n \in MadeIn(c, r) /\ u.submit.op = Head(v)
    <3>1. CASE u.submit = t.submit
      BY <1>4, <1>6, <1>7, <1>8, <1>13, <3>1 DEF Sending
    <3>2. CASE u.submit # t.submit
      BY <1>7, <1>11, <2>1, <3>2 DEF Sending, Settled
    <3> QED
      BY <3>1, <3>2
  <2> QED
    BY <1>7, <2>1, <2>2, <2>3 DEF Keeps, v
<1>15. Replies(u, box)
  BY <1>11 DEF KeptTab, Replies, Settled
<1>16. InOrder(c, u, s, r)
  <2> SUFFICES ASSUME NEW n \in MadeIn(c, r)
               PROVE  /\ LoggedIn(c, s, n) # {} \/ QueuedIn(u, n)
                      /\ \A i \in LoggedIn(c, s, n), l \in MadeIn(c, r) :
                           l < n => \E j \in LoggedIn(c, s, l) : j < i
    BY DEF InOrder
  <2>1. InOrder(c, t, s, m)
    BY DEF KeptTab
  <2>2. CASE n = Len(m) + 1
    <3>1. QueuedIn(u, n)
      BY <1>6, <1>10, <2>2 DEF QueuedIn, v
    <3> QED
      BY <1>12, <2>2, <3>1
  <2>3. CASE n \in MadeIn(c, m)
    <3>1. \A l \in MadeIn(c, r) : l < n => l \in MadeIn(c, m)
      BY <1>1, <1>4, <1>5, <2>3
    <3>2. QueuedIn(t, n) => QueuedIn(u, n)
      BY <1>6, <1>10 DEF QueuedIn, v, q, k
    <3> QED
      BY <2>1, <2>3, <3>1, <3>2 DEF InOrder
  <2> QED
    BY <1>4, <2>2, <2>3
<1>17. ASSUME network = "http" PROVE OnceOnly(c, u, box, s)
  <2>1. OnceOnly(c, t, box, s)
    BY <1>17 DEF KeptTab
  <2>2. ASSUME NEW i \in 1..Len(v), LoggedIn(c, s, v[i].n) # {}
        PROVE  /\ u.submit.phase = "answered" /\ v[i] = u.submit.op
               /\ \E j \in 1..Len(box) : box[j].kind = "accepted"
    <3>1. i \in 1..k
      BY <1>6, <1>9, <1>12, <2>2
    <3>2. /\ t.submit.phase = "answered" /\ q[i] = t.submit.op
          /\ \E j \in 1..Len(box) : box[j].kind = "accepted"
      BY <1>6, <2>1, <2>2, <3>1 DEF OnceOnly, q, k
    <3> QED
      BY <1>6, <1>11, <3>1, <3>2 DEF Settled
  <2>3. u.submit.phase = "asked" => LoggedIn(c, s, u.submit.op.n) = {}
    <3>1. CASE u.submit = t.submit
      BY <2>1, <3>1 DEF OnceOnly
    <3>2. CASE u.submit # t.submit
      BY <1>7, <1>11, <2>2, <3>2 DEF Settled
    <3> QED
      BY <3>1, <3>2
  <2> QED
    BY <2>2, <2>3 DEF OnceOnly, v
<1> QED
  BY <1>14, <1>15, <1>16, <1>17 DEF KeptTab, r

(* HubAccepts: the edit sent is logged and an acknowledgement is on its way. *)
LEMMA AcceptKeeps ==
  ASSUME NEW c \in Tabs, NEW t, NEW u, NEW box \in Seq(Messages), NEW s \in Seq(SlotSet),
         NEW m \in Seq(Tabs), NEW network, KeptTab(c, t, box, s, m, network),
         IsTab(t), Submitted(t, u), t.submit.phase = "asked",
         NEW e \in SlotSet, e.client = c, e.ops = t.submit.op,
         NEW a \in Messages, a.kind = "accepted", a.entry = e
  PROVE  KeptTab(c, u, Append(box, a), Append(s, e), m, network)
<1> DEFINE r == Append(s, e)
           b == Append(box, a)
           k == Len(box)
           p == Len(s)
           op == t.submit.op
<1>1. /\ k \in Nat /\ Len(b) = k + 1 /\ b[k + 1] = a /\ \A i \in 1..k : b[i] = box[i]
  <2>1. \A f \in Seq(Messages), x \in Messages :
          /\ Len(f) \in Nat /\ Len(Append(f, x)) = Len(f) + 1 /\ Append(f, x)[Len(f) + 1] = x
          /\ \A i \in 1..Len(f) : Append(f, x)[i] = f[i]
    <3> HIDE DEF Messages
    <3> QED
      OBVIOUS
  <2> QED
    BY <2>1
<1>2. \A i \in 1..(k + 1) : i \in 1..k \/ i = k + 1
  BY <1>1
<1>3. k + 1 \in 1..(k + 1)
  BY <1>1
<1>4. /\ u.submit.phase = "answered" /\ u.submit.op = op /\ u.queue = t.queue
      /\ u.resynced = t.resynced /\ u.room = t.room
  BY DEF Submitted, SamePlace
<1>5. \A i \in 1..k : box[i].kind \notin Reply2
  BY DEF KeptTab, Replies
<1>6. Keeps(c, t, m) /\ op.n \in MadeIn(c, m)
      /\ (~t.resynced => t.queue # <<>> /\ op = t.queue[1] /\ 1 \in 1..Len(t.queue))
  <2>1. Keeps(c, t, m) /\ t.queue \in Seq(OpSet)
    BY DEF KeptTab, IsTab
  <2> QED
    BY <2>1, HeadFirst DEF Keeps, Sending
<1>7. \A n : LoggedIn(c, r, n) = LoggedIn(c, s, n) \cup (IF op.n = n THEN {p + 1} ELSE {})
  BY OwnLogged
<1>8. p \in Nat /\ \A n : \A i \in LoggedIn(c, s, n) : i \in 1..p /\ i < p + 1
  BY DEF LoggedIn
<1>9. MadeIn(c, m) \subseteq Nat
  BY DEF MadeIn
<1>10. ~t.resynced => \A i \in 1..Len(t.queue) : t.queue[i].n >= op.n /\ (t.queue[i].n = op.n => i = 1)
  <2> SUFFICES ASSUME ~t.resynced, NEW i \in 1..Len(t.queue)
               PROVE  t.queue[i].n >= op.n /\ (t.queue[i].n = op.n => i = 1)
    OBVIOUS
  <2>1. CASE i = 1
    BY <1>6, <1>9, <2>1
  <2>2. CASE i # 1
    <3>1. 1 < i
      BY <2>2
    <3>2. t.queue[1].n < t.queue[i].n /\ t.queue[i].n \in Nat /\ t.queue[1].n \in Nat
      BY <1>6, <1>9, <3>1 DEF Keeps
    <3> QED
      BY <1>6, <3>2
  <2> QED
    BY <2>1, <2>2
<1> HIDE DEF r, b, k, p
<1>11. Keeps(c, u, m)
  BY <1>4, <1>6 DEF Keeps, Sending
<1>12. Replies(u, b)
  <2>1. OneReply(b)
    BY <1>1, <1>2, <1>5 DEF OneReply
  <2>2. \A i \in 1..Len(b) : b[i].kind \in Reply2 => b[i] = a
    BY <1>1, <1>2, <1>5
  <2> QED
    BY <1>4, <2>1, <2>2 DEF Replies
<1>13. InOrder(c, u, r, m)
  <2> SUFFICES ASSUME u.room, ~u.resynced, NEW n \in MadeIn(c, m)
               PROVE  /\ LoggedIn(c, r, n) # {} \/ QueuedIn(u, n)
                      /\ \A i \in LoggedIn(c, r, n), l \in MadeIn(c, m) :
                           l < n => \E j \in LoggedIn(c, r, l) : j < i
    BY DEF InOrder
  <2>1. /\ \A x \in MadeIn(c, m) : LoggedIn(c, s, x) # {} \/ QueuedIn(t, x)
        /\ \A i \in LoggedIn(c, s, n), l \in MadeIn(c, m) :
             l < n => \E j \in LoggedIn(c, s, l) : j < i
    BY <1>4 DEF KeptTab, InOrder
  <2>2. LoggedIn(c, r, n) # {} \/ QueuedIn(u, n)
    BY <1>4, <1>7, <2>1 DEF QueuedIn
  <2>3. ASSUME NEW i \in LoggedIn(c, r, n), NEW l \in MadeIn(c, m), l < n
        PROVE  \E j \in LoggedIn(c, r, l) : j < i
    <3>1. CASE i \in LoggedIn(c, s, n)
      BY <1>7, <2>1, <2>3, <3>1
    <3>2. CASE i \notin LoggedIn(c, s, n)
      <4>1. i = p + 1 /\ n = op.n
        BY <1>7, <2>3, <3>2
      <4>2. ~QueuedIn(t, l)
        BY <1>4, <1>9, <1>10, <2>3, <4>1 DEF QueuedIn
      <4>3. PICK j \in LoggedIn(c, s, l) : TRUE
        BY <2>1, <4>2
      <4> QED
        BY <1>7, <1>8, <4>1, <4>3
    <3> QED
      BY <3>1, <3>2
  <2> QED
    BY <2>2, <2>3
<1>14. ASSUME network = "http" PROVE OnceOnly(c, u, b, r)
  <2>1. OnceOnly(c, t, box, s)
    BY <1>14 DEF KeptTab
  <2>2. ASSUME NEW i \in 1..Len(t.queue), LoggedIn(c, r, t.queue[i].n) # {}
        PROVE  t.queue[i] = op
    <3>1. LoggedIn(c, s, t.queue[i].n) = {}
      BY <2>1, <2>2 DEF OnceOnly
    <3>2. t.queue[i].n = op.n
      BY <1>7, <2>2, <3>1
    <3>3. ~t.resynced
      <4>1. 1..Len(<<>>) = {}
        OBVIOUS
      <4> QED
        BY <1>6, <2>2, <4>1 DEF Keeps
    <3> QED
      BY <1>6, <1>10, <3>2, <3>3
  <2>3. \E j \in 1..Len(b) : b[j].kind = "accepted"
    BY <1>1, <1>3
  <2> QED
    BY <1>4, <2>2, <2>3 DEF OnceOnly
<1> QED
  BY <1>11, <1>12, <1>13, <1>14 DEF KeptTab, b, r

(* HubRefuses: the edit sent is not logged and the tab is told so. *)
LEMMA RefuseKeeps ==
  ASSUME NEW c, NEW t, NEW u, NEW box \in Seq(Messages), NEW s, NEW m, NEW network,
         KeptTab(c, t, box, s, m, network), Submitted(t, u),
         t.submit.phase \in {"asked", "lost"},
         NEW a \in Messages, a.kind \in {"refused", "stale"}
  PROVE  KeptTab(c, u, Append(box, a), s, m, network)
<1> DEFINE b == Append(box, a)
           k == Len(box)
<1>1. /\ k \in Nat /\ Len(b) = k + 1 /\ b[k + 1] = a /\ \A i \in 1..k : b[i] = box[i]
  <2>1. \A f \in Seq(Messages), x \in Messages :
          /\ Len(f) \in Nat /\ Len(Append(f, x)) = Len(f) + 1 /\ Append(f, x)[Len(f) + 1] = x
          /\ \A i \in 1..Len(f) : Append(f, x)[i] = f[i]
    <3> HIDE DEF Messages
    <3> QED
      OBVIOUS
  <2> QED
    BY <2>1
<1>2. \A i \in 1..(k + 1) : i \in 1..k \/ i = k + 1
  BY <1>1
<1>3. /\ u.submit.phase = "answered" /\ u.submit.op = t.submit.op /\ u.queue = t.queue
      /\ u.resynced = t.resynced /\ u.room = t.room
  BY DEF Submitted, SamePlace
<1>4. t.submit.phase # "answered"
  OBVIOUS
<1>5. \A i \in 1..k : box[i].kind \notin Reply2
  BY <1>4 DEF KeptTab, Replies
<1> HIDE DEF b, k
<1>6. Keeps(c, u, m) /\ InOrder(c, u, s, m)
  BY <1>3 DEF KeptTab, Keeps, Sending, InOrder, QueuedIn
<1>7. Replies(u, b)
  <2>1. OneReply(b)
    BY <1>1, <1>2, <1>5 DEF OneReply
  <2>2. \A i \in 1..Len(b) : b[i].kind \in Reply2 => b[i] = a
    BY <1>1, <1>2, <1>5
  <2>3. a.kind # "accepted"
    OBVIOUS
  <2> QED
    BY <1>3, <2>1, <2>2, <2>3 DEF Replies
<1>8. ASSUME network = "http" PROVE OnceOnly(c, u, b, s)
  <2>1. OnceOnly(c, t, box, s)
    BY <1>8 DEF KeptTab
  <2>2. u.submit.phase # "asked"
    BY <1>3
  <2> QED
    BY <1>3, <1>4, <2>1, <2>2 DEF OnceOnly
<1> QED
  BY <1>6, <1>7, <1>8 DEF KeptTab, b

(* The tab learns what became of the edit it sent. *)
LEMMA ReplyKeeps ==
  ASSUME NEW c, NEW t, NEW u, NEW box \in Seq(Messages), NEW k \in 1..Len(box), NEW s,
         NEW m, NEW network, KeptTab(c, t, box, s, m, network), IsTab(t), IsTab(u),
         box[k].kind \in Reply2, Proceeds(u), u.resynced = t.resynced, u.room => t.room,
         u.queue = IF box[k].kind = "accepted" THEN Shift(t.queue) ELSE t.queue,
         box[k].kind = "accepted" => /\ box[k].entry.client = c
                                     /\ \E i \in 1..Len(s) : s[i] = box[k].entry
  PROVE  KeptTab(c, u, RemoveAt(box, k), s, m, network)
<1> DEFINE b == RemoveAt(box, k)
           q == t.queue
           v == u.queue
           p == Len(box)
<1>1. b \in Seq(Messages) /\ Len(b) = p - 1
      /\ \A j \in 1..(p - 1) : b[j] = IF j < k THEN box[j] ELSE box[j + 1]
  BY RemoveElements
<1>2. p \in Nat
  <2>1. \A f \in Seq(Messages) : Len(f) \in Nat
    <3> HIDE DEF Messages
    <3> QED
      OBVIOUS
  <2> QED
    BY <2>1
<1>3. /\ t.submit.phase = "answered" /\ OneReply(box)
      /\ box[k].kind = "accepted" => box[k].entry.ops = t.submit.op
  BY DEF KeptTab, Replies
<1>4. \A j \in 1..Len(b) : b[j].kind \notin Reply2
  <2> SUFFICES ASSUME NEW j \in 1..Len(b), b[j].kind \in Reply2 PROVE FALSE
    OBVIOUS
  <2>1. CASE j < k
    <3>1. j \in 1..p /\ b[j] = box[j] /\ j # k /\ j \in 1..(p - 1)
      BY <1>1, <1>2, <2>1
    <3> QED
      BY <1>3, <3>1 DEF OneReply, p
  <2>2. CASE ~(j < k)
    <3>1. j + 1 \in 1..p /\ b[j] = box[j + 1] /\ j + 1 # k
      BY <1>1, <1>2, <2>2
    <3> QED
      BY <1>3, <3>1 DEF OneReply, p
  <2> QED
    BY <2>1, <2>2
<1>5. /\ q \in Seq(OpSet) /\ Len(q) \in Nat
      /\ q # <<>> => /\ Head(q) = q[1] /\ 1 \in 1..Len(q)
                     /\ Len(Tail(q)) = Len(q) - 1
                     /\ \A i \in 1..(Len(q) - 1) : Tail(q)[i] = q[i + 1]
  <2>1. q \in Seq(OpSet)
    BY DEF IsTab
  <2> QED
    BY <2>1, HeadFirst
<1>6. Keeps(c, t, m) /\ InOrder(c, t, s, m) /\ (network = "http" => OnceOnly(c, t, box, s))
  BY DEF KeptTab
<1>7. v \in Seq(OpSet) /\ 1..Len(<<>>) = {} /\ (v # <<>> => Head(v) = v[1] /\ 1 \in 1..Len(v))
  <2>1. v \in Seq(OpSet)
    BY DEF IsTab
  <2> QED
    BY <2>1, HeadFirst
<1>8. /\ t.submit.op.n \in MadeIn(c, m)
      /\ ~t.resynced => q # <<>> /\ t.submit.op = q[1]
  BY <1>3, <1>5, <1>6 DEF Keeps, Sending
<1>9. \A i \in 1..Len(q) : q[i].n \in Nat
  BY <1>6 DEF Keeps, MadeIn
<1>10. CASE box[k].kind # "accepted"
  <2>1. v = q
    BY <1>10
  <2>2. Keeps(c, u, m)
    BY <1>6, <1>7, <2>1 DEF Keeps, Proceeds, Settled, Sending
  <2>3. Replies(u, b)
    BY <1>4 DEF Replies, OneReply
  <2>4. InOrder(c, u, s, m)
    BY <1>6, <2>1 DEF InOrder, QueuedIn
  <2>5. ASSUME network = "http" PROVE OnceOnly(c, u, b, s)
    <3>1. ASSUME NEW i \in 1..Len(q) PROVE LoggedIn(c, s, q[i].n) = {}
      <4> SUFFICES ASSUME LoggedIn(c, s, q[i].n) # {} PROVE FALSE
        OBVIOUS
      <4>1. PICK j \in 1..Len(box) : box[j].kind = "accepted"
        BY <1>6, <2>5 DEF OnceOnly
      <4>2. j = k
        BY <1>3, <4>1 DEF OneReply, Reply2
      <4> QED
        BY <1>10, <4>1, <4>2
    <3>2. u.submit.phase = "asked" => LoggedIn(c, s, u.submit.op.n) = {}
      BY <1>7, <2>1, <3>1 DEF Proceeds, Settled
    <3> QED
      BY <2>1, <3>1, <3>2 DEF OnceOnly
  <2> QED
    BY <2>2, <2>3, <2>4, <2>5 DEF KeptTab, b
<1>11. CASE box[k].kind = "accepted"
  <2>1. v = IF q = <<>> THEN q ELSE Tail(q)
    BY <1>11 DEF Shift
  <2>2. PICK x \in 1..Len(s) : s[x].client = c /\ s[x].ops = t.submit.op
    BY <1>3, <1>11
  <2>3. /\ Len(q) > 0 => Len(v) = Len(q) - 1
        /\ \A i \in 1..Len(v) : i + 1 \in 1..Len(q) /\ v[i] = q[i + 1] /\ 1 \in 1..Len(q) /\ 1 < i + 1
    <3> DEFINE n == Len(q)
               w == Len(v)
    <3>1. n \in Nat /\ w \in Nat
      <4>1. \A f \in Seq(OpSet) : Len(f) \in Nat
        OBVIOUS
      <4> QED
        BY <1>5, <1>7, <4>1
    <3>2. q = <<>> => n = 0 /\ w = 0
      <4>1. Len(<<>>) = 0
        OBVIOUS
      <4> QED
        BY <2>1, <4>1, Zenon
    <3>3. q # <<>> => /\ v = Tail(q) /\ 1 \in 1..n /\ w = n - 1
                      /\ \A i \in 1..(n - 1) : v[i] = q[i + 1]
      BY <1>5, <2>1, Zenon
    <3> HIDE DEF n, w, v
    <3>4. n > 0 => w = n - 1
      BY <3>1, <3>2, <3>3
    <3>5. ASSUME NEW i \in 1..w
          PROVE  i + 1 \in 1..n /\ v[i] = q[i + 1] /\ 1 \in 1..n /\ 1 < i + 1
      <4>1. q # <<>>
        BY <3>1, <3>2
      <4> QED
        BY <3>1, <3>3, <4>1
    <3> QED
      BY <3>4, <3>5 DEF n, w
  <2> HIDE DEF v
  <2>4. Keeps(c, u, m)
    <3>1. \A i \in 1..Len(v) : v[i].n \in MadeIn(c, m)
      BY <1>6, <2>3 DEF Keeps
    <3>2. ASSUME NEW i \in 1..Len(v), NEW j \in 1..Len(v), i < j PROVE v[i].n < v[j].n
      <4>1. i + 1 \in 1..Len(q) /\ j + 1 \in 1..Len(q) /\ i + 1 < j + 1
        BY <2>3, <3>2
      <4> QED
        BY <1>6, <2>3, <4>1 DEF Keeps
    <3>3. u.resynced => v = <<>>
      BY <1>6, <2>1 DEF Keeps
    <3>4. Sending(u) => u.submit.op.n \in MadeIn(c, m) /\ v # <<>> /\ u.submit.op = Head(v)
      BY <1>7, <3>1 DEF Sending, Proceeds, Settled, v
    <3> QED
      BY <3>1, <3>2, <3>3, <3>4 DEF Keeps, v
  <2>5. Replies(u, b)
    BY <1>4 DEF Replies, OneReply
  <2>6. InOrder(c, u, s, m)
    <3> SUFFICES ASSUME u.room, ~u.resynced, NEW n \in MadeIn(c, m)
                 PROVE  /\ LoggedIn(c, s, n) # {} \/ QueuedIn(u, n)
                        /\ \A i \in LoggedIn(c, s, n), l \in MadeIn(c, m) :
                             l < n => \E j \in LoggedIn(c, s, l) : j < i
      BY DEF InOrder
    <3>1. /\ LoggedIn(c, s, n) # {} \/ QueuedIn(t, n)
          /\ \A i \in LoggedIn(c, s, n), l \in MadeIn(c, m) :
               l < n => \E j \in LoggedIn(c, s, l) : j < i
      BY <1>6 DEF InOrder
    <3>2. ASSUME QueuedIn(t, n) PROVE LoggedIn(c, s, n) # {} \/ QueuedIn(u, n)
      <4>1. PICK i \in 1..Len(q) : q[i].n = n
        BY <3>2 DEF QueuedIn
      <4>2. CASE i = 1
        <5>1. x \in LoggedIn(c, s, n)
          BY <1>8, <2>2, <4>1, <4>2 DEF LoggedIn
        <5> QED
          BY <5>1
      <4>3. CASE i # 1
        <5>1. q # <<>>
          BY <1>8
        <5>2. i - 1 \in 1..(Len(q) - 1) /\ (i - 1) + 1 = i
          BY <4>3
        <5>3. Tail(q)[i - 1] = q[i] /\ v = Tail(q) /\ Len(v) = Len(q) - 1
          BY <1>5, <2>1, <5>1, <5>2
        <5> QED
          BY <4>1, <5>2, <5>3 DEF QueuedIn, v
      <4> QED
        BY <4>2, <4>3
    <3> QED
      BY <3>1, <3>2
  <2>7. ASSUME network = "http" PROVE OnceOnly(c, u, b, s)
    <3>1. ASSUME NEW i \in 1..Len(v) PROVE LoggedIn(c, s, v[i].n) = {}
      <4> SUFFICES ASSUME LoggedIn(c, s, v[i].n) # {} PROVE FALSE
        OBVIOUS
      <4>1. i + 1 \in 1..Len(q) /\ v[i] = q[i + 1] /\ 1 \in 1..Len(q) /\ 1 < i + 1
        BY <2>3
      <4>2. q[i + 1] = t.submit.op
        BY <1>6, <2>7, <4>1 DEF OnceOnly
      <4>3. ~t.resynced
        BY <1>6, <1>7, <4>1 DEF Keeps
      <4>4. q[1].n < q[i + 1].n /\ q[1].n \in Nat
        BY <1>6, <1>9, <4>1 DEF Keeps
      <4> QED
        BY <1>8, <4>2, <4>3, <4>4
    <3>2. u.submit.phase = "asked" => LoggedIn(c, s, u.submit.op.n) = {}
      BY <1>7, <3>1 DEF Proceeds, Settled, v
    <3> QED
      BY <3>1, <3>2 DEF OnceOnly, v
  <2> QED
    BY <2>4, <2>5, <2>6, <2>7 DEF KeptTab, b
<1> QED
  BY <1>10, <1>11

(* A message that is no reply arrives, or is taken. *)
LEMMA RepliesAppended ==
  ASSUME NEW box \in Seq(Messages), NEW a \in Messages, a.kind \notin Reply2
  PROVE  SameReplies(box, Append(box, a))
<1> DEFINE b == Append(box, a)
           k == Len(box)
<1>1. /\ k \in Nat /\ Len(b) = k + 1 /\ b[k + 1] = a /\ \A i \in 1..k : b[i] = box[i]
  <2>1. \A f \in Seq(Messages), x \in Messages :
          /\ Len(f) \in Nat /\ Len(Append(f, x)) = Len(f) + 1 /\ Append(f, x)[Len(f) + 1] = x
          /\ \A i \in 1..Len(f) : Append(f, x)[i] = f[i]
    <3> HIDE DEF Messages
    <3> QED
      OBVIOUS
  <2> QED
    BY <2>1
<1>2. /\ \A i \in 1..(k + 1) : i \in 1..k \/ i = k + 1
      /\ 1..k \subseteq 1..(k + 1)
  BY <1>1
<1> HIDE DEF b
<1>3. \A i \in 1..Len(b) : b[i].kind \in Reply2 => i \in 1..k /\ b[i] = box[i]
  BY <1>1, <1>2
<1>4. OneReply(box) => OneReply(b)
  BY <1>3 DEF OneReply, k
<1>5. \A j \in 1..Len(b) : b[j].kind \in Reply2 => \E i \in 1..Len(box) : box[i] = b[j]
  BY <1>3 DEF k
<1>6. \A i \in 1..Len(box) : box[i].kind = "accepted" => \E j \in 1..Len(b) : b[j] = box[i]
  BY <1>1, <1>2 DEF k
<1>7. SameReplies(box, b)
  BY <1>4, <1>5, <1>6 DEF SameReplies
<1> QED
  BY <1>7 DEF b

(* A message that is no reply is taken from the inbox. *)
LEMMA RepliesRemoved ==
  ASSUME NEW box \in Seq(Messages), NEW k \in 1..Len(box), box[k].kind \notin Reply2
  PROVE  SameReplies(box, RemoveAt(box, k))
<1> DEFINE b == RemoveAt(box, k)
           p == Len(box)
<1>1. b \in Seq(Messages) /\ Len(b) = p - 1
      /\ \A j \in 1..(p - 1) : b[j] = IF j < k THEN box[j] ELSE box[j + 1]
  BY RemoveElements
<1>2. p \in Nat /\ k \in 1..p
  <2>1. \A f \in Seq(Messages) : Len(f) \in Nat
    <3> HIDE DEF Messages
    <3> QED
      OBVIOUS
  <2> QED
    BY <2>1
<1> HIDE DEF b
<1>3. \A j \in 1..(p - 1) : /\ j < k => j \in 1..p /\ b[j] = box[j]
                            /\ ~(j < k) => j + 1 \in 1..p /\ b[j] = box[j + 1]
  BY <1>1, <1>2
<1>4. OneReply(box) => OneReply(b)
  <2> SUFFICES ASSUME OneReply(box), NEW i \in 1..(p - 1), NEW j \in 1..(p - 1),
                      b[i].kind \in Reply2, b[j].kind \in Reply2
               PROVE  i = j
    BY <1>1 DEF OneReply
  <2> DEFINE x == IF i < k THEN i ELSE i + 1
             y == IF j < k THEN j ELSE j + 1
  <2>1. x \in 1..p /\ y \in 1..p /\ b[i] = box[x] /\ b[j] = box[y]
    BY <1>3
  <2>2. x = y
    <3> HIDE DEF x, y
    <3> QED
      BY <2>1 DEF OneReply, p
  <2> QED
    BY <1>2, <2>2
<1>5. \A j \in 1..Len(b) : b[j].kind \in Reply2 => \E i \in 1..Len(box) : box[i] = b[j]
  BY <1>1, <1>3 DEF p
<1>6. ASSUME NEW i \in 1..p, box[i].kind = "accepted"
      PROVE  \E j \in 1..(p - 1) : b[j] = box[i]
  <2>1. i # k
    BY <1>6 DEF Reply2
  <2>2. CASE i < k
    <3>1. i \in 1..(p - 1)
      BY <1>2, <2>2
    <3> QED
      BY <1>3, <2>2, <3>1
  <2>3. CASE ~(i < k)
    <3>1. i - 1 \in 1..(p - 1) /\ ~(i - 1 < k) /\ (i - 1) + 1 = i
      BY <1>2, <2>1, <2>3
    <3> QED
      BY <1>3, <3>1
  <2> QED
    BY <2>2, <2>3
<1>7. SameReplies(box, b)
  BY <1>1, <1>4, <1>5, <1>6 DEF SameReplies, p
<1> QED
  BY <1>7 DEF b

(* What is left of the answers when an event stream ends. *)
LEMMA RepliesSifted ==
  ASSUME NEW box, NEW r, Sifts(r, box, Len(box))
  PROVE  SameReplies(box, r)
<1>1. \A i \in 1..Len(box) : box[i].kind = "accepted" => IsAnswer(box[i])
  BY DEF IsAnswer, IsEvent
<1> QED
  BY <1>1 DEF Sifts, SameReplies

(* Only the inbox changes. *)
LEMMA BoxKeeps ==
  ASSUME NEW c, NEW t, NEW box, NEW box2, NEW s, NEW m, NEW network,
         KeptTab(c, t, box, s, m, network), IsTab(t), SameReplies(box, box2)
  PROVE  KeptTab(c, t, box2, s, m, network)
<1>1. Queues(t, t)
  BY DEF Queues, Submits
<1>2. ~t.room \/ t.room
  OBVIOUS
<1> QED
  BY <1>1, <1>2, QueuesKeep

(* The connection is lost: on a socket with every call, else with the events. *)
LEMMA CutKeeps ==
  ASSUME NEW c, NEW t, NEW u, NEW box, NEW box2, NEW s, NEW m, NEW network,
         KeptTab(c, t, box, s, m, network), IsTab(t), IsTab(u),
         Cut(t, u, box, box2, network)
  PROVE  KeptTab(c, u, box2, s, m, network)
<1>1. u.room = t.room /\ u.queue = t.queue /\ u.resynced = t.resynced
  BY DEF Cut
<1>2. CASE network = "socket"
  <2>1. Proceeds(u) /\ box2 = <<>> /\ 1..Len(<<>>) = {}
    BY <1>2 DEF Cut
  <2>2. u.queue # <<>> => Head(u.queue) = u.queue[1] /\ 1 \in 1..Len(u.queue)
    BY HeadFirst DEF IsTab
  <2>3. Keeps(c, u, m)
    BY <1>1, <2>1, <2>2 DEF KeptTab, Keeps, Sending, Proceeds, Settled
  <2>4. Replies(u, box2)
    BY <2>1 DEF Replies, OneReply
  <2>5. InOrder(c, u, s, m)
    BY <1>1 DEF KeptTab, InOrder, QueuedIn
  <2>6. network # "http"
    BY <1>2
  <2> QED
    BY <2>3, <2>4, <2>5, <2>6 DEF KeptTab
<1>3. CASE network # "socket"
  <2>1. SameCall(t, u) /\ SameReplies(box, box2)
    BY <1>3, RepliesSifted DEF Cut
  <2>2. CASE u.submit = t.submit
    <3>1. Queues(t, u)
      BY <1>1, <2>2 DEF Queues, Submits
    <3>2. ~u.room \/ t.room
      BY <1>1
    <3> QED
      BY <2>1, <3>1, <3>2, QueuesKeep
  <2>3. CASE u.submit # t.submit
    <3>1. t.submit.phase = "asked" /\ u.submit.phase = "lost" /\ u.submit.op = t.submit.op
      BY <2>1, <2>3 DEF SameCall
    <3>2. Keeps(c, u, m)
      BY <1>1, <3>1 DEF KeptTab, Keeps, Sending
    <3>3. \A i \in 1..Len(box) : box[i].kind \notin Reply2
      BY <3>1 DEF KeptTab, Replies
    <3>4. \A i \in 1..Len(box2) : box2[i].kind \notin Reply2
      BY <2>1, <3>3 DEF SameReplies
    <3>5. Replies(u, box2)
      BY <3>4 DEF Replies, OneReply
    <3>6. InOrder(c, u, s, m)
      BY <1>1 DEF KeptTab, InOrder, QueuedIn
    <3>7. network = "http" => OnceOnly(c, u, box2, s)
      BY <1>1, <3>1 DEF KeptTab, OnceOnly
    <3> QED
      BY <3>2, <3>5, <3>6, <3>7 DEF KeptTab
  <2> QED
    BY <2>2, <2>3
<1> QED
  BY <1>2, <1>3

(* A tab that is not open, or not in the room for the first time yet, has made no
   edit. *)
Unused(c, t, opens, m) == c \in opens \/ (t.open /\ ~t.room) => MadeIn(c, m) = {}

KeptInv ==
  /\ SlotsMade(slots, made)
  /\ \A c \in Tabs : KeptTab(c, tab[c], inbox[c], slots, made, left.network)
  /\ \A c \in Tabs : Unused(c, tab[c], left.opens, made)
  /\ left.network = "http" => NoneTwice(slots)

(* A step of one tab in which no edit is made or logged. *)
LEMMA OneKept ==
  ASSUME TakenInv', KeptInv, NEW c \in Tabs, made' = made, left'.network = left.network,
         left'.opens \subseteq left.opens,
         \A d \in Tabs : d # c => tab'[d] = tab[d] /\ inbox'[d] = inbox[d],
         slots' = slots \/ (slots' = <<>> /\ \A d \in Tabs : ~tab'[d].room),
         KeptTab(c, tab'[c], inbox'[c], slots, made, left.network),
         tab'[c].open /\ ~tab'[c].room => c \in left.opens \/ (tab[c].open /\ ~tab[c].room)
  PROVE  KeptInv'
<1>1. ASSUME NEW d \in Tabs
      PROVE  KeptTab(d, tab'[d], inbox'[d], slots', made', left'.network)
  <2>1. KeptTab(d, tab'[d], inbox'[d], slots, made, left.network)
    BY DEF KeptInv
  <2>2. ASSUME ~tab'[d].room
        PROVE  KeptTab(d, tab'[d], inbox'[d], slots', made', left'.network)
    <3>1. TabFits(d, tab'[d], inbox'[d], slots', log'.savedSeq, d \in members')
      BY DEF TakenInv, AllFit
    <3> QED
      BY <2>2, <3>1, OutsideKept
  <2> QED
    BY <2>1, <2>2
<1>2. \A d \in Tabs : Unused(d, tab'[d], left'.opens, made')
  BY DEF KeptInv, Unused
<1>3. SlotsMade(slots', made') /\ (left'.network = "http" => NoneTwice(slots'))
  <2>1. 1..Len(<<>>) = {}
    OBVIOUS
  <2>2. SlotsMade(<<>>, made) /\ NoneTwice(<<>>)
    BY <2>1, Zenon DEF SlotsMade, NoneTwice
  <2> QED
    BY <2>2 DEF KeptInv
<1> QED
  BY <1>1, <1>2, <1>3 DEF KeptInv

(* What the invariants say of one tab. *)
LEMMA OneTab ==
  ASSUME TakenInv, KeptInv, NEW c \in Tabs
  PROVE  /\ TabFits(c, tab[c], inbox[c], slots, log.savedSeq, c \in members)
         /\ IsTab(tab[c]) /\ Linked(tab[c], c \in members) /\ inbox[c] \in Seq(Messages)
         /\ KeptTab(c, tab[c], inbox[c], slots, made, left.network)
         /\ Unused(c, tab[c], left.opens, made)
         /\ DOMAIN tab = Tabs /\ DOMAIN inbox = Tabs /\ IsLeft(left)
         /\ made \in Seq(Tabs) /\ slots \in Seq(SlotSet)
         /\ (c \in left.opens => ~tab[c].open)
BY DEF TakenInv, Typed, AllFit, TabFits, KeptInv, LogFits

(* A tab whose submission is answered keeps its place. *)
LEMMA SubmittedOnce ==
  ASSUME NEW t, NEW u, Submitted(t, u)
  PROVE  u.room = t.room /\ u.open = t.open
BY DEF Submitted, SamePlace

(* Deliver keeps the second part of the invariant. *)
LEMMA DeliverKept ==
  ASSUME TakenInv, KeptInv, NEW c \in Tabs, NEW i \in Arriving(c),
         tab' = [tab EXCEPT ![c] = Handle(c, tab[c], inbox[c][i])],
         inbox' = [inbox EXCEPT ![c] = RemoveAt(inbox[c], i)],
         UNCHANGED <<log, members, file, left, slots, ground, made>>
  PROVE  KeptInv'
<1> DEFINE t == tab[c]
           b == inbox[c]
           a == b[i]
           u == tab'[c]
           r == RemoveAt(b, i)
<1>1. /\ TakenInv' /\ Fits(c, t, a, slots, c \in members)
      /\ Handles(c, t, u, a, slots, log.savedSeq, c \in members)
  BY DeliverTaken
<1>2. /\ IsTab(t) /\ Linked(t, c \in members) /\ b \in Seq(Messages)
      /\ KeptTab(c, t, b, slots, made, left.network) /\ Unused(c, t, left.opens, made)
      /\ DOMAIN tab = Tabs /\ DOMAIN inbox = Tabs
  BY OneTab
<1>3. i \in 1..Len(b) /\ inbox'[c] = r
      /\ \A d \in Tabs : d # c => tab'[d] = tab[d] /\ inbox'[d] = inbox[d]
  BY <1>2 DEF Arriving
<1> HIDE DEF u, r
<1>4. /\ IsTab(u) /\ u.open = t.open /\ (t.room => u.room) /\ Ships(t, u, a)
      /\ (u.room => u.open)
  BY <1>1 DEF Handles, Took, Leads, Linked
<1>5. CASE a.kind \in Reply2
  <2>1. /\ Proceeds(u) /\ u.resynced = t.resynced
        /\ u.queue = IF a.kind = "accepted" THEN Shift(t.queue) ELSE t.queue
    BY <1>4, <1>5 DEF Ships
  <2>2. t.room
    BY <1>1, <1>5 DEF Fits, Reply2
  <2>3. a.kind = "accepted" => /\ a.entry.client = c
                               /\ \E j \in 1..Len(slots) : slots[j] = a.entry
    BY <1>1 DEF Fits, Suits
  <2>4. KeptTab(c, u, r, slots, made, left.network)
    BY <1>2, <1>3, <1>4, <1>5, <2>1, <2>2, <2>3, ReplyKeeps DEF r
  <2> QED
    BY <1>1, <1>3, <1>4, <2>2, <2>4, OneKept DEF u
<1>6. CASE a.kind \notin Reply2
  <2>1. Queues(t, u)
    BY <1>4, <1>6 DEF Ships
  <2>2. SameReplies(b, r)
    BY <1>2, <1>3, <1>6, RepliesRemoved DEF r
  <2>3. ~u.room \/ t.room \/ MadeIn(c, made) = {}
    BY <1>2, <1>4 DEF Unused
  <2>4. KeptTab(c, u, r, slots, made, left.network)
    BY <1>2, <1>4, <2>1, <2>2, <2>3, QueuesKeep
  <2> QED
    BY <1>1, <1>3, <1>4, <2>4, OneKept DEF u
<1> QED
  BY <1>5, <1>6

(* Open keeps the second part of the invariant. *)
LEMMA OpenKept ==
  ASSUME TakenInv, KeptInv, NEW c \in Tabs, Open(c)
  PROVE  KeptInv'
<1>1. TakenInv' /\ ~tab'[c].room
  BY OpenTaken
<1>2. DOMAIN tab = Tabs /\ IsLeft(left)
  BY OneTab
<1>3. /\ c \in left.opens /\ left'.network = left.network /\ left'.opens \subseteq left.opens
      /\ UNCHANGED <<inbox, slots, made>> /\ \A d \in Tabs : d # c => tab'[d] = tab[d]
  BY <1>2 DEF Open, IsLeft
<1>4. TabFits(c, tab'[c], inbox'[c], slots', log'.savedSeq, c \in members')
  BY <1>1 DEF TakenInv, AllFit
<1>5. KeptTab(c, tab'[c], inbox'[c], slots, made, left.network)
  BY <1>1, <1>4, OutsideKept
<1> QED
  BY <1>1, <1>3, <1>5, OneKept

(* TimerFires keeps the second part of the invariant. *)
LEMMA TimerKept ==
  ASSUME TakenInv, KeptInv, NEW c \in Tabs, TimerFires(c)
  PROVE  KeptInv'
<1>1. TakenInv' /\ Queues(tab[c], tab'[c]) /\ tab'[c].room = tab[c].room
  BY TimerTaken
<1>2. /\ IsTab(tab[c]) /\ Linked(tab[c], c \in members) /\ DOMAIN tab = Tabs
      /\ KeptTab(c, tab[c], inbox[c], slots, made, left.network)
  BY OneTab
<1>3. /\ UNCHANGED <<left, inbox, slots, made>> /\ tab[c].timer
      /\ \A d \in Tabs : d # c => tab'[d] = tab[d]
  BY <1>2 DEF TimerFires
<1>4. tab[c].room
  BY <1>2, <1>3 DEF Linked
<1>5. IsTab(tab'[c])
  BY <1>1 DEF TakenInv, AllFit, TabFits
<1>6. SameReplies(inbox[c], inbox[c])
  BY DEF SameReplies
<1>7. KeptTab(c, tab'[c], inbox'[c], slots, made, left.network)
  BY <1>1, <1>2, <1>3, <1>4, <1>5, <1>6, QueuesKeep
<1> QED
  BY <1>1, <1>3, <1>4, <1>7, OneKept

(* Reconnect keeps the second part of the invariant. *)
LEMMA ReconnectKept ==
  ASSUME TakenInv, KeptInv, NEW c \in Tabs, Reconnect(c)
  PROVE  KeptInv'
<1>1. TakenInv' /\ Queues(tab[c], tab'[c]) /\ tab'[c].room = tab[c].room
  BY ReconnectTaken
<1>2. /\ IsTab(tab[c]) /\ DOMAIN tab = Tabs
      /\ KeptTab(c, tab[c], inbox[c], slots, made, left.network)
  BY OneTab
<1>3. /\ UNCHANGED <<left, inbox, slots, made>> /\ tab[c].open
      /\ \A d \in Tabs : d # c => tab'[d] = tab[d]
  BY <1>2 DEF Reconnect
<1>4. ~tab'[c].room \/ tab[c].room
  BY <1>1
<1>5. IsTab(tab'[c])
  BY <1>1 DEF TakenInv, AllFit, TabFits
<1>6. SameReplies(inbox[c], inbox[c])
  BY DEF SameReplies
<1>7. KeptTab(c, tab'[c], inbox'[c], slots, made, left.network)
  BY <1>1, <1>2, <1>3, <1>4, <1>5, <1>6, QueuesKeep
<1> QED
  BY <1>1, <1>3, <1>7, OneKept

(* Close keeps the second part of the invariant. *)
LEMMA CloseKept ==
  ASSUME Mishaps = {}, TakenInv, KeptInv, NEW c \in Tabs, Close(c)
  PROVE  KeptInv'
<1>1. /\ TakenInv' /\ ~tab'[c].room
      /\ \A d \in Tabs : d # c => tab'[d] = tab[d] /\ inbox'[d] = inbox[d]
      /\ slots' = slots \/ \A d \in Tabs : ~tab'[d].room /\ d \notin members'
  BY CloseTaken
<1>2. DOMAIN tab = Tabs
  BY OneTab
<1>3. /\ UNCHANGED <<left, made>> /\ tab'[c] = Closed
      /\ slots' = slots \/ slots' = <<>>
  BY <1>2 DEF Close, LeaveRoom
<1>4. ~tab'[c].open
  BY <1>3, ClosedFits
<1>5. TabFits(c, tab'[c], inbox'[c], slots', log'.savedSeq, c \in members')
  BY <1>1 DEF TakenInv, AllFit
<1>6. KeptTab(c, tab'[c], inbox'[c], slots, made, left.network)
  BY <1>1, <1>5, OutsideKept
<1> QED
  BY <1>1, <1>3, <1>4, <1>6, OneKept

(* Drop keeps the second part of the invariant. *)
LEMMA DropKept ==
  ASSUME Mishaps = {}, TakenInv, KeptInv, NEW c \in Tabs, Drop(c)
  PROVE  KeptInv'
<1>1. /\ TakenInv' /\ Cut(tab[c], tab'[c], inbox[c], inbox'[c], left.network)
      /\ \A d \in Tabs : d # c => tab'[d] = tab[d] /\ inbox'[d] = inbox[d]
      /\ slots' = slots \/ \A d \in Tabs : ~tab'[d].room /\ d \notin members'
  BY DropTaken
<1>2. /\ IsTab(tab[c]) /\ IsLeft(left)
      /\ KeptTab(c, tab[c], inbox[c], slots, made, left.network)
  BY OneTab
<1>3. /\ left' = [left EXCEPT !.drops = @ - 1] /\ made' = made /\ LeaveRoom(c)
  BY Zenon DEF Drop
<1>4. left'.network = left.network /\ left'.opens = left.opens
  BY <1>2, <1>3 DEF IsLeft
<1>5. slots' = slots \/ slots' = <<>>
  BY <1>3 DEF LeaveRoom
<1>6. IsTab(tab'[c])
  BY <1>1 DEF TakenInv, AllFit, TabFits
<1>7. KeptTab(c, tab'[c], inbox'[c], slots, made, left.network)
  BY <1>1, <1>2, <1>6, CutKeeps
<1>8. tab'[c].open = tab[c].open /\ tab'[c].room = tab[c].room
  BY <1>1 DEF Cut
<1> QED
  BY <1>1, <1>3, <1>4, <1>5, <1>7, <1>8, OneKept

(* HubJoin keeps the second part of the invariant. *)
LEMMA JoinKept ==
  ASSUME TakenInv, OpensFile, KeptInv, NEW c \in Tabs, HubJoin(c)
  PROVE  KeptInv'
<1> DEFINE a == [kind |-> "joined", savedSeq |-> log.savedSeq]
<1>1. /\ TakenInv' /\ tab'[c].room = tab[c].room /\ tab'[c].queue = tab[c].queue
      /\ tab'[c].submit = tab[c].submit /\ tab'[c].resynced = tab[c].resynced
      /\ inbox'[c] = Append(inbox[c], a)
      /\ \A d \in Tabs : d # c => tab'[d] = tab[d] /\ inbox'[d] = inbox[d]
  BY JoinTaken
<1>2. /\ IsTab(tab[c]) /\ Linked(tab[c], c \in members) /\ inbox[c] \in Seq(Messages)
      /\ KeptTab(c, tab[c], inbox[c], slots, made, left.network)
  BY OneTab
<1>3. /\ tab[c].join.phase = "asked" /\ left' = left /\ slots' = slots /\ made' = made
  BY DEF HubJoin
<1>4. tab[c].open
  BY <1>2, <1>3 DEF Linked
<1>5. a \in Messages /\ a.kind \notin Reply2
  <2>1. log.savedSeq \in Nat
    BY DEF TakenInv, LogFits
  <2> QED
    BY <2>1 DEF Messages, Reply2
<1> HIDE DEF a
<1>6. SameReplies(inbox[c], inbox'[c])
  BY <1>1, <1>2, <1>5, RepliesAppended
<1>7. IsTab(tab'[c]) /\ Queues(tab[c], tab'[c])
  BY <1>1 DEF TakenInv, AllFit, TabFits, Queues, Submits
<1>8. ~tab'[c].room \/ tab[c].room
  BY <1>1
<1>9. KeptTab(c, tab'[c], inbox'[c], slots, made, left.network)
  BY <1>2, <1>6, <1>7, <1>8, QueuesKeep
<1> QED
  BY <1>1, <1>3, <1>4, <1>9, OneKept

(* HubSince keeps the second part of the invariant. *)
LEMMA SinceKept ==
  ASSUME TakenInv, KeptInv, NEW c \in Tabs, HubSince(c)
  PROVE  KeptInv'
<1>1. /\ TakenInv' /\ Queues(tab[c], tab'[c]) /\ tab'[c].room /\ tab[c].room
      /\ \E m \in Messages : inbox'[c] = Append(inbox[c], m) /\ m.kind \in {"since", "failed"}
      /\ \A d \in Tabs : d # c => tab'[d] = tab[d] /\ inbox'[d] = inbox[d]
  BY SinceTaken
<1>2. /\ IsTab(tab[c]) /\ inbox[c] \in Seq(Messages)
      /\ KeptTab(c, tab[c], inbox[c], slots, made, left.network)
  BY OneTab
<1>3. left' = left /\ slots' = slots /\ made' = made
  BY DEF HubSince
<1>4. PICK a \in Messages : inbox'[c] = Append(inbox[c], a) /\ a.kind \in {"since", "failed"}
  BY <1>1
<1>5. a.kind \notin Reply2
  BY <1>4 DEF Reply2
<1>6. SameReplies(inbox[c], inbox'[c])
  BY <1>2, <1>4, <1>5, RepliesAppended
<1>7. IsTab(tab'[c])
  BY <1>1 DEF TakenInv, AllFit, TabFits
<1>8. KeptTab(c, tab'[c], inbox'[c], slots, made, left.network)
  BY <1>1, <1>2, <1>6, <1>7, QueuesKeep
<1> QED
  BY <1>1, <1>3, <1>8, OneKept

(* HubRefuses keeps the second part of the invariant. *)
LEMMA RefusesKept ==
  ASSUME TakenInv, KeptInv, NEW c \in Tabs, HubRefuses(c)
  PROVE  KeptInv'
<1>1. /\ TakenInv' /\ Submitted(tab[c], tab'[c])
      /\ tab[c].submit.phase \in {"asked", "lost"} /\ tab[c].room
      /\ \E k \in {"refused", "stale"} : inbox'[c] = Append(inbox[c], [kind |-> k])
      /\ \A d \in Tabs : d # c => tab'[d] = tab[d] /\ inbox'[d] = inbox[d]
  BY RefusesTaken
<1>2. /\ IsTab(tab[c]) /\ inbox[c] \in Seq(Messages)
      /\ KeptTab(c, tab[c], inbox[c], slots, made, left.network)
  BY OneTab
<1>3. left' = left /\ slots' = slots /\ made' = made
  BY DEF HubRefuses
<1>4. PICK k \in {"refused", "stale"} : inbox'[c] = Append(inbox[c], [kind |-> k])
  BY <1>1
<1> DEFINE a == [kind |-> k]
<1>5. a \in Messages /\ a.kind \in {"refused", "stale"} /\ inbox'[c] = Append(inbox[c], a)
  BY <1>4 DEF Messages
<1> HIDE DEF a
<1>6. KeptTab(c, tab'[c], inbox'[c], slots, made, left.network)
  BY <1>1, <1>2, <1>5, RefuseKeeps
<1>7. tab'[c].room
  BY <1>1, SubmittedOnce
<1> QED
  BY <1>1, <1>3, <1>6, <1>7, OneKept

(* The log grows by an entry nobody's, or of an edit that is not logged yet. *)
LEMMA MadeGrows ==
  ASSUME NEW s \in Seq(SlotSet), NEW m, SlotsMade(s, m), NEW e \in SlotSet,
         IsOp(e) => e.ops.n \in MadeIn(e.client, m)
  PROVE  SlotsMade(Append(s, e), m)
<1>1. /\ Len(Append(s, e)) = Len(s) + 1 /\ Append(s, e)[Len(s) + 1] = e /\ Len(s) \in Nat
      /\ \A i \in 1..Len(s) : Append(s, e)[i] = s[i]
  OBVIOUS
<1>2. \A i \in 1..(Len(s) + 1) : i \in 1..Len(s) \/ i = Len(s) + 1
  BY <1>1
<1> QED
  BY <1>1, <1>2 DEF SlotsMade, MadeIn

(* And no edit is logged twice by it. *)
LEMMA NoneTwiceGrows ==
  ASSUME NEW s \in Seq(SlotSet), NEW m, SlotsMade(s, m), NoneTwice(s), NEW e \in SlotSet,
         IsOp(e) => e.ops.n \in MadeIn(e.client, m) /\ LoggedIn(e.client, s, e.ops.n) = {}
  PROVE  NoneTwice(Append(s, e))
<1> DEFINE r == Append(s, e)
           k == Len(s)
<1>1. /\ Len(r) = k + 1 /\ r[k + 1] = e /\ k \in Nat
      /\ \A i \in 1..k : r[i] = s[i]
  OBVIOUS
<1>2. \A i \in 1..(k + 1) : i \in 1..k \/ i = k + 1
  BY <1>1
<1> HIDE DEF r
<1>3. ASSUME NEW i \in 1..k, IsOp(s[i]), IsOp(e) PROVE s[i].ops.n # e.ops.n
  <2> SUFFICES ASSUME s[i].ops.n = e.ops.n PROVE FALSE
    OBVIOUS
  <2>1. s[i].client = e.client
    BY <1>3 DEF SlotsMade, MadeIn, k
  <2>2. i \in LoggedIn(e.client, s, e.ops.n)
    BY <2>1 DEF LoggedIn, k
  <2> QED
    BY <1>3, <2>2
<1>4. ASSUME NEW i \in 1..(k + 1), NEW j \in 1..(k + 1), IsOp(r[i]), IsOp(r[j]),
             r[i].ops.n = r[j].ops.n
      PROVE  i = j
  <2>1. CASE i \in 1..k /\ j \in 1..k
    BY <1>1, <1>4, <2>1 DEF NoneTwice, k
  <2>2. CASE i \in 1..k /\ j = k + 1
    BY <1>1, <1>3, <1>4, <2>2
  <2>3. CASE i = k + 1 /\ j \in 1..k
    BY <1>1, <1>3, <1>4, <2>3
  <2> QED
    BY <1>2, <2>1, <2>2, <2>3
<1>5. NoneTwice(r)
  BY <1>1, <1>4 DEF NoneTwice
<1> QED
  BY <1>5 DEF r

(* HubAccepts keeps the second part of the invariant. *)
LEMMA AcceptsKept ==
  ASSUME TakenInv, KeptInv, NEW c \in Tabs, HubAccepts(c)
  PROVE  KeptInv'
<1> DEFINE t == tab[c]
           op == t.submit.op
           e == Entry(Len(slots) + 1, c, op)
           a == [kind |-> "accepted", entry |-> e]
<1>1. /\ TakenInv' /\ Submitted(t, tab'[c]) /\ op \in OpSet
      /\ t.submit.phase = "asked" /\ t.room
      /\ slots' = Append(slots, e) /\ inbox'[c] = Append(inbox[c], a)
      /\ \A d \in Tabs : d # c =>
           /\ tab'[d] = tab[d]
           /\ \/ inbox'[d] = inbox[d]
              \/ \E x \in EntrySet : inbox'[d] = Append(inbox[d], [kind |-> "op", entry |-> x])
  BY AcceptsTaken
<1>2. /\ IsTab(t) /\ inbox[c] \in Seq(Messages) /\ slots \in Seq(SlotSet) /\ made \in Seq(Tabs)
      /\ KeptTab(c, t, inbox[c], slots, made, left.network)
  BY OneTab
<1>3. left' = left /\ made' = made
  BY DEF HubAccepts
<1>4. Len(slots) \in Nat
  BY <1>2
<1>5. /\ e \in EntrySet /\ e \in SlotSet /\ e.client = c /\ e.ops = op
      /\ e.client \in Tabs /\ IsOp(e)
  <2>1. e \in EntrySet /\ e.client = c /\ e.ops = op
    BY <1>1, <1>4 DEF Entry, EntrySet
  <2> QED
    BY <2>1, SheetAssumption DEF SlotSet, IsOp
<1> HIDE DEF e
<1>6. a \in Messages /\ a.kind = "accepted" /\ a.entry = e
  BY <1>5 DEF Messages
<1> HIDE DEF a
<1>7. KeptTab(c, tab'[c], inbox'[c], slots', made, left.network)
  BY <1>1, <1>2, <1>5, <1>6, AcceptKeeps, SMTT(30)
<1>8. ASSUME NEW d \in Tabs, d # c
      PROVE  KeptTab(d, tab'[d], inbox'[d], slots', made, left.network)
  <2>1. /\ IsTab(tab[d]) /\ inbox[d] \in Seq(Messages)
        /\ KeptTab(d, tab[d], inbox[d], slots, made, left.network)
    BY OneTab
  <2>2. SameReplies(inbox[d], inbox'[d])
    <3>1. CASE inbox'[d] = inbox[d]
      BY <3>1 DEF SameReplies
    <3>2. ASSUME NEW x \in EntrySet, inbox'[d] = Append(inbox[d], [kind |-> "op", entry |-> x])
          PROVE  SameReplies(inbox[d], inbox'[d])
      <4> DEFINE y == [kind |-> "op", entry |-> x]
      <4>1. y \in Messages /\ y.kind \notin Reply2
        BY DEF Messages, Reply2
      <4> HIDE DEF y
      <4>2. SameReplies(inbox[d], Append(inbox[d], y))
        BY <2>1, <4>1, RepliesAppended
      <4> QED
        BY <3>2, <4>2 DEF y
    <3> QED
      BY <1>1, <1>8, <3>1, <3>2
  <2>3. KeptTab(d, tab[d], inbox'[d], slots, made, left.network)
    BY <2>1, <2>2, BoxKeeps
  <2>4. e.client # d
    BY <1>5, <1>8
  <2>5. KeptTab(d, tab[d], inbox'[d], Append(slots, e), made, left.network)
    BY <1>2, <1>5, <2>3, <2>4, OtherKeeps
  <2> QED
    BY <1>1, <1>8, <2>5
<1>9. e.ops.n \in MadeIn(e.client, made)
  BY <1>1, <1>2, <1>5 DEF KeptTab, Keeps, Sending
<1>10. SlotsMade(slots', made)
  BY <1>1, <1>2, <1>5, <1>9, MadeGrows DEF KeptInv
<1>11. left.network = "http" => NoneTwice(slots')
  <2> SUFFICES ASSUME left.network = "http" PROVE NoneTwice(slots')
    OBVIOUS
  <2>1. LoggedIn(e.client, slots, e.ops.n) = {}
    BY <1>1, <1>2, <1>5 DEF KeptTab, OnceOnly
  <2> QED
    BY <1>1, <1>2, <1>5, <1>9, <2>1, NoneTwiceGrows DEF KeptInv
<1>12. \A d \in Tabs : Unused(d, tab'[d], left'.opens, made')
  <2>1. \A d \in Tabs : tab'[d].open = tab[d].open /\ tab'[d].room = tab[d].room
    BY <1>1, SubmittedOnce
  <2> QED
    BY <1>3, <2>1 DEF KeptInv, Unused
<1> QED
  BY <1>3, <1>7, <1>8, <1>10, <1>11, <1>12 DEF KeptInv

(* A file change is announced, and maybe takes a position of the log. *)
LEMMA NewsKept ==
  ASSUME TakenInv, KeptInv, UNCHANGED <<tab, made>>, left'.network = left.network,
         left'.opens = left.opens, NEW m \in Messages, m.kind = "file",
         \A d \in Tabs : inbox'[d] = inbox[d] \/ inbox'[d] = Append(inbox[d], m),
         NEW e \in SlotSet, e.client = "host",
         slots' = slots \/ slots' = Append(slots, e)
  PROVE  KeptInv'
<1>1. ~IsOp(e)
  BY DEF IsOp
<1>2. slots \in Seq(SlotSet) /\ SlotsMade(slots, made)
  BY DEF TakenInv, LogFits, KeptInv
<1>3. SlotsMade(slots', made')
  BY <1>1, <1>2, MadeGrows
<1>4. left'.network = "http" => NoneTwice(slots')
  BY <1>1, <1>2, NoneTwiceGrows DEF KeptInv
<1>5. \A d \in Tabs : Unused(d, tab'[d], left'.opens, made')
  BY DEF KeptInv
<1>6. m.kind \notin Reply2
  BY DEF Reply2
<1>7. ASSUME NEW d \in Tabs
      PROVE  KeptTab(d, tab'[d], inbox'[d], slots', made', left'.network)
  <2>1. /\ IsTab(tab[d]) /\ inbox[d] \in Seq(Messages)
        /\ KeptTab(d, tab[d], inbox[d], slots, made, left.network)
    BY OneTab
  <2>2. SameReplies(inbox[d], inbox'[d])
    <3>1. CASE inbox'[d] = inbox[d]
      BY <3>1 DEF SameReplies
    <3>2. CASE inbox'[d] = Append(inbox[d], m)
      BY <1>6, <2>1, <3>2, RepliesAppended
    <3> QED
      BY <3>1, <3>2
  <2>3. KeptTab(d, tab[d], inbox'[d], slots, made, left.network)
    BY <2>1, <2>2, BoxKeeps
  <2>4. e.client # d
    BY SheetAssumption
  <2>5. KeptTab(d, tab[d], inbox'[d], slots', made, left.network)
    BY <1>2, <2>3, <2>4, OtherKeeps
  <2> QED
    BY <2>5
<1> QED
  BY <1>3, <1>4, <1>5, <1>7 DEF KeptInv

(* A replacement is a position of nobody's. *)
LEMMA HostSlot ==
  ASSUME NEW n \in Nat
  PROVE  Replaced(n) \in SlotSet /\ Replaced(n).client = "host"
BY DEF SlotSet, Replaced, Entry

(* Save keeps the second part of the invariant. *)
LEMMA SaveKept ==
  ASSUME TakenInv, KeptInv, NEW c \in Tabs, Save(c)
  PROVE  KeptInv'
<1>1. /\ left' = [left EXCEPT !.saves = @ - 1] /\ UNCHANGED <<tab, slots, made>>
  BY DEF Save
<1>2. IsLeft(left)
  BY OneTab
<1>3. left'.network = left.network /\ left'.opens = left.opens
  BY <1>1, <1>2 DEF IsLeft
<1>4. PICK m \in Messages :
        /\ m.kind = "file"
        /\ \A d \in Tabs : inbox'[d] = inbox[d] \/ inbox'[d] = Append(inbox[d], m)
  BY SaveTaken
<1>5. Replaced(0) \in SlotSet /\ Replaced(0).client = "host"
  BY HostSlot
<1> QED
  BY <1>1, <1>3, <1>4, <1>5, NewsKept

(* Replace keeps the second part of the invariant. *)
LEMMA ReplaceKept ==
  ASSUME TakenInv, KeptInv, Replace
  PROVE  KeptInv'
<1>1. left' = [left EXCEPT !.replaces = @ - 1] /\ UNCHANGED <<tab, made>>
  BY DEF Replace
<1>2. IsLeft(left) /\ Len(slots) + 1 \in Nat
  <2>1. IsLeft(left) /\ slots \in Seq(SlotSet)
    BY DEF TakenInv, Typed, LogFits
  <2> QED
    BY <2>1
<1>3. left'.network = left.network /\ left'.opens = left.opens
  BY <1>1, <1>2 DEF IsLeft
<1>4. slots' = Append(slots, Replaced(Len(slots) + 1))
  BY ReplaceTaken
<1>5. PICK m \in Messages :
        /\ m.kind = "file"
        /\ \A d \in Tabs : inbox'[d] = inbox[d] \/ inbox'[d] = Append(inbox[d], m)
  BY ReplaceTaken
<1>6. Replaced(Len(slots) + 1) \in SlotSet /\ Replaced(Len(slots) + 1).client = "host"
  BY <1>2, HostSlot
<1> QED
  BY <1>1, <1>3, <1>4, <1>5, <1>6, NewsKept

(* Edit keeps the second part of the invariant. *)
LEMMA EditKept ==
  ASSUME TakenInv, KeptInv, NEW c \in Tabs, NEW cell \in Cells, Edit(c, cell)
  PROVE  KeptInv'
<1> DEFINE t == tab[c]
           op == [n |-> Len(made) + 1, cell |-> cell]
<1>1. /\ TakenInv' /\ t.room /\ tab'[c].room /\ tab'[c].queue = Append(t.queue, op)
      /\ tab'[c].resynced = t.resynced /\ Submits(t, tab'[c])
  BY EditTaken
<1>2. /\ IsTab(t) /\ Linked(t, c \in members) /\ DOMAIN tab = Tabs /\ made \in Seq(Tabs)
      /\ KeptTab(c, t, inbox[c], slots, made, left.network) /\ IsLeft(left)
      /\ (c \in left.opens => ~t.open)
  BY OneTab
<1>3. /\ left' = [left EXCEPT !.edits = @ - 1] /\ made' = Append(made, c) /\ ~t.resynced
      /\ UNCHANGED <<inbox, slots>> /\ \A d \in Tabs : d # c => tab'[d] = tab[d]
  BY <1>2 DEF Edit
<1>4. left'.network = left.network /\ left'.opens = left.opens
  BY <1>2, <1>3 DEF IsLeft
<1>5. op \in OpSet /\ op.n = Len(made) + 1
  BY <1>2 DEF OpSet
<1> HIDE DEF op
<1>6. SlotsMade(slots, made)
  BY DEF KeptInv
<1>7. IsTab(tab'[c])
  BY <1>1 DEF TakenInv, AllFit, TabFits
<1>8. KeptTab(c, tab'[c], inbox'[c], slots', made', left'.network)
  <2>1. KeptTab(c, tab'[c], inbox[c], slots, Append(made, c), left.network)
    BY <1>1, <1>2, <1>3, <1>5, <1>6, <1>7, EditKeeps
  <2> QED
    BY <1>3, <1>4, <2>1
<1>9. ASSUME NEW d \in Tabs, d # c
      PROVE  KeptTab(d, tab'[d], inbox'[d], slots', made', left'.network)
  <2>1. KeptTab(d, tab[d], inbox[d], slots, made, left.network)
    BY OneTab
  <2>2. KeptTab(d, tab[d], inbox[d], slots, Append(made, c), left.network)
    BY <1>2, <1>9, <2>1, OthersEditKeeps
  <2> QED
    BY <1>3, <1>4, <1>9, <2>2
<1>10. /\ Len(made') = Len(made) + 1 /\ made'[Len(made) + 1] = c /\ Len(made) \in Nat
       /\ \A i \in 1..Len(made) : made'[i] = made[i]
       /\ \A i \in 1..(Len(made) + 1) : i \in 1..Len(made) \/ i = Len(made) + 1
       /\ 1..Len(made) \subseteq 1..(Len(made) + 1)
  BY <1>2, <1>3
<1>11. SlotsMade(slots', made')
  BY <1>3, <1>6, <1>10 DEF SlotsMade
<1>12. ASSUME NEW d \in Tabs PROVE Unused(d, tab'[d], left'.opens, made')
  <2>1. CASE d = c
    BY <1>1, <1>2, <1>4, <2>1 DEF Unused, Linked
  <2>2. CASE d # c
    <3>1. MadeIn(d, made') = MadeIn(d, made)
      BY <1>10, <2>2 DEF MadeIn
    <3> QED
      BY <1>3, <1>4, <2>2, <3>1 DEF KeptInv, Unused
  <2> QED
    BY <2>1, <2>2
<1> QED
  BY <1>3, <1>4, <1>8, <1>9, <1>11, <1>12 DEF KeptInv

(* The second part of the invariant holds at first. *)
LEMMA InitKept == Init => KeptInv
<1> SUFFICES ASSUME Init PROVE KeptInv
  OBVIOUS
<1>1. /\ tab = [c \in Tabs |-> Closed] /\ inbox = [c \in Tabs |-> <<>>]
      /\ slots = <<>> /\ made = <<>>
  BY DEF Init
<1>2. 1..Len(<<>>) = {}
  OBVIOUS
<1>3. SlotsMade(slots, made) /\ NoneTwice(slots)
  BY <1>1, <1>2, Zenon DEF SlotsMade, NoneTwice
<1>4. ASSUME NEW c \in Tabs
      PROVE  KeptTab(c, tab[c], inbox[c], slots, made, left.network)
  <2>1. TabFits(c, Closed, <<>>, slots, 0, FALSE) /\ ~Closed.room
    BY ClosedFits
  <2>2. KeptTab(c, Closed, <<>>, slots, made, left.network)
    BY <2>1, OutsideKept
  <2> QED
    BY <1>1, <2>2
<1>5. ASSUME NEW c \in Tabs PROVE Unused(c, tab[c], left.opens, made)
  BY <1>1, <1>2 DEF Unused, MadeIn
<1> QED
  BY <1>3, <1>4, <1>5 DEF KeptInv

(* Every step keeps the second part of the invariant. *)
LEMMA StepKept ==
  ASSUME Mishaps = {}, TakenInv, OpensFile, KeptInv, [Next]_vars
  PROVE  KeptInv'
<1>1. ASSUME UNCHANGED vars PROVE KeptInv'
  BY <1>1 DEF vars, KeptInv
<1>2. ASSUME NEW c \in Tabs, TabStep(c) PROVE KeptInv'
  <2>1. ASSUME NEW i \in Arriving(c),
               tab' = [tab EXCEPT ![c] = Handle(c, tab[c], inbox[c][i])],
               inbox' = [inbox EXCEPT ![c] = RemoveAt(inbox[c], i)],
               UNCHANGED <<log, members, file, left, slots, ground, made>>
        PROVE  KeptInv'
    BY <2>1, DeliverKept
  <2>2. Deliver(c) => KeptInv'
    BY <2>1 DEF Deliver
  <2> QED
    BY <1>2, <2>2, OpenKept, EditKept, TimerKept, ReconnectKept, CloseKept DEF TabStep
<1>3. ASSUME NEW c \in Tabs, HubStep(c) PROVE KeptInv'
  BY <1>3, JoinKept, AcceptsKept, RefusesKept, SinceKept DEF HubStep
<1>4. ASSUME NEW c \in Tabs, Drop(c) PROVE KeptInv'
  BY <1>4, DropKept
<1>5. ASSUME NEW c \in Tabs, Save(c) PROVE KeptInv'
  BY <1>5, SaveKept
<1> QED
  BY <1>1, <1>2, <1>3, <1>4, <1>5, ReplaceKept DEF Next

(* Where every tab's edits are: queued in order until acknowledged, the one sent at
   the head, its answer on its way once at most, and over http logged no more than
   once, unless one of AllMishaps happens. *)
THEOREM KeptInductive ==
  ASSUME Mishaps = {}
  PROVE  Spec => [](TakenInv /\ OpensFile /\ KeptInv)
<1>1. Init => TakenInv /\ OpensFile /\ KeptInv
  BY InitTaken, InitOpens, InitKept
<1>2. TakenInv /\ OpensFile /\ KeptInv /\ [Next]_vars => (TakenInv /\ OpensFile /\ KeptInv)'
  BY StepTaken, StepOpens, StepKept
<1> QED
  BY <1>1, <1>2, PTL DEF Spec

(* Every edit of a tab in the room is in the log or still queued, and edits enter the
   log in the order they were made (SubmitQueue.flush, across drops and rejoins),
   unless one of AllMishaps happens. *)
THEOREM EditsAlwaysKeptInOrder ==
  ASSUME Mishaps = {}
  PROVE  Spec => []EditsKeptInOrder
<1>1. TakenInv /\ KeptInv => EditsKeptInOrder
  <2> SUFFICES ASSUME TakenInv, KeptInv, NEW c \in Tabs, InRoom(c), NEW n \in MadeBy(c)
               PROVE  /\ Logged(c, n) # {} \/ Queued(c, n)
                      /\ \A m \in MadeBy(c), k \in Logged(c, n) :
                           m < n => \E j \in Logged(c, m) : j < k
    BY DEF EditsKeptInOrder
  <2>1. /\ Linked(tab[c], c \in members)
        /\ KeptTab(c, tab[c], inbox[c], slots, made, left.network)
    BY OneTab
  <2>2. tab[c].room /\ ~tab[c].resynced
    BY <2>1 DEF Linked, InRoom
  <2>3. /\ MadeBy(c) = MadeIn(c, made) /\ Queued(c, n) = QueuedIn(tab[c], n)
        /\ \A m : Logged(c, m) = LoggedIn(c, slots, m)
    BY DEF MadeBy, MadeIn, Queued, QueuedIn, Logged, LoggedIn
  <2> QED
    BY <2>1, <2>2, <2>3 DEF KeptTab, InOrder
<1> QED
  BY <1>1, KeptInductive, PTL

(* An edit is accepted once, where answers are not lost (SubmitQueue.flush: one send
   at a time, shifted when it is acknowledged), unless one of AllMishaps happens. *)
THEOREM EditsAcceptedOnce ==
  ASSUME Mishaps = {}
  PROVE  Spec => []AcceptedOnce
<1>1. KeptInv => AcceptedOnce
  BY DEF KeptInv, NoneTwice, AcceptedOnce
<1> QED
  BY <1>1, KeptInductive, PTL

-----------------------------------------------------------------------------
(***************************************************************************)
(* The third part of the invariant: what a tab shows.  On a socket a cell  *)
(* of its sheet has the value of the last pending edit of it, or else of   *)
(* the last position of the log taken in that writes it.                   *)
(***************************************************************************)
Writes(e, x) == IsOp(e) => e.ops.cell = x

(* v is what x holds after the first k positions of s, on the sheet g. *)
Stands(s, k, g, x, v) ==
  \/ \E i \in 1..k : /\ Writes(s[i], x) /\ v = s[i].ops.n
                     /\ \A j \in 1..k : j > i => ~Writes(s[j], x)
  \/ v = g[x] /\ \A j \in 1..k : ~Writes(s[j], x)

Pending(q, x, v) ==
  \E i \in 1..Len(q) : /\ q[i].cell = x /\ v = q[i].n
                       /\ \A j \in 1..Len(q) : j > i => q[j].cell # x

Free(q, x) == \A i \in 1..Len(q) : q[i].cell # x

Shows(s, k, q, g, x, v) == Pending(q, x, v) \/ (Free(q, x) /\ Stands(s, k, g, x, v))

(* Own entries that a tab has not taken in are still in its queue. *)
OwnQueued(c, t, s) ==
  \A k \in 1..Len(s) : k > Len(t.seen) /\ s[k].client = c =>
    \E i \in 1..Len(t.queue) : t.queue[i] = s[k].ops

Faithful(c, t, s, g) ==
  t.room /\ ~t.resynced =>
    /\ \A x \in Cells : Shows(s, Len(t.seen), t.queue, g, x, t.doc[x])
    /\ OwnQueued(c, t, s)

(* A cell that the next positions do not write keeps its value. *)
LEMMA StandsStill ==
  ASSUME NEW s, NEW p \in Nat, NEW m \in Nat, NEW g, NEW x, NEW v, Stands(s, p, g, x, v),
         \A i \in 1..m : ~Writes(s[p + i], x)
  PROVE  Stands(s, p + m, g, x, v)
<1>1. \A j \in 1..(p + m) : j \in 1..p \/ (j - p \in 1..m /\ p + (j - p) = j)
  OBVIOUS
<1>2. \A j \in 1..(p + m) : j \in 1..p \/ ~Writes(s[j], x)
  BY <1>1
<1>3. 1..p \subseteq 1..(p + m)
  OBVIOUS
<1>4. CASE v = g[x] /\ \A j \in 1..p : ~Writes(s[j], x)
  BY <1>2, <1>4 DEF Stands
<1>5. ASSUME NEW i \in 1..p, Writes(s[i], x), v = s[i].ops.n,
             \A j \in 1..p : j > i => ~Writes(s[j], x)
      PROVE  Stands(s, p + m, g, x, v)
  BY <1>2, <1>3, <1>5 DEF Stands
<1> QED
  BY <1>4, <1>5 DEF Stands

(* A cell has the value of the last position that writes it. *)
LEMMA StandsWritten ==
  ASSUME NEW s, NEW p \in Nat, NEW m \in Nat, NEW g, NEW x, NEW i \in 1..m,
         Writes(s[p + i], x), \A j \in 1..m : j > i => ~Writes(s[p + j], x)
  PROVE  Stands(s, p + m, g, x, s[p + i].ops.n)
<1>1. p + i \in 1..(p + m)
  OBVIOUS
<1>2. ASSUME NEW j \in 1..(p + m), j > p + i PROVE ~Writes(s[j], x)
  <2>1. j - p \in 1..m /\ j - p > i /\ p + (j - p) = j
    BY <1>2
  <2> QED
    BY <2>1
<1> QED
  BY <1>1, <1>2 DEF Stands

(* What stands after some positions does so in any longer log. *)
LEMMA StandsLonger ==
  ASSUME NEW s, NEW r, Longer(s, r), NEW k \in 0..Len(s), Len(s) \in Nat,
         NEW g, NEW x, NEW v, Stands(s, k, g, x, v)
  PROVE  Stands(r, k, g, x, v)
<1>1. \A i \in 1..k : i \in 1..Len(s) /\ r[i] = s[i]
  BY DEF Longer
<1>2. CASE v = g[x] /\ \A j \in 1..k : ~Writes(s[j], x)
  BY <1>1, <1>2 DEF Stands
<1>3. ASSUME NEW i \in 1..k, Writes(s[i], x), v = s[i].ops.n,
             \A j \in 1..k : j > i => ~Writes(s[j], x)
      PROVE  Stands(r, k, g, x, v)
  BY <1>1, <1>3 DEF Stands
<1> QED
  BY <1>2, <1>3 DEF Stands

(* The last of some positions of a sequence. *)
LEMMA LastIs ==
  ASSUME NEW f, NEW S \in SUBSET Nat, NEW i \in S, \A j \in S : j <= i
  PROVE  LastOf(f, S) = f[i]
<1> DEFINE k == CHOOSE k \in S : \A j \in S : j <= k
<1>1. k \in S /\ \A j \in S : j <= k
  OBVIOUS
<1> HIDE DEF k
<1>2. k <= i /\ i <= k /\ k \in Nat /\ i \in Nat
  BY <1>1
<1>3. k = i
  BY <1>2
<1> QED
  BY <1>3 DEF LastOf, k

(* What a tab shows, as the invariant has it, is what Shown computes. *)
LEMMA ShowsShown ==
  ASSUME NEW s, NEW h, NEW q \in Seq(OpSet), NEW x, NEW v, Len(h) \in Nat,
         \A i \in 1..Len(h) : h[i] = s[i], Shows(s, Len(h), q, ground, x, v)
  PROVE  Shown(h, q, x) = v
<1> DEFINE mine == {i \in 1..Len(q) : q[i].cell = x}
           theirs == {i \in 1..Len(h) : IsOp(h[i]) => h[i].ops.cell = x}
<1>0. Shown(h, q, x) = IF mine # {} THEN LastOf(q, mine).n
                       ELSE IF theirs # {} THEN LastOf(h, theirs).ops.n ELSE ground[x]
  BY DEF Shown
<1>1. mine \in SUBSET Nat /\ theirs \in SUBSET Nat
  OBVIOUS
<1>2. ASSUME NEW i \in 1..Len(q), q[i].cell = x, v = q[i].n,
             \A j \in 1..Len(q) : j > i => q[j].cell # x
      PROVE  Shown(h, q, x) = v
  <2>1. i \in mine /\ \A j \in mine : j <= i
    BY <1>2
  <2> HIDE DEF mine
  <2>2. LastOf(q, mine) = q[i]
    BY <1>1, <2>1, LastIs
  <2> QED
    BY <1>0, <1>2, <2>1, <2>2
<1>3. ASSUME Free(q, x), Stands(s, Len(h), ground, x, v)
      PROVE  Shown(h, q, x) = v
  <2>1. mine = {}
    BY <1>3 DEF Free
  <2>2. \A i \in 1..Len(h) : i \in theirs <=> Writes(s[i], x)
    BY DEF Writes
  <2>3. CASE v = ground[x] /\ \A j \in 1..Len(h) : ~Writes(s[j], x)
    <3>1. theirs = {}
      BY <2>2, <2>3
    <3> HIDE DEF mine, theirs
    <3> QED
      BY <1>0, <2>1, <2>3, <3>1
  <2>4. ASSUME NEW i \in 1..Len(h), Writes(s[i], x), v = s[i].ops.n,
               \A j \in 1..Len(h) : j > i => ~Writes(s[j], x)
        PROVE  Shown(h, q, x) = v
    <3>1. i \in theirs /\ \A j \in theirs : j <= i
      BY <2>2, <2>4
    <3> HIDE DEF mine, theirs
    <3>2. LastOf(h, theirs) = h[i]
      BY <1>1, <3>1, LastIs
    <3> QED
      BY <1>0, <2>1, <2>4, <3>1, <3>2
  <2> QED
    BY <1>3, <2>3, <2>4 DEF Stands
<1> QED
  BY <1>2, <1>3 DEF Shows, Pending

(* The sheet, the queue and what was taken in are as they were. *)
View(t, u) ==
  /\ u.doc = t.doc /\ u.seen = t.seen /\ u.queue = t.queue
  /\ u.room = t.room /\ u.resynced = t.resynced

(* A tab that shows the same and has taken in the same is as faithful. *)
LEMMA ViewFaithful ==
  ASSUME NEW c, NEW t, NEW u, NEW s, NEW g, Faithful(c, t, s, g), View(t, u)
  PROVE  Faithful(c, u, s, g)
BY DEF Faithful, View, OwnQueued

(* Two such steps make one. *)
LEMMA ViewOn ==
  ASSUME NEW t, NEW u, NEW v, View(t, u), View(u, v)
  PROVE  View(t, v)
BY DEF View

(* What ApplyEntries makes of a tab. *)
Applies(c, t, u, entries) ==
  /\ u.seen = t.seen \o entries /\ u.queue = t.queue /\ u.room = t.room
  /\ u.resynced = t.resynced
  /\ \A x \in Cells : u.doc[x] = LET writers == Writers(c, entries, x)
                                 IN  IF writers = {} \/ Owns(t, x) THEN t.doc[x]
                                     ELSE entries[Max(writers)].ops.n

(* Whatever the entries. *)
LEMMA ApplyEntriesApplies ==
  ASSUME NEW c, NEW t, IsTab(t), NEW entries
  PROVE  Applies(c, t, ApplyEntries(c, t, entries), entries)
<1> DEFINE doc == [x \in Cells |-> LET writers == Writers(c, entries, x)
                                   IN  IF writers = {} \/ Owns(t, x) THEN t.doc[x]
                                       ELSE entries[Max(writers)].ops.n]
           applied == IF entries = <<>> THEN t.applied ELSE entries[Len(entries)].seq
           u == [t EXCEPT !.doc = doc, !.seen = t.seen \o entries, !.applied = applied]
<1>1. ApplyEntries(c, t, entries) = u
  BY DEF ApplyEntries, TakeIn
<1>2. \A x \in Cells : doc[x] = LET writers == Writers(c, entries, x)
                                IN  IF writers = {} \/ Owns(t, x) THEN t.doc[x]
                                    ELSE entries[Max(writers)].ops.n
  OBVIOUS
<1> HIDE DEF doc, applied
<1>3. /\ u.doc = doc /\ u.seen = t.seen \o entries /\ u.queue = t.queue
      /\ u.room = t.room /\ u.resynced = t.resynced
  BY DEF IsTab
<1> HIDE DEF u
<1> QED
  BY <1>1, <1>2, <1>3, Zenon DEF Applies

(* A tab that takes in what comes next shows it: a remote write is ordered before all
   that is pending, so a cell with a pending edit keeps it, and others have what was
   written last; of its own entries it passes over, each is pending. *)
LEMMA ApplyFaithful ==
  ASSUME NEW t, NEW u, NEW s, NEW saved, Took(t, s, saved), Slotted(s), NEW c,
         NEW entries, ComesNext(t, s, entries), NEW g, Faithful(c, t, s, g),
         Applies(c, t, u, entries)
  PROVE  Faithful(c, u, s, g)
<1> SUFFICES ASSUME u.room, ~u.resynced
             PROVE  /\ \A x \in Cells : Shows(s, Len(u.seen), u.queue, g, x, u.doc[x])
                    /\ OwnQueued(c, u, s)
  BY DEF Faithful
<1> DEFINE p == Len(t.seen)
           m == Len(entries)
           q == t.queue
<1>1. /\ p \in Nat /\ m \in Nat /\ Len(s) \in Nat /\ entries \in Seq(EntrySet)
      /\ q \in Seq(OpSet) /\ p + m <= Len(s) /\ t.seen \in Seq(SlotSet)
      /\ \A i \in 1..m : entries[i] = s[p + i]
  BY DEF Took, IsTab, ComesNext, Slotted
<1>2. Len(u.seen) = p + m
  <2>1. entries \in Seq(SlotSet)
    <3>1. \A i \in 1..Len(entries) : entries[i] \in SlotSet
      BY <1>1 DEF SlotSet
    <3> QED
      BY <1>1, <3>1
  <2>2. \A f, h \in Seq(SlotSet) : Len(f \o h) = Len(f) + Len(h)
    OBVIOUS
  <2> QED
    BY <1>1, <2>1, <2>2 DEF Applies
<1>3. /\ \A x \in Cells : Shows(s, p, q, g, x, t.doc[x])
      /\ OwnQueued(c, t, s) /\ u.queue = q
  BY DEF Applies, Faithful
<1>4. \A i \in 1..m : entries[i] \in EntrySet /\ IsOp(entries[i])
  BY <1>1, EntryIsOp
<1>5. ASSUME NEW i \in 1..m, entries[i].client = c PROVE Owns(t, entries[i].ops.cell)
  <2>1. p + i \in 1..Len(s) /\ p + i > Len(t.seen) /\ s[p + i].client = c
    BY <1>1, <1>5
  <2>2. \E j \in 1..Len(t.queue) : t.queue[j] = s[p + i].ops
    BY <1>3, <2>1 DEF OwnQueued
  <2> QED
    BY <1>1, <2>2 DEF Owns
<1>6. OwnQueued(c, u, s)
  <2>1. \A k \in 1..Len(s) : k > p + m => k > p
    BY <1>1
  <2> QED
    BY <1>2, <1>3, <2>1 DEF OwnQueued
<1>7. ASSUME NEW x \in Cells PROVE Shows(s, p + m, q, g, x, u.doc[x])
  <2> DEFINE writers == Writers(c, entries, x)
  <2>1. u.doc[x] = IF writers = {} \/ Owns(t, x) THEN t.doc[x]
                   ELSE entries[Max(writers)].ops.n
    BY DEF Applies
  <2>2. Shows(s, p, q, g, x, t.doc[x])
    BY <1>3
  <2>3. CASE Owns(t, x)
    BY <2>1, <2>2, <2>3 DEF Shows, Owns, Free
  <2>4. CASE ~Owns(t, x)
    <3>1. Free(q, x) /\ Stands(s, p, g, x, t.doc[x])
      BY <2>2, <2>4 DEF Shows, Owns, Free, Pending
    <3>2. \A i \in 1..m : Writes(s[p + i], x) <=> i \in writers
      BY <1>1, <1>4, <1>5, <2>4 DEF Writes, Writers
    <3>3. writers \in SUBSET (0..m)
      BY <1>1 DEF Writers
    <3> HIDE DEF writers
    <3>4. CASE writers = {}
      <4>1. Stands(s, p + m, g, x, t.doc[x])
        BY <1>1, <3>1, <3>2, <3>4, StandsStill
      <4> QED
        BY <2>1, <3>1, <3>4, <4>1 DEF Shows
    <3>5. CASE writers # {}
      <4> DEFINE k == Max(writers)
      <4>1. k \in writers /\ \A i \in writers : i <= k
        BY <1>1, <3>3, <3>5, MaxNat
      <4>2. u.doc[x] = entries[k].ops.n
        BY <2>1, <2>4, <3>5
      <4> HIDE DEF k
      <4>3. k \in 1..m
        BY <4>1 DEF writers, Writers
      <4>4. Writes(s[p + k], x) /\ \A j \in 1..m : j > k => ~Writes(s[p + j], x)
        BY <3>2, <4>1, <4>3
      <4>5. Stands(s, p + m, g, x, s[p + k].ops.n)
        BY <1>1, <4>3, <4>4, StandsWritten
      <4> QED
        BY <1>1, <3>1, <4>2, <4>3, <4>5 DEF Shows
    <3> QED
      BY <3>4, <3>5
  <2> QED
    BY <2>3, <2>4
<1> QED
  BY <1>2, <1>3, <1>6, <1>7

(* So ApplyEntries keeps what a tab shows in line with what it has taken in. *)
LEMMA TakenFaithful ==
  ASSUME NEW t, NEW s, NEW saved, Took(t, s, saved), Slotted(s), NEW c,
         NEW entries, ComesNext(t, s, entries), NEW g, Faithful(c, t, s, g)
  PROVE  Faithful(c, ApplyEntries(c, t, entries), s, g)
<1>1. Applies(c, t, ApplyEntries(c, t, entries), entries)
  BY ApplyEntriesApplies DEF Took
<1> QED
  BY <1>1, ApplyFaithful

(* What a tab holds back and its timer are no part of what it shows. *)
LEMMA HeldView ==
  ASSUME NEW t, IsTab(t), NEW f, NEW b
  PROVE  View(t, [t EXCEPT !.reorder = f]) /\ View(t, [t EXCEPT !.timer = b])
BY DEF IsTab, View

(* A step that changes calls only shows the same. *)
LEMMA SteersView ==
  ASSUME NEW t, NEW u, Steers(t, u)
  PROVE  View(t, u)
BY DEF Steers, SameSheet, SamePlace, View

(* A drained tab shows what it has taken in. *)
LEMMA DrainFaithful ==
  ASSUME NEW t, NEW s, NEW saved, Took(t, s, saved), Slotted(s), NEW c,
         NEW g, Faithful(c, t, s, g)
  PROVE  Faithful(c, Drain(c, t), s, g)
<1> DEFINE ready == {n \in Keys(t.reorder) :
                       n > t.applied /\ (t.applied + 1)..n \subseteq Keys(t.reorder)}
           last == Max(ready \cup {t.applied})
           held == [i \in 1..(last - t.applied) |-> t.reorder[t.applied + i]]
           rest == Only(t.reorder, Keys(t.reorder) \ ready)
           u == [t EXCEPT !.reorder = rest]
<1>1. Drain(c, t) = ApplyEntries(c, u, held)
  BY DEF Drain
<1>2. ComesNext(t, s, held)
  BY HeldFollow
<1>3. DOMAIN rest \subseteq DOMAIN t.reorder /\ \A n \in DOMAIN rest : rest[n] = t.reorder[n]
  BY DEF Only, Keys
<1> HIDE DEF ready, last, held, rest
<1>4. Took(u, s, saved) /\ u.seen = t.seen
  BY <1>3, FewerHeldSound
<1>5. View(t, u)
  BY HeldView DEF Took
<1> HIDE DEF u
<1>6. ComesNext(u, s, held) /\ Faithful(c, u, s, g)
  BY <1>2, <1>4, <1>5, ViewFaithful DEF ComesNext
<1> QED
  BY <1>1, <1>4, <1>6, TakenFaithful

(* So does one that takes in the next entry and drains. *)
LEMMA NextFaithful ==
  ASSUME NEW t, NEW s, NEW saved, Took(t, s, saved), Slotted(s), NEW c,
         NEW e, Suits(t, e, s), e.seq = t.applied + 1, NEW g, Faithful(c, t, s, g)
  PROVE  Faithful(c, Drain(c, ApplyEntries(c, t, <<e>>)), s, g)
<1>1. ComesNext(t, s, <<e>>)
  BY NextComes
<1> DEFINE u == ApplyEntries(c, t, <<e>>)
<1>2. Took(u, s, saved)
  BY <1>1, ApplyEntriesSound
<1>3. Faithful(c, u, s, g)
  BY <1>1, TakenFaithful
<1> HIDE DEF u
<1>4. Faithful(c, Drain(c, u), s, g)
  BY <1>2, <1>3, DrainFaithful
<1> QED
  BY <1>4 DEF u

(* So does one that receives an entry of the log. *)
LEMMA ReceiveFaithful ==
  ASSUME NEW t, NEW s, NEW saved, Took(t, s, saved), Slotted(s), NEW c,
         NEW e, Suits(t, e, s), NEW g, Faithful(c, t, s, g)
  PROVE  Faithful(c, Receive(c, t, e), s, g)
<1> DEFINE u == Hold(t, e)
<1>1. Took(u, s, saved)
  BY HoldSound
<1>2. View(t, u)
  BY HeldView DEF Hold, Took
<1> HIDE DEF u
<1>3. Faithful(c, u, s, g)
  BY <1>2, ViewFaithful
<1>4. CASE e.client = c
  <2> DEFINE v == IF e.seq > t.applied THEN u ELSE t
  <2>1. Receive(c, t, e) = Drain(c, v)
    BY <1>4 DEF Receive, u
  <2>2. Took(v, s, saved) /\ Faithful(c, v, s, g)
    BY <1>1, <1>3
  <2> HIDE DEF v
  <2> QED
    BY <2>1, <2>2, DrainFaithful
<1>5. CASE e.client # c /\ e.seq <= t.applied
  BY <1>5 DEF Receive
<1>6. CASE e.client # c /\ ~(e.seq <= t.applied) /\ e.seq = t.applied + 1
  <2>1. Receive(c, t, e) = Drain(c, ApplyEntries(c, t, <<e>>))
    BY <1>6 DEF Receive
  <2> QED
    BY <1>6, <2>1, NextFaithful
<1>7. CASE e.client # c /\ ~(e.seq <= t.applied) /\ e.seq # t.applied + 1
  <2>1. Receive(c, t, e) = [u EXCEPT !.timer = TRUE]
    BY <1>7 DEF Receive, u
  <2>2. View(u, [u EXCEPT !.timer = TRUE])
    BY <1>1, HeldView DEF Took
  <2>3. Faithful(c, [u EXCEPT !.timer = TRUE], s, g)
    BY <1>3, <2>2, ViewFaithful
  <2> QED
    BY <2>1, <2>3
<1> QED
  BY <1>4, <1>5, <1>6, <1>7

(* And one that is answered a catch-up, unless it is told to reload. *)
LEMMA CatchUpFaithful ==
  ASSUME NEW t, NEW s, NEW saved, Took(t, s, saved), Slotted(s), NEW c,
         NEW a, Answer(t, a, s), NEW g, Faithful(c, t, s, g)
  PROVE  Faithful(c, CatchUpAnswer(c, t, a), s, g)
<1>1. CASE a.reset
  <2> DEFINE u == Resync(t)
  <2>1. CatchUpAnswer(c, t, a) = EndCatchUp(u)
    BY <1>1 DEF CatchUpAnswer
  <2>2. IsTab(u) /\ u.resynced
    <3>1. CASE t.resynced
      BY <3>1 DEF Resync, Took
    <3>2. CASE ~t.resynced
      <4>1. u = [t EXCEPT !.resynced = TRUE, !.queue = <<>>]
        BY <3>2 DEF Resync
      <4> QED
        BY <4>1 DEF Took, IsTab
    <3> QED
      BY <3>1, <3>2
  <2> HIDE DEF u
  <2>3. View(u, EndCatchUp(u))
    BY <2>2, EndCatchUpSteers, SteersView
  <2> QED
    BY <2>1, <2>2, <2>3 DEF View, Faithful
<1>2. CASE ~a.reset
  <2> DEFINE entries == After(a.ops, t.applied)
             u == ApplyEntries(c, t, entries)
             v == IF a.head > u.applied /\ a.ops = <<>>
                  THEN [u EXCEPT !.applied = a.head] ELSE u
             w == Drain(c, v)
             rest == Only(w.reorder, {n \in Keys(w.reorder) : n > w.applied})
             x == [w EXCEPT !.reorder = rest]
  <2>1. CatchUpAnswer(c, t, a) = EndCatchUp(x)
    BY <1>2 DEF CatchUpAnswer
  <2>2. Took(u, s, saved) /\ Took(v, s, saved)
    BY <1>2, AnswerTaken
  <2>3. Faithful(c, u, s, g)
    <3>1. PICK from \in 0..Len(t.seen) : AnswerFrom(t, a, from, s)
      BY <1>2 DEF Answer
    <3>2. ComesNext(t, s, entries)
      BY <3>1, RestComesNext
    <3> HIDE DEF entries
    <3> QED
      BY <3>2, TakenFaithful
  <2> HIDE DEF u
  <2>4. Faithful(c, v, s, g)
    <3>1. View(u, v)
      BY <2>2 DEF Took, IsTab, View
    <3> QED
      BY <2>3, <3>1, ViewFaithful
  <2> HIDE DEF v
  <2>5. Faithful(c, w, s, g) /\ Took(w, s, saved)
    BY <2>2, <2>4, DrainFaithful, DrainSound
  <2> HIDE DEF w
  <2>6. View(w, x) /\ IsTab(x)
    <3>1. View(w, x)
      BY <2>5, HeldView DEF Took
    <3>2. IsTab(x)
      BY <2>5 DEF Took, IsTab
    <3> QED
      BY <3>1, <3>2
  <2> HIDE DEF x
  <2>7. View(x, EndCatchUp(x))
    BY <2>6, EndCatchUpSteers, SteersView
  <2> QED
    BY <2>1, <2>5, <2>6, <2>7, ViewFaithful
<1> QED
  BY <1>1, <1>2

(* The news of a save or a replacement changes calls and what the host is told. *)
LEMMA FileChangedView ==
  ASSUME NEW t, IsTab(t), NEW reset, NEW savedSeq
  PROVE  View(t, FileChanged(t, reset, savedSeq))
<1>1. CASE reset
  <2>1. FileChanged(t, reset, savedSeq) = [t EXCEPT !.told = TRUE]
    BY <1>1 DEF FileChanged
  <2> QED
    BY <2>1 DEF IsTab, View
<1>2. CASE ~reset /\ savedSeq <= t.applied
  BY <1>2 DEF FileChanged, View
<1>3. CASE ~reset /\ ~(savedSeq <= t.applied)
  <2> DEFINE awaited == IF t.awaited > savedSeq THEN t.awaited ELSE savedSeq
             u == [t EXCEPT !.awaited = awaited]
  <2>1. FileChanged(t, reset, savedSeq) = StartCatchUp(u, t.applied)
    BY <1>3 DEF FileChanged
  <2> HIDE DEF awaited
  <2>2. View(t, u) /\ IsTab(u)
    BY DEF IsTab, View
  <2> HIDE DEF u
  <2>3. View(u, StartCatchUp(u, t.applied))
    BY <2>2, StartCatchUpSteers, SteersView
  <2> QED
    BY <2>1, <2>2, <2>3, ViewOn
<1> QED
  BY <1>1, <1>2, <1>3

(* So does a refusal as stale. *)
LEMMA StaleView ==
  ASSUME NEW t, IsTab(t)
  PROVE  View(t, Stale(t))
<1> DEFINE call == [phase |-> "catching"]
           u == [t EXCEPT !.submit = call]
<1>1. Stale(t) = StartCatchUp(u, t.applied)
  BY DEF Stale
<1>2. call.phase = "catching"
  OBVIOUS
<1> HIDE DEF call
<1>3. View(t, u) /\ IsTab(u)
  BY <1>2 DEF IsTab, View
<1> HIDE DEF u
<1>4. View(u, StartCatchUp(u, t.applied))
  BY <1>3, StartCatchUpSteers, SteersView
<1> QED
  BY <1>1, <1>3, <1>4, ViewOn

(* So does any other refusal. *)
LEMMA RefusedView ==
  ASSUME NEW t, IsTab(t)
  PROVE  View(t, Refused(t))
BY DEF Refused, NoCall, IsTab, View

(* So does the answer to a rejoin. *)
LEMMA RejoinedView ==
  ASSUME NEW t, IsTab(t), t.room = TRUE, NEW savedSeq
  PROVE  View(t, Joined(t, savedSeq))
<1> DEFINE from == IF t.joined THEN t.applied ELSE savedSeq
           u == [t EXCEPT !.join = NoCall, !.room = TRUE, !.joined = TRUE, !.flushAfter = TRUE]
<1>1. Joined(t, savedSeq) = StartCatchUp(u, from)
  BY DEF Joined
<1> HIDE DEF from
<1>2. View(t, u) /\ IsTab(u)
  BY DEF IsTab, View
<1> HIDE DEF u
<1>3. View(u, StartCatchUp(u, from))
  BY <1>2, StartCatchUpSteers, SteersView
<1> QED
  BY <1>1, <1>2, <1>3, ViewOn

(* On its first join a tab shows the file it loaded, which the log has reached. *)
LEMMA FirstJoinFaithful ==
  ASSUME NEW c, NEW t, IsTab(t), NEW s, NEW g, NEW savedSeq, Len(t.queue) = 0,
         \A x \in Cells : Stands(s, Len(t.seen), g, x, t.doc[x]),
         \A k \in 1..Len(s) : s[k].client # c
  PROVE  Faithful(c, Joined(t, savedSeq), s, g)
<1> DEFINE from == IF t.joined THEN t.applied ELSE savedSeq
           u == [t EXCEPT !.join = NoCall, !.room = TRUE, !.joined = TRUE, !.flushAfter = TRUE]
<1>1. Joined(t, savedSeq) = StartCatchUp(u, from)
  BY DEF Joined
<1> HIDE DEF from
<1>2. /\ u.doc = t.doc /\ u.seen = t.seen /\ u.queue = t.queue /\ IsTab(u)
  BY DEF IsTab
<1> HIDE DEF u
<1>3. Faithful(c, u, s, g)
  <2>1. \A x \in Cells : Free(u.queue, x)
    BY <1>2 DEF Free
  <2> QED
    BY <1>2, <2>1 DEF Faithful, Shows, OwnQueued
<1>4. View(u, StartCatchUp(u, from))
  BY <1>2, StartCatchUpSteers, SteersView
<1> QED
  BY <1>1, <1>3, <1>4, ViewFaithful

(* The head of the queue is acknowledged as the next position of the log, with nothing
   of the tab's own behind it: what was pending is now the last that was written. *)
LEMMA ShiftedShows ==
  ASSUME NEW s, NEW p \in Nat, NEW g, NEW x, NEW v, NEW q \in Seq(OpSet), q # <<>>,
         Shows(s, p, q, g, x, v), IsOp(s[p + 1]), s[p + 1].ops = Head(q)
  PROVE  Shows(s, p + 1, Tail(q), g, x, v)
<1> DEFINE r == Tail(q)
           n == Len(q)
<1>1. /\ Len(r) = n - 1 /\ n \in Nat /\ 1 \in 1..n /\ Head(q) = q[1]
      /\ \A i \in 1..(n - 1) : r[i] = q[i + 1]
  BY HeadFirst
<1> HIDE DEF r
<1>2. Writes(s[p + 1], x) <=> q[1].cell = x
  BY <1>1 DEF Writes
<1>3. \A i \in 1..n : i = 1 \/ (i - 1 \in 1..(n - 1) /\ r[i - 1] = q[i])
  BY <1>1
<1>4. ASSUME Free(q, x), Stands(s, p, g, x, v)
      PROVE  Free(r, x) /\ Stands(s, p + 1, g, x, v)
  <2>1. Free(r, x)
    BY <1>1, <1>4 DEF Free
  <2>2. ~Writes(s[p + 1], x)
    BY <1>1, <1>2, <1>4 DEF Free
  <2>3. \A i \in 1..1 : ~Writes(s[p + i], x)
    BY <2>2
  <2>4. Stands(s, p + 1, g, x, v)
    BY <1>4, <2>3, StandsStill
  <2> QED
    BY <2>1, <2>4
<1>5. ASSUME NEW i \in 1..n, q[i].cell = x, v = q[i].n, \A j \in 1..n : j > i => q[j].cell # x
      PROVE  Shows(s, p + 1, r, g, x, v)
  <2>1. CASE i = 1
    <3>1. Free(r, x)
      <4>1. \A j \in 1..(n - 1) : j + 1 \in 1..n /\ j + 1 > 1
        BY <1>1
      <4> QED
        BY <1>1, <1>5, <2>1, <4>1 DEF Free
    <3>2. Writes(s[p + 1], x) /\ v = s[p + 1].ops.n
      BY <1>1, <1>2, <1>5, <2>1
    <3>3. \A j \in 1..1 : j > 1 => ~Writes(s[p + j], x)
      OBVIOUS
    <3>4. 1 \in 1..1
      OBVIOUS
    <3>5. Stands(s, p + 1, g, x, s[p + 1].ops.n)
      BY <3>2, <3>3, <3>4, StandsWritten
    <3> QED
      BY <3>1, <3>2, <3>5 DEF Shows
  <2>2. CASE i # 1
    <3>1. i - 1 \in 1..(n - 1) /\ r[i - 1] = q[i]
      BY <1>3, <2>2
    <3>2. ASSUME NEW j \in 1..(n - 1), j > i - 1 PROVE r[j].cell # x
      <4>1. j + 1 \in 1..n /\ j + 1 > i
        BY <1>1, <3>2
      <4> QED
        BY <1>1, <1>5, <4>1
    <3>3. Pending(r, x, v)
      BY <1>1, <1>5, <3>1, <3>2 DEF Pending
    <3> QED
      BY <3>3 DEF Shows
  <2> QED
    BY <2>1, <2>2
<1> QED
  BY <1>4, <1>5 DEF Shows, Pending, r

(* op is the head of the queue. *)
Heads(t, op) == t.queue # <<>> /\ Head(t.queue) = op

(* A tab whose own entry comes next passes it over, now that it is out of the queue. *)
LEMMA PassedOverFaithful ==
  ASSUME NEW c, NEW t, IsTab(t), NEW u, NEW v, NEW s, Slotted(s), NEW g, NEW e \in EntrySet,
         Faithful(c, t, s, g), t.room, e.client = c, Len(t.seen) + 1 \in 1..Len(s),
         s[Len(t.seen) + 1] = e, ~t.resynced => Heads(t, e.ops),
         \A k \in 1..Len(s) : k > Len(t.seen) + 1 => s[k].client # c,
         u.doc = t.doc, u.seen = t.seen, u.resynced = t.resynced,
         ~t.resynced => u.queue = Tail(t.queue), Applies(c, u, v, <<e>>)
  PROVE  Faithful(c, v, s, g)
<1> SUFFICES ASSUME ~v.resynced
             PROVE  /\ \A x \in Cells : Shows(s, Len(v.seen), v.queue, g, x, v.doc[x])
                    /\ OwnQueued(c, v, s)
  BY DEF Faithful
<1> DEFINE p == Len(t.seen)
           one == <<e>>
<1>1. /\ p \in Nat /\ t.seen \in Seq(SlotSet) /\ t.queue \in Seq(OpSet) /\ ~t.resynced
      /\ \A x \in Cells : Shows(s, p, t.queue, g, x, t.doc[x])
  BY DEF IsTab, Applies, Faithful
<1>2. Len(one) = 1 /\ one[1] = e /\ one \in Seq(SlotSet) /\ \A i \in 1..Len(one) : i = 1
  BY DEF SlotSet
<1> HIDE DEF one
<1>3. Len(v.seen) = p + 1
  <2>1. \A f, h \in Seq(SlotSet) : Len(f \o h) = Len(f) + Len(h)
    OBVIOUS
  <2> QED
    BY <1>1, <1>2, <2>1 DEF Applies, one
<1>4. ASSUME NEW x \in Cells PROVE v.doc[x] = t.doc[x]
  <2>1. Writers(c, one, x) = {}
    BY <1>2 DEF Writers
  <2> QED
    BY <2>1 DEF Applies, one
<1>5. v.queue = Tail(t.queue)
  BY <1>1 DEF Applies
<1>6. IsOp(e)
  BY EntryIsOp
<1>7. ASSUME NEW x \in Cells PROVE Shows(s, p + 1, Tail(t.queue), g, x, t.doc[x])
  BY <1>1, <1>6, ShiftedShows DEF Heads
<1>8. OwnQueued(c, v, s)
  BY <1>3 DEF OwnQueued
<1> QED
  BY <1>3, <1>4, <1>5, <1>7, <1>8

(* A tab whose edit is acknowledged as the next position shows it as written. *)
LEMMA AcceptedFaithful ==
  ASSUME NEW t, NEW s, NEW saved, Took(t, s, saved), Slotted(s), t.room, NEW c,
         NEW e, Suits(t, e, s), e.client = c, e.seq = Len(t.seen) + 1, Level(t),
         ~t.resynced => Heads(t, e.ops),
         \A k \in 1..Len(s) : k > Len(t.seen) + 1 => s[k].client # c,
         NEW g, Faithful(c, t, s, g)
  PROVE  Faithful(c, Accepted(c, t, e), s, g)
<1> DEFINE queue == Shift(t.queue)
           u == [t EXCEPT !.submit = NoCall, !.queue = queue]
           a == ApplyEntries(c, u, <<e>>)
           v == IF e.seq = u.applied + 1 THEN Drain(c, a)
                ELSE IF e.seq > u.applied THEN Hold(u, e) ELSE u
           w == Flush(v)
<1>1. Accepted(c, t, e) = w
  BY Zenon DEF Accepted, Shift
<1>2. queue \in Seq(OpSet) /\ (~t.resynced => queue = Tail(t.queue))
  BY DEF Took, IsTab, Shift, Heads
<1> HIDE DEF queue
<1>3. NoCall.phase \in {"idle", "catching"}
  BY DEF NoCall
<1>4. /\ Took(u, s, saved) /\ u.queue = queue /\ u.doc = t.doc /\ u.seen = t.seen
      /\ u.applied = t.applied /\ u.resynced = t.resynced /\ SameSheet(t, u)
  <2>1. /\ DOMAIN u = DOMAIN t /\ u.submit = NoCall /\ u.queue = queue
        /\ u.since = t.since /\ u.resynced = t.resynced /\ Stays(t, u) /\ SameSheet(t, u)
    BY DEF Took, IsTab, Stays, SameSheet
  <2> HIDE DEF u
  <2>2. Settles(t, u)
    BY <1>2, <1>3, <2>1 DEF Settles
  <2> QED
    BY <2>1, <2>2, SettleSound DEF SameSheet
<1> HIDE DEF u
<1>5. e.seq = u.applied + 1
  BY <1>4 DEF Level
<1>6. Suits(u, e, s)
  BY <1>4 DEF Suits, SameSheet, Level
<1>7. Took(a, s, saved)
  <2>1. ComesNext(u, s, <<e>>)
    BY <1>4, <1>5, <1>6, NextComes
  <2> QED
    BY <1>4, <2>1, ApplyEntriesSound
<1>8. Faithful(c, a, s, g)
  <2>1. Applies(c, u, a, <<e>>)
    BY <1>4, ApplyEntriesApplies DEF Took
  <2> HIDE DEF a
  <2>2. e \in EntrySet /\ Len(t.seen) + 1 \in 1..Len(s) /\ s[Len(t.seen) + 1] = e /\ IsTab(t)
    BY DEF Suits, Took
  <2> QED
    BY <1>2, <1>4, <2>1, <2>2, PassedOverFaithful
<1>9. v = Drain(c, a)
  BY <1>5
<1> HIDE DEF a
<1>10. Faithful(c, v, s, g) /\ IsTab(v)
  BY <1>7, <1>8, <1>9, DrainFaithful, DrainSound DEF Took
<1> HIDE DEF v
<1>11. View(v, w)
  BY <1>10, FlushSteers, SteersView
<1> QED
  BY <1>1, <1>10, <1>11, ViewFaithful

(* An acknowledgement on its way is of the next position, nothing of the tab's own is
   behind that, and what arrives before it brings no entry the tab has not taken in. *)
AtHead(c, t, box, s, member, i) ==
  /\ box[i].entry.seq = Len(t.seen) + 1
  /\ Level(t) /\ Took(t, t.seen, 0)
  /\ \A j \in 1..(i - 1) : Fits(c, t, box[j], t.seen, member)
  /\ \A k \in 1..Len(s) : k > Len(t.seen) + 1 => s[k].client # c

(* Whatever arrives, a tab shows what it has taken in. *)
LEMMA HandleFaithful ==
  ASSUME NEW c, NEW t, NEW s, NEW saved, Took(t, s, saved), Slotted(s), NEW member,
         Linked(t, member), NEW m, Fits(c, t, m, s, member), NEW g, Faithful(c, t, s, g),
         ~t.room => /\ \A x \in Cells : Stands(s, Len(t.seen), g, x, t.doc[x])
                    /\ \A k \in 1..Len(s) : s[k].client # c,
         m.kind = "accepted" =>
           /\ m.entry.seq = Len(t.seen) + 1 /\ Level(t)
           /\ ~t.resynced => Heads(t, m.entry.ops)
           /\ \A k \in 1..Len(s) : k > Len(t.seen) + 1 => s[k].client # c
  PROVE  Faithful(c, Handle(c, t, m), s, g)
<1>0. /\ m.kind \in {"op", "file", "joined", "since", "failed", "accepted", "stale", "refused"}
      /\ IsTab(t)
  BY DEF Fits, Messages, Took
<1>1. CASE m.kind = "op"
  <2>1. Handle(c, t, m) = IF t.room THEN Receive(c, t, m.entry) ELSE t
    BY <1>1 DEF Handle
  <2> QED
    BY <1>1, <2>1, ReceiveFaithful DEF Fits
<1>2. CASE m.kind = "file"
  <2>1. Handle(c, t, m) = IF t.room THEN FileChanged(t, m.reset, m.savedSeq) ELSE t
    BY <1>2 DEF Handle
  <2>2. View(t, FileChanged(t, m.reset, m.savedSeq))
    BY <1>0, FileChangedView
  <2> QED
    BY <2>1, <2>2, ViewFaithful
<1>3. CASE m.kind = "joined"
  <2>1. Handle(c, t, m) = Joined(t, m.savedSeq)
    BY <1>3 DEF Handle
  <2>2. CASE t.room
    <3>1. View(t, Joined(t, m.savedSeq))
      BY <1>0, <2>2, RejoinedView DEF Linked
    <3> QED
      BY <2>1, <3>1, ViewFaithful
  <2>3. CASE ~t.room
    <3>1. Len(t.queue) = 0
      BY <2>3 DEF Linked
    <3> QED
      BY <1>0, <2>1, <2>3, <3>1, FirstJoinFaithful
  <2> QED
    BY <2>2, <2>3
<1>4. CASE m.kind = "since"
  <2>1. Handle(c, t, m) = CatchUpAnswer(c, t, m.answer) /\ Answer(t, m.answer, s)
    BY <1>4 DEF Handle, Fits
  <2> QED
    BY <2>1, CatchUpFaithful
<1>5. CASE m.kind = "failed"
  <2>1. Handle(c, t, m) = EndCatchUp(t)
    BY <1>5 DEF Handle
  <2>2. View(t, EndCatchUp(t))
    BY <1>0, EndCatchUpSteers, SteersView
  <2> QED
    BY <2>1, <2>2, ViewFaithful
<1>6. CASE m.kind = "accepted"
  <2>1. /\ Handle(c, t, m) = Accepted(c, t, m.entry) /\ t.room /\ Suits(t, m.entry, s)
        /\ m.entry.client = c
    BY <1>6 DEF Handle, Fits
  <2> QED
    BY <1>6, <2>1, AcceptedFaithful
<1>7. CASE m.kind = "stale"
  <2>1. Handle(c, t, m) = Stale(t)
    BY <1>7 DEF Handle
  <2> QED
    BY <1>0, <2>1, StaleView, ViewFaithful
<1>8. CASE m.kind = "refused"
  <2>1. Handle(c, t, m) = Refused(t)
    BY <1>8 DEF Handle
  <2> QED
    BY <1>0, <2>1, RefusedView, ViewFaithful
<1> QED
  BY <1>0, <1>1, <1>2, <1>3, <1>4, <1>5, <1>6, <1>7, <1>8

-----------------------------------------------------------------------------
(* A tab keeps its place in the log, and what it holds of it. *)
Rests(t, u) ==
  /\ u.applied = t.applied /\ u.reorder = t.reorder /\ u.seen = t.seen /\ u.room = t.room

(* A tab that rests where it was does not fall behind. *)
LEMMA RestsLeads ==
  ASSUME NEW t, NEW u, IsTab(t), Rests(t, u)
  PROVE  Leads(t, u)
<1>1. Len(t.seen) <= Len(t.seen)
  BY DEF IsTab
<1> QED
  BY <1>1 DEF Rests, Leads, Level

(* A tab that takes in nothing past what it has, has what it had. *)
LEMMA NothingNew ==
  ASSUME NEW t, NEW u, IsTab(t), Leads(t, u), Took(u, t.seen, 0)
  PROVE  u.seen = t.seen
<1>1. /\ t.seen \in Seq(SlotSet) /\ u.seen \in Seq(SlotSet)
      /\ Len(u.seen) <= Len(t.seen) /\ Len(t.seen) <= Len(u.seen)
      /\ \A i \in 1..Len(u.seen) : u.seen[i] = t.seen[i]
  BY DEF IsTab, Took, Sees, Leads
<1>2. Len(u.seen) = Len(t.seen)
  BY <1>1
<1>3. \A f, h \in Seq(SlotSet) : Len(f) = Len(h) /\ (\A i \in 1..Len(f) : f[i] = h[i]) => f = h
  OBVIOUS
<1> QED
  BY <1>1, <1>2, <1>3

(* The log that follows is longer by entries that are not the tab's. *)
Grows(c, s, r) ==
  /\ Longer(s, r)
  /\ \A k \in 1..Len(r) : k > Len(s) => r[k].client # c

(* Who was in the room still is. *)
Still(member, member2) == member => member2

(* An acknowledgement stays at the head while its tab moves on. *)
LEMMA AtHeadMoves ==
  ASSUME NEW c, NEW t, NEW u, NEW box, NEW box2, NEW s, NEW r, NEW member, NEW member2,
         NEW i, NEW i2, AtHead(c, t, box, s, member, i), IsTab(t), Leads(t, u),
         Took(u, t.seen, 0), box2[i2] = box[i], Still(member, member2),
         \A j \in 1..(i2 - 1) : \E k \in 1..(i - 1) : box2[j] = box[k],
         Grows(c, s, r), Len(s) \in Nat
  PROVE  AtHead(c, u, box2, r, member2, i2)
<1>1. u.seen = t.seen /\ IsTab(u)
  BY NothingNew DEF Took
<1>2. Level(u)
  BY DEF AtHead, Leads
<1>3. ASSUME NEW j \in 1..(i2 - 1) PROVE Fits(c, u, box2[j], u.seen, member2)
  <2>1. PICK k \in 1..(i - 1) : box2[j] = box[k]
    OBVIOUS
  <2>2. Fits(c, t, box2[j], t.seen, member)
    BY <2>1 DEF AtHead
  <2>3. Fits(c, u, box2[j], t.seen, member)
    BY <1>1, <2>2, StillFits
  <2> QED
    BY <1>1, <2>3 DEF Fits, Still
<1>4. ASSUME NEW k \in 1..Len(r), k > Len(u.seen) + 1 PROVE r[k].client # c
  <2>1. CASE k > Len(s)
    BY <2>1 DEF Grows
  <2>2. CASE ~(k > Len(s))
    <3>1. k \in 1..Len(s)
      BY <2>2
    <3>2. r[k] = s[k] /\ s[k].client # c
      BY <1>1, <1>4, <3>1 DEF AtHead, Grows, Longer
    <3> QED
      BY <3>2
  <2> QED
    BY <2>1, <2>2
<1> QED
  BY <1>1, <1>2, <1>3, <1>4 DEF AtHead

(* A tab at rest is as sound to the log it has taken in as it was. *)
LEMMA TookAgain ==
  ASSUME NEW t, NEW u, NEW s, NEW saved, Took(t, t.seen, 0), Level(t), Rests(t, u),
         Took(u, s, saved)
  PROVE  Took(u, t.seen, 0)
<1>1. IsTab(u) /\ Asks(u) /\ Level(u) /\ (u.since.phase = "asked" => MayAsk(u, u.since.from))
  BY DEF Took, Rests, Level
<1>2. Sees(u, t.seen) /\ Holds(u, t.seen)
  BY DEF Took, Rests, Sees, Holds, Level
<1> QED
  BY <1>1, <1>2 DEF Took

(* A tab shows what it shows when the log grows by the entries of others. *)
LEMMA FaithfulLonger ==
  ASSUME NEW c, NEW t, NEW s, NEW r, NEW g, Faithful(c, t, s, g), Grows(c, s, r),
         Len(s) \in Nat, Len(t.seen) \in 0..Len(s)
  PROVE  Faithful(c, t, r, g)
<1> SUFFICES ASSUME t.room, ~t.resynced
             PROVE  /\ \A x \in Cells : Shows(r, Len(t.seen), t.queue, g, x, t.doc[x])
                    /\ OwnQueued(c, t, r)
  BY DEF Faithful
<1>1. /\ \A x \in Cells : Shows(s, Len(t.seen), t.queue, g, x, t.doc[x])
      /\ OwnQueued(c, t, s)
  BY DEF Faithful
<1>2. ASSUME NEW x \in Cells PROVE Shows(r, Len(t.seen), t.queue, g, x, t.doc[x])
  BY <1>1, StandsLonger DEF Shows, Grows
<1>3. ASSUME NEW k \in 1..Len(r), k > Len(t.seen), r[k].client = c
      PROVE  \E i \in 1..Len(t.queue) : t.queue[i] = r[k].ops
  <2>1. k \in 1..Len(s)
    BY <1>3 DEF Grows
  <2>2. r[k] = s[k]
    BY <2>1 DEF Grows, Longer
  <2> QED
    BY <1>1, <1>3, <2>1, <2>2 DEF OwnQueued
<1> QED
  BY <1>2, <1>3 DEF OwnQueued

(***************************************************************************)
(* What holds of one tab: what it shows; that it shows the file it loaded  *)
(* until its first join; and that an acknowledgement finds it in place.    *)
(***************************************************************************)
Loaded(t, f, saved, member) ==
  t.open /\ ~t.room => t.doc = f /\ (member => Len(t.seen) = saved)

TabShows(c, t, box, s, g, f, saved, member) ==
  /\ Faithful(c, t, s, g) /\ Loaded(t, f, saved, member)
  /\ \A i \in 1..Len(box) : box[i].kind = "accepted" => AtHead(c, t, box, s, member, i)

(* What the file reflects is the log up to the saved position. *)
FileFollows(s, saved, g, f) == \A x \in Cells : Stands(s, saved, g, x, f[x])

SheetShows ==
  /\ FileFollows(slots, log.savedSeq, ground, file)
  /\ \A c \in Tabs :
       TabShows(c, tab[c], inbox[c], slots, ground, file, log.savedSeq, c \in members)

ShownInv == left.network = "socket" => SheetShows

(* The inbox is as it was, or a message that is no acknowledgement is behind it. *)
Gains(box, box2) ==
  /\ Len(box2) >= Len(box) /\ \A j \in 1..Len(box) : box2[j] = box[j]
  /\ \A j \in 1..Len(box2) : j > Len(box) => box2[j].kind # "accepted"

(* An inbox that is as it was gains nothing. *)
LEMMA GainsSame ==
  ASSUME NEW box \in Seq(Messages)
  PROVE  Gains(box, box)
<1>1. Len(box) \in Nat
  OBVIOUS
<1> QED
  BY <1>1 DEF Gains

(* An inbox gains one message. *)
LEMMA GainsOne ==
  ASSUME NEW box \in Seq(Messages), NEW m \in Messages, m.kind # "accepted"
  PROVE  Gains(box, Append(box, m))
<1> DEFINE n == Len(box)
           b == Append(box, m)
<1>1. n \in Nat /\ Len(b) = n + 1 /\ (\A j \in 1..n : b[j] = box[j]) /\ b[n + 1] = m
  <2> HIDE DEF Messages
  <2> QED
    OBVIOUS
<1> HIDE DEF b, n
<1>2. \A j \in 1..(n + 1) : j > n => j = n + 1
  BY <1>1
<1> QED
  BY <1>1, <1>2 DEF Gains, n, b

(* A tab at rest, in a log that others add to. *)
LEMMA TabShowsOn ==
  ASSUME NEW c, NEW t, NEW u, NEW box, NEW box2, NEW s, NEW r, NEW g, NEW f, NEW f2,
         NEW saved, NEW saved2, NEW member, NEW member2,
         TabShows(c, t, box, s, g, f, saved, member), TabFits(c, t, box, s, saved, member),
         IsTab(u), t.room => Took(u, r, saved2), Rests(t, u), Faithful(c, u, r, g),
         Loaded(u, f2, saved2, member2), Gains(box, box2), Still(member, member2), Grows(c, s, r), Len(s) \in Nat
  PROVE  TabShows(c, u, box2, r, g, f2, saved2, member2)
<1>1. Len(box) \in Nat
  <2> HIDE DEF Messages
  <2> QED
    BY DEF TabFits
<1>2. ASSUME NEW i \in 1..Len(box2), box2[i].kind = "accepted"
      PROVE  AtHead(c, u, box2, r, member2, i)
  <2>1. i \in 1..Len(box) /\ box2[i] = box[i]
    BY <1>1, <1>2 DEF Gains
  <2>2. AtHead(c, t, box, s, member, i) /\ t.room
    BY <1>2, <2>1 DEF TabShows, TabFits, Fits
  <2>3. Took(u, t.seen, 0)
    BY <2>2, TookAgain DEF AtHead
  <2>4. Leads(t, u) /\ IsTab(t)
    BY RestsLeads DEF TabFits
  <2>5. ASSUME NEW j \in 1..(i - 1) PROVE \E k \in 1..(i - 1) : box2[j] = box[k]
    <3>1. j \in 1..Len(box)
      BY <1>1, <2>1
    <3> QED
      BY <3>1 DEF Gains
  <2> QED
    BY <2>1, <2>2, <2>3, <2>4, <2>5, AtHeadMoves
<1> QED
  BY <1>2 DEF TabShows

(* It matters only whether the tab is in the room. *)
LEMMA SameMember ==
  ASSUME NEW c, NEW t, NEW box, NEW s, NEW g, NEW f, NEW saved, NEW member, NEW member2,
         TabShows(c, t, box, s, g, f, saved, member), Still(member, member2),
         Still(member2, member)
  PROVE  TabShows(c, t, box, s, g, f, saved, member2)
<1>1. ASSUME NEW m, NEW r, Fits(c, t, m, r, member) PROVE Fits(c, t, m, r, member2)
  BY <1>1 DEF Fits, Still
<1>2. Loaded(t, f, saved, member2)
  BY DEF TabShows, Loaded, Still
<1>3. ASSUME NEW i, AtHead(c, t, box, s, member, i) PROVE AtHead(c, t, box, s, member2, i)
  BY <1>1, <1>3 DEF AtHead
<1> QED
  BY <1>2, <1>3 DEF TabShows

(* A step of one tab that leaves the log and the file. *)
LEMMA OneShown ==
  ASSUME SheetShows, NEW c \in Tabs, UNCHANGED <<log, slots, ground, file>>,
         \A d \in Tabs : d # c => /\ tab'[d] = tab[d] /\ inbox'[d] = inbox[d]
                                  /\ d \in members' <=> d \in members,
         TabShows(c, tab'[c], inbox'[c], slots, ground, file, log.savedSeq, c \in members')
  PROVE  SheetShows'
<1>1. ASSUME NEW d \in Tabs
      PROVE  TabShows(d, tab'[d], inbox'[d], slots, ground, file, log.savedSeq, d \in members')
  <2>1. CASE d = c
    BY <2>1
  <2>2. CASE d # c
    <3>1. TabShows(d, tab[d], inbox[d], slots, ground, file, log.savedSeq, d \in members)
      BY DEF SheetShows
    <3>2. TabShows(d, tab'[d], inbox'[d], slots, ground, file, log.savedSeq, d \in members)
      BY <2>2, <3>1
    <3>3. Still(d \in members, d \in members') /\ Still(d \in members', d \in members)
      BY <2>2 DEF Still
    <3> QED
      BY <3>2, <3>3, SameMember
  <2> QED
    BY <2>1, <2>2
<1> QED
  BY <1>1 DEF SheetShows

(* What the invariants say of one tab and the log. *)
LEMMA OneTabShown ==
  ASSUME TakenInv, KeptInv, SheetShows, NEW c \in Tabs
  PROVE  /\ TabFits(c, tab[c], inbox[c], slots, log.savedSeq, c \in members)
         /\ TabShows(c, tab[c], inbox[c], slots, ground, file, log.savedSeq, c \in members)
         /\ IsTab(tab[c]) /\ Linked(tab[c], c \in members) /\ inbox[c] \in Seq(Messages)
         /\ (tab[c].room \/ c \in members => Took(tab[c], slots, log.savedSeq))
         /\ Slotted(slots) /\ slots \in Seq(SlotSet) /\ Len(slots) \in Nat
         /\ Faithful(c, tab[c], slots, ground) /\ Grows(c, slots, slots)
<1>1. TabShows(c, tab[c], inbox[c], slots, ground, file, log.savedSeq, c \in members)
  BY DEF SheetShows
<1>2. Slotted(slots) /\ slots \in Seq(SlotSet) /\ Len(slots) \in Nat
  BY DEF TakenInv, LogFits, Slotted
<1>3. Grows(c, slots, slots)
  BY <1>2 DEF Grows, Longer
<1> QED
  BY <1>1, <1>2, <1>3, OneTab DEF TabFits, TabShows

(* A step of one tab that rests, and shows what it showed. *)
LEMMA RestShown ==
  ASSUME TakenInv, KeptInv, SheetShows, TakenInv', NEW c \in Tabs,
         UNCHANGED <<log, slots, ground, file>>,
         \A d \in Tabs : d # c => /\ tab'[d] = tab[d] /\ inbox'[d] = inbox[d]
                                  /\ d \in members' <=> d \in members,
         c \in members => c \in members',
         Gains(inbox[c], inbox'[c]), Rests(tab[c], tab'[c]),
         Faithful(c, tab'[c], slots, ground),
         tab'[c].open /\ ~tab'[c].room => /\ tab[c].open /\ tab'[c].doc = tab[c].doc
                                          /\ c \in members' => c \in members
  PROVE  SheetShows'
<1> DEFINE t == tab[c]
           u == tab'[c]
<1>1. IsTab(u) /\ (t.room => Took(u, slots, log.savedSeq))
  BY DEF TakenInv, AllFit, TabFits, Rests
<1>2. /\ TabFits(c, t, inbox[c], slots, log.savedSeq, c \in members)
      /\ TabShows(c, t, inbox[c], slots, ground, file, log.savedSeq, c \in members)
      /\ Grows(c, slots, slots) /\ Len(slots) \in Nat
  BY OneTabShown
<1>3. Loaded(u, file, log.savedSeq, c \in members') /\ Still(c \in members, c \in members')
  BY <1>2 DEF TabShows, Loaded, Still, Rests
<1> HIDE DEF t, u
<1>4. TabShows(c, u, inbox'[c], slots, ground, file, log.savedSeq, c \in members')
  BY <1>1, <1>2, <1>3, TabShowsOn DEF t, u
<1> QED
  BY <1>4, OneShown DEF u

(* A tab that changes calls only is at rest. *)
LEMMA SteersRests ==
  ASSUME NEW t, NEW u, Steers(t, u)
  PROVE  Rests(t, u) /\ View(t, u) /\ u.open = t.open
BY SteersView DEF Steers, SameSheet, SamePlace, Rests

(* TimerFires keeps the third part of the invariant. *)
LEMMA TimerShown ==
  ASSUME TakenInv, KeptInv, SheetShows, TakenInv', NEW c \in Tabs, TimerFires(c)
  PROVE  SheetShows'
<1> DEFINE t == tab[c]
           u == [t EXCEPT !.timer = FALSE]
           v == StartCatchUp(u, t.applied)
<1>1. DOMAIN tab = Tabs /\ IsTab(t) /\ inbox[c] \in Seq(Messages)
      /\ Faithful(c, t, slots, ground)
  BY OneTabShown DEF TakenInv, Typed
<1>2. tab'[c] = v /\ \A d \in Tabs : d # c => tab'[d] = tab[d]
  BY <1>1 DEF TimerFires
<1>3. IsTab(u) /\ Rests(t, u) /\ View(t, u) /\ u.open = t.open
  BY <1>1 DEF IsTab, Rests, View
<1> HIDE DEF u
<1>4. Rests(u, v) /\ View(u, v) /\ v.open = u.open
  BY <1>3, StartCatchUpSteers, SteersRests
<1> HIDE DEF v
<1>5. Rests(t, v) /\ View(t, v) /\ v.open = t.open
  BY <1>3, <1>4 DEF Rests, View
<1>6. Faithful(c, v, slots, ground)
  BY <1>1, <1>5, ViewFaithful
<1>7. Gains(inbox[c], inbox'[c])
  BY <1>1, GainsSame DEF TimerFires
<1>8. UNCHANGED <<log, members, file, inbox, slots, ground>>
  BY DEF TimerFires
<1> QED
  BY <1>2, <1>5, <1>6, <1>7, <1>8, RestShown DEF View

(* Reconnect keeps the third part of the invariant. *)
LEMMA ReconnectShown ==
  ASSUME TakenInv, KeptInv, SheetShows, TakenInv', NEW c \in Tabs, Reconnect(c)
  PROVE  SheetShows'
<1> DEFINE t == tab[c]
           u == [t EXCEPT !.link = TRUE, !.join = [phase |-> "asked"]]
<1>1. DOMAIN tab = Tabs /\ IsTab(t) /\ inbox[c] \in Seq(Messages)
      /\ Faithful(c, t, slots, ground)
  BY OneTabShown DEF TakenInv, Typed
<1>2. tab'[c] = u /\ \A d \in Tabs : d # c => tab'[d] = tab[d]
  BY <1>1 DEF Reconnect
<1>3. Rests(t, u) /\ View(t, u) /\ u.open = t.open
  BY <1>1 DEF IsTab, Rests, View
<1> HIDE DEF u
<1>4. Faithful(c, u, slots, ground)
  BY <1>1, <1>3, ViewFaithful
<1>5. Gains(inbox[c], inbox'[c])
  BY <1>1, GainsSame DEF Reconnect
<1>6. UNCHANGED <<log, members, file, inbox, slots, ground>>
  BY DEF Reconnect
<1> QED
  BY <1>2, <1>3, <1>4, <1>5, <1>6, RestShown DEF View

(* HubSince keeps the third part of the invariant. *)
LEMMA SinceShown ==
  ASSUME TakenInv, KeptInv, SheetShows, TakenInv', NEW c \in Tabs, HubSince(c)
  PROVE  SheetShows'
<1> DEFINE t == tab[c]
           u == [t EXCEPT !.since = [phase |-> "answered"]]
<1>1. DOMAIN tab = Tabs /\ IsTab(t) /\ inbox[c] \in Seq(Messages)
      /\ Faithful(c, t, slots, ground)
  BY OneTabShown DEF TakenInv, Typed
<1>2. tab'[c] = u
  BY <1>1 DEF HubSince
<1>3. Rests(t, u) /\ View(t, u) /\ u.open = t.open
  BY <1>1 DEF IsTab, Rests, View
<1> HIDE DEF u
<1>4. Faithful(c, u, slots, ground)
  BY <1>1, <1>3, ViewFaithful
<1>5. /\ Gains(inbox[c], inbox'[c])
      /\ \A d \in Tabs : d # c => tab'[d] = tab[d] /\ inbox'[d] = inbox[d]
  <2>1. PICK m \in Messages : /\ inbox'[c] = Append(inbox[c], m)
                              /\ m.kind \in {"since", "failed"}
    BY SinceTaken
  <2>2. m.kind # "accepted"
    BY <2>1
  <2>3. Gains(inbox[c], Append(inbox[c], m))
    BY <1>1, <2>2, GainsOne
  <2> QED
    BY <2>1, <2>3, SinceTaken
<1>6. UNCHANGED <<log, members, file, slots, ground>>
  BY DEF HubSince
<1> QED
  BY <1>2, <1>3, <1>4, <1>5, <1>6, RestShown DEF View

(* HubRefuses keeps the third part of the invariant. *)
LEMMA RefusesShown ==
  ASSUME TakenInv, KeptInv, SheetShows, TakenInv', NEW c \in Tabs, HubRefuses(c)
  PROVE  SheetShows'
<1> DEFINE t == tab[c]
           u == tab'[c]
<1>1. inbox[c] \in Seq(Messages) /\ Faithful(c, t, slots, ground)
  BY OneTabShown
<1>2. Submitted(t, u)
  BY RefusesTaken
<1>3. Rests(t, u) /\ View(t, u) /\ u.open = t.open
  BY <1>2 DEF Submitted, SameSheet, SamePlace, Rests, View
<1>4. Faithful(c, u, slots, ground)
  BY <1>1, <1>3, ViewFaithful
<1>5. /\ Gains(inbox[c], inbox'[c])
      /\ \A d \in Tabs : d # c => tab'[d] = tab[d] /\ inbox'[d] = inbox[d]
  <2>1. PICK k \in {"refused", "stale"} : inbox'[c] = Append(inbox[c], [kind |-> k])
    BY RefusesTaken
  <2>2. [kind |-> k] \in Messages /\ [kind |-> k].kind # "accepted"
    BY DEF Messages
  <2>3. Gains(inbox[c], Append(inbox[c], [kind |-> k]))
    BY <1>1, <2>2, GainsOne
  <2> QED
    BY <2>1, <2>3, RefusesTaken
<1>6. UNCHANGED <<log, members, file, slots, ground>>
  BY DEF HubRefuses
<1> HIDE DEF t, u
<1> QED
  BY <1>3, <1>4, <1>5, <1>6, RestShown DEF View, t, u

(* A log in which every edit was made holds none of a tab that made none. *)
LEMMA NoneOfIts ==
  ASSUME NEW c \in Tabs, NEW s \in Seq(SlotSet), NEW m, SlotsMade(s, m), MadeIn(c, m) = {},
         NEW k \in 1..Len(s)
  PROVE  s[k].client # c
<1> SUFFICES ASSUME s[k].client = c PROVE FALSE
  OBVIOUS
<1>1. IsOp(s[k])
  BY SheetAssumption DEF IsOp
<1>2. s[k].ops.n \in 1..Len(m) /\ m[s[k].ops.n] = c
  BY <1>1 DEF SlotsMade
<1> QED
  BY <1>2 DEF MadeIn

(* What a tab has taken in is numbered like the log. *)
LEMMA SeenSlotted ==
  ASSUME NEW t, NEW s, NEW saved, Took(t, s, saved), Slotted(s)
  PROVE  Slotted(t.seen)
<1>1. /\ t.seen \in Seq(SlotSet) /\ \A i \in 1..Len(t.seen) : t.seen[i] = s[i] /\ i \in 1..Len(s)
  BY DEF Took, IsTab, Sees, Slotted
<1> QED
  BY <1>1 DEF Slotted

(* An acknowledgement stays at the head while what is before it arrives. *)
LEMMA AtHeadStays ==
  ASSUME NEW c, NEW t, NEW u, NEW box \in Seq(Messages), NEW s, NEW saved, NEW member,
         Took(t, s, saved), Slotted(s), Linked(t, member), Len(box) > 0,
         u = Handle(c, t, box[1]), NEW i \in 1..(Len(box) - 1),
         AtHead(c, t, box, s, member, i + 1)
  PROVE  AtHead(c, u, RemoveAt(box, 1), s, member, i)
<1> DEFINE n == Len(box)
           r == RemoveAt(box, 1)
<1>1. /\ n \in Nat /\ 1 \in 1..n
      /\ \A j \in 1..(n - 1) : r[j] = box[j + 1]
  <2>1. n \in Nat /\ 1 \in 1..n
    <3> HIDE DEF Messages
    <3> QED
      OBVIOUS
  <2>2. \A j \in 1..(n - 1) : r[j] = IF j < 1 THEN box[j] ELSE box[j + 1]
    BY <2>1, RemoveElements
  <2>3. \A j \in 1..(n - 1) : ~(j < 1)
    BY <2>1
  <2> HIDE DEF r, n
  <2>4. \A j \in 1..(n - 1) : r[j] = box[j + 1]
    BY <2>2, <2>3
  <2> QED
    BY <2>1, <2>4 DEF n
<1> HIDE DEF r
<1>2. 1 \in 1..(i + 1 - 1) /\ i \in Nat
  BY <1>1
<1>3. Fits(c, t, box[1], t.seen, member) /\ Took(t, t.seen, 0)
  BY <1>2 DEF AtHead
<1>4. Slotted(t.seen)
  BY SeenSlotted
<1>5. Handles(c, t, u, box[1], t.seen, 0, member)
  BY <1>3, <1>4, HandleSound
<1>6. Leads(t, u) /\ Took(u, t.seen, 0)
  BY <1>5 DEF Handles
<1>7. r[i] = box[i + 1]
  BY <1>1
<1>8. ASSUME NEW j \in 1..(i - 1) PROVE \E k \in 1..(i + 1 - 1) : r[j] = box[k]
  <2>1. j \in 1..(n - 1) /\ j + 1 \in 1..(i + 1 - 1)
    BY <1>1
  <2> QED
    BY <1>1, <2>1
<1>9. Grows(c, s, s) /\ Len(s) \in Nat /\ IsTab(t) /\ Still(member, member)
  BY DEF Grows, Longer, Slotted, Took, Still
<1>10. AtHead(c, u, r, s, member, i)
  BY <1>6, <1>7, <1>8, <1>9, AtHeadMoves
<1> QED
  BY <1>10 DEF r

(* Deliver keeps the third part of the invariant: on a socket messages keep their
   order. *)
LEMMA DeliverShown ==
  ASSUME TakenInv, KeptInv, SheetShows, NEW c \in Tabs, NEW i \in Arriving(c),
         left.network = "socket",
         tab' = [tab EXCEPT ![c] = Handle(c, tab[c], inbox[c][i])],
         inbox' = [inbox EXCEPT ![c] = RemoveAt(inbox[c], i)],
         UNCHANGED <<log, members, file, left, slots, ground, made>>
  PROVE  SheetShows'
<1> DEFINE t == tab[c]
           box == inbox[c]
           m == box[1]
           u == tab'[c]
           member == c \in members
<1>1. i = 1 /\ 1 \in 1..Len(box)
  BY DEF Arriving
<1>2. /\ TabFits(c, t, box, slots, log.savedSeq, member) /\ IsTab(t) /\ Linked(t, member)
      /\ TabShows(c, t, box, slots, ground, file, log.savedSeq, member)
      /\ box \in Seq(Messages) /\ Slotted(slots) /\ slots \in Seq(SlotSet)
      /\ Faithful(c, t, slots, ground) /\ (t.room \/ member => Took(t, slots, log.savedSeq))
  BY OneTabShown
<1>3. Fits(c, t, m, slots, member) /\ Handles(c, t, u, m, slots, log.savedSeq, member)
  BY <1>1, DeliverTaken
<1>4. Took(t, slots, log.savedSeq)
  BY <1>2, <1>3 DEF Fits
<1>5. /\ u = Handle(c, t, m) /\ inbox'[c] = RemoveAt(box, 1)
      /\ \A d \in Tabs : d # c => tab'[d] = tab[d] /\ inbox'[d] = inbox[d]
  BY <1>1 DEF TakenInv, Typed
<1>6. ASSUME ~t.room
      PROVE  /\ \A x \in Cells : Stands(slots, Len(t.seen), ground, x, t.doc[x])
             /\ \A k \in 1..Len(slots) : slots[k].client # c
             /\ t.doc = file /\ member
  <2>1. member /\ t.open
    BY <1>2, <1>3, <1>6 DEF Fits, Linked
  <2>2. t.doc = file /\ Len(t.seen) = log.savedSeq
    BY <1>2, <1>6, <2>1 DEF TabShows, Loaded
  <2>3. SlotsMade(slots, made) /\ MadeIn(c, made) = {}
    BY <1>6, <2>1 DEF KeptInv, Unused
  <2> QED
    BY <1>2, <2>1, <2>2, <2>3, NoneOfIts DEF SheetShows, FileFollows
<1>7. ASSUME m.kind = "accepted"
      PROVE  /\ m.entry.seq = Len(t.seen) + 1 /\ Level(t)
             /\ ~t.resynced => Heads(t, m.entry.ops)
             /\ \A k \in 1..Len(slots) : k > Len(t.seen) + 1 => slots[k].client # c
  <2>1. AtHead(c, t, box, slots, member, 1)
    BY <1>1, <1>2, <1>7 DEF TabShows
  <2>2. t.submit.phase = "answered" /\ m.entry.ops = t.submit.op
    BY <1>1, <1>7 DEF KeptInv, KeptTab, Replies, Reply2
  <2>3. ~t.resynced => Heads(t, m.entry.ops)
    BY <2>2 DEF KeptInv, KeptTab, Keeps, Sending, Heads
  <2> QED
    BY <2>1, <2>3 DEF AtHead
<1> HIDE DEF t, box, m, u, member
<1>8. Faithful(c, u, slots, ground)
  <2>1. Faithful(c, Handle(c, t, m), slots, ground)
    BY <1>2, <1>3, <1>4, <1>6, <1>7, HandleFaithful
  <2> QED
    BY <1>5, <2>1
<1>9. Loaded(u, file, log.savedSeq, member)
  <2> SUFFICES ASSUME u.open, ~u.room PROVE Loaded(u, file, log.savedSeq, member)
    BY DEF Loaded
  <2>1. ~t.room /\ t.open
    BY <1>3 DEF Handles, Leads
  <2>2. Fits(c, t, m, slots, TRUE)
    BY <1>3, <1>6, <2>1 DEF Fits
  <2>3. u = t
    BY <1>2, <1>5, <2>1, <2>2, OutsideHandled
  <2> QED
    BY <1>2, <2>3 DEF TabShows
<1>10. ASSUME NEW j \in 1..Len(RemoveAt(box, 1)), RemoveAt(box, 1)[j].kind = "accepted"
       PROVE  AtHead(c, u, RemoveAt(box, 1), slots, member, j)
  <2> DEFINE n == Len(box)
             r == RemoveAt(box, 1)
  <2>1. n \in Nat
    <3> HIDE DEF Messages
    <3> QED
      BY <1>2
  <2>2. Len(r) = n - 1 /\ \A k \in 1..(n - 1) : r[k] = IF k < 1 THEN box[k] ELSE box[k + 1]
    BY <1>1, <1>2, RemoveElements
  <2> HIDE DEF r, n
  <2>3. j \in 1..(n - 1) /\ r[j].kind = "accepted"
    BY <1>10, <2>2 DEF r
  <2>4. r[j] = box[j + 1] /\ j + 1 \in 1..n /\ n > 0
    BY <2>1, <2>2, <2>3
  <2>5. AtHead(c, t, box, slots, member, j + 1)
    BY <1>2, <2>3, <2>4 DEF TabShows, n
  <2>6. j \in 1..(Len(box) - 1) /\ Len(box) > 0
    BY <2>3, <2>4 DEF n
  <2>7. AtHead(c, u, RemoveAt(box, 1), slots, member, j)
    BY <1>2, <1>4, <1>5, <2>5, <2>6, AtHeadStays DEF m
  <2> QED
    BY <2>7
<1>11. TabShows(c, u, RemoveAt(box, 1), slots, ground, file, log.savedSeq, member)
  BY <1>8, <1>9, <1>10 DEF TabShows
<1> QED
  BY <1>5, <1>11, OneShown DEF u, box, member

(* Open keeps the third part of the invariant. *)
LEMMA OpenShown ==
  ASSUME TakenInv, KeptInv, SheetShows, NEW c \in Tabs, Open(c)
  PROVE  SheetShows'
<1> DEFINE call == [phase |-> "asked"]
           u == [Closed EXCEPT !.open = TRUE, !.link = TRUE, !.doc = file, !.join = call]
<1>1. /\ tab' = [tab EXCEPT ![c] = u] /\ c \in left.opens
      /\ UNCHANGED <<log, members, file, inbox, slots, ground, made>>
  BY DEF Open
<1>2. inbox[c] = <<>> /\ ~tab'[c].room
  BY OpenTaken
<1>3. DOMAIN tab = Tabs /\ ~tab[c].open /\ Linked(tab[c], c \in members)
  BY <1>1, OneTab DEF TakenInv, Typed
<1>4. c \notin members
  BY <1>3 DEF Linked
<1> HIDE DEF call
<1>5. u.doc = file
  BY ClosedFits DEF IsTab
<1> HIDE DEF u
<1>6. tab'[c] = u /\ \A d \in Tabs : d # c => tab'[d] = tab[d]
  BY <1>1, <1>3
<1>7. \A i \in 1..Len(inbox'[c]) : FALSE
  <2>1. 1..Len(<<>>) = {}
    OBVIOUS
  <2> QED
    BY <1>1, <1>2, <2>1, Zenon
<1>8. TabShows(c, u, inbox'[c], slots, ground, file, log.savedSeq, c \in members')
  BY <1>1, <1>2, <1>4, <1>5, <1>6, <1>7 DEF TabShows, Faithful, Loaded
<1>9. \A d \in Tabs : d # c => /\ tab'[d] = tab[d] /\ inbox'[d] = inbox[d]
                               /\ d \in members' <=> d \in members
  BY <1>1, <1>6
<1> QED
  BY <1>1, <1>6, <1>8, <1>9, OneShown

(* A pending write is what its cell shows. *)
LEMMA PushedShows ==
  ASSUME NEW s, NEW k, NEW q \in Seq(OpSet), NEW op \in OpSet, NEW g, NEW x, NEW v,
         Shows(s, k, q, g, x, v)
  PROVE  Shows(s, k, Append(q, op), g, x, IF x = op.cell THEN op.n ELSE v)
<1> DEFINE r == Append(q, op)
           n == Len(q)
<1>1. n \in Nat /\ Len(r) = n + 1 /\ r[n + 1] = op /\ \A i \in 1..n : r[i] = q[i]
  OBVIOUS
<1>2. \A i \in 1..(n + 1) : i \in 1..n \/ i = n + 1
  BY <1>1
<1>3. \A i \in 1..n : i \in 1..(n + 1)
  BY <1>1
<1> HIDE DEF r
<1>4. CASE x = op.cell
  <2>1. n + 1 \in 1..(n + 1) /\ \A j \in 1..(n + 1) : ~(j > n + 1)
    BY <1>1
  <2>2. Pending(r, x, op.n)
    BY <1>1, <1>4, <2>1 DEF Pending
  <2> QED
    BY <1>4, <2>2 DEF Shows, r
<1>5. CASE x # op.cell
  <2>1. ASSUME Free(q, x) PROVE Free(r, x)
    BY <1>1, <1>2, <1>5, <2>1 DEF Free
  <2>2. ASSUME Pending(q, x, v) PROVE Pending(r, x, v)
    <3>1. PICK i \in 1..n : q[i].cell = x /\ v = q[i].n /\ \A j \in 1..n : j > i => q[j].cell # x
      BY <2>2 DEF Pending
    <3>2. \A j \in 1..(n + 1) : j > i => r[j].cell # x
      BY <1>1, <1>2, <1>5, <3>1
    <3> QED
      BY <1>1, <1>3, <3>1, <3>2 DEF Pending
  <2> QED
    BY <1>5, <2>1, <2>2 DEF Shows, r
<1> QED
  BY <1>4, <1>5

(* An edit is shown at once. *)
LEMMA PushFaithful ==
  ASSUME NEW c, NEW t, IsTab(t), NEW s, NEW g, Faithful(c, t, s, g), NEW op \in OpSet,
         NEW u, u = Push(Written(t, op.cell, op.n), op)
  PROVE  Faithful(c, u, s, g) /\ Rests(t, u) /\ u.open = t.open
<1> DEFINE queue == Append(t.queue, op)
           doc == [x \in Cells |-> IF x = op.cell THEN op.n ELSE t.doc[x]]
           w == Written(t, op.cell, op.n)
           v == [w EXCEPT !.queue = queue]
<1>1. /\ w.open = t.open /\ w.applied = t.applied /\ w.reorder = t.reorder /\ w.seen = t.seen
      /\ w.room = t.room /\ w.queue = t.queue /\ w.doc = doc /\ w.resynced = t.resynced
      /\ DOMAIN w = DOMAIN t
  BY DEF IsTab, Written
<1>2. u = Flush(v)
  BY <1>1 DEF Push
<1>3. queue \in Seq(OpSet) /\ Len(queue) = Len(t.queue) + 1 /\ Len(t.queue) \in Nat
      /\ \A i \in 1..Len(t.queue) : queue[i] = t.queue[i] /\ i \in 1..Len(queue)
  BY DEF IsTab
<1>4. \A x \in Cells : doc[x] = IF x = op.cell THEN op.n ELSE t.doc[x]
  OBVIOUS
<1>5. \A x \in Cells : \A y : Shows(s, Len(t.seen), t.queue, g, x, y) =>
        Shows(s, Len(t.seen), queue, g, x, IF x = op.cell THEN op.n ELSE y)
  BY PushedShows DEF IsTab
<1> HIDE DEF w, queue, doc
<1>6. /\ v.open = t.open /\ v.seen = t.seen /\ v.queue = queue /\ v.doc = doc
      /\ v.resynced = t.resynced /\ Rests(t, v)
  BY <1>1 DEF IsTab, Rests
<1>7. IsTab(v)
  <2>1. w.submit = t.submit
    BY DEF w, Written, IsTab
  <2>2. v.submit = w.submit /\ DOMAIN v = DOMAIN t /\ v.applied = t.applied
    BY <1>1 DEF IsTab
  <2> HIDE DEF v
  <2> QED
    BY <1>3, <1>6, <2>1, <2>2 DEF IsTab
<1> HIDE DEF v
<1>8. Faithful(c, v, s, g)
  <2> SUFFICES ASSUME v.room, ~v.resynced PROVE Faithful(c, v, s, g)
    BY DEF Faithful
  <2>1. \A x \in Cells : Shows(s, Len(v.seen), v.queue, g, x, v.doc[x])
    BY <1>4, <1>5, <1>6 DEF Faithful, Rests
  <2>2. OwnQueued(c, t, s)
    BY <1>6 DEF Faithful, Rests
  <2>3. OwnQueued(c, v, s)
    BY <1>3, <1>6, <2>2 DEF OwnQueued
  <2> QED
    BY <2>1, <2>3 DEF Faithful
<1>9. Rests(v, u) /\ View(v, u) /\ u.open = v.open
  BY <1>2, <1>7, FlushSteers, SteersRests
<1>10. Faithful(c, u, s, g)
  BY <1>8, <1>9, ViewFaithful
<1> QED
  BY <1>6, <1>9, <1>10 DEF Rests

(* Edit keeps the third part of the invariant. *)
LEMMA EditShown ==
  ASSUME TakenInv, KeptInv, SheetShows, TakenInv', NEW c \in Tabs, NEW cell \in Cells,
         Edit(c, cell)
  PROVE  SheetShows'
<1> DEFINE n == Len(made) + 1
           op == [n |-> n, cell |-> cell]
           t == tab[c]
           u == Push(Written(t, cell, n), op)
<1>1. /\ tab' = [tab EXCEPT ![c] = u]
      /\ UNCHANGED <<log, members, file, inbox, slots, ground>>
  BY DEF Edit
<1>2. /\ DOMAIN tab = Tabs /\ IsTab(t) /\ inbox[c] \in Seq(Messages) /\ made \in Seq(Tabs)
      /\ Faithful(c, t, slots, ground)
  BY OneTabShown DEF TakenInv, Typed
<1>3. op \in OpSet /\ op.n = n /\ op.cell = cell
  BY <1>2 DEF OpSet
<1> HIDE DEF op, n
<1>4. u = Push(Written(t, op.cell, op.n), op)
  BY <1>3
<1> HIDE DEF u
<1>5. tab'[c] = u /\ \A d \in Tabs : d # c => tab'[d] = tab[d]
  BY <1>1, <1>2
<1>6. Faithful(c, u, slots, ground) /\ Rests(t, u) /\ u.open = t.open
  BY <1>2, <1>3, <1>4, PushFaithful
<1>7. Gains(inbox[c], inbox'[c])
  BY <1>1, <1>2, GainsSame
<1>8. tab[c].room
  BY EditTaken
<1> QED
  BY <1>1, <1>5, <1>6, <1>7, <1>8, RestShown DEF Rests

(* HubJoin keeps the third part of the invariant: a tab that joins for the first time
   has taken in what its file reflects. *)
LEMMA JoinShown ==
  ASSUME TakenInv, OpensFile, KeptInv, SheetShows, TakenInv', NEW c \in Tabs, HubJoin(c)
  PROVE  SheetShows'
<1> DEFINE t == tab[c]
           call == [phase |-> "answered"]
           seen == TakenInBy(t)
           u == [t EXCEPT !.join = call, !.seen = seen]
           m == [kind |-> "joined", savedSeq |-> log.savedSeq]
           box == inbox[c]
           member2 == c \in members'
<1>1. /\ tab' = [tab EXCEPT ![c] = u] /\ members' = members \cup {c}
      /\ UNCHANGED <<log, file, left, slots, ground, made>>
  BY DEF HubJoin
<1>2. /\ TabFits(c, t, box, slots, log.savedSeq, c \in members)
      /\ TabShows(c, t, box, slots, ground, file, log.savedSeq, c \in members)
      /\ IsTab(t) /\ Linked(t, c \in members) /\ box \in Seq(Messages)
      /\ Faithful(c, t, slots, ground) /\ Grows(c, slots, slots) /\ Len(slots) \in Nat
  BY OneTabShown
<1>3. DOMAIN tab = Tabs /\ LogFits(log, slots)
  BY DEF TakenInv, Typed
<1>4. m \in Messages /\ m.kind = "joined" /\ m.savedSeq = log.savedSeq
  BY <1>3 DEF LogFits, Messages
<1>5. inbox'[c] = Append(box, m) /\ \A d \in Tabs : d # c => tab'[d] = tab[d] /\ inbox'[d] = inbox[d]
  BY JoinTaken
<1>6. Gains(box, inbox'[c])
  BY <1>2, <1>4, <1>5, GainsOne
<1>7. \A d \in Tabs : d # c => (d \in members' <=> d \in members)
  BY <1>1
<1> HIDE DEF call, seen, m
<1>8. /\ u.open = t.open /\ u.room = t.room /\ u.applied = t.applied /\ u.reorder = t.reorder
      /\ u.seen = seen /\ u.queue = t.queue /\ u.resynced = t.resynced /\ u.doc = t.doc
  BY <1>2 DEF IsTab
<1> HIDE DEF u
<1>9. tab'[c] = u
  BY <1>1, <1>3
<1>10. TabFits(c, u, inbox'[c], slots, log.savedSeq, member2)
  BY <1>1, <1>9 DEF TakenInv, AllFit
<1>11. CASE t.room
  <2>1. Rests(t, u) /\ View(t, u)
    BY <1>8, <1>11 DEF Rests, View, seen, TakenInBy
  <2>2. Faithful(c, u, slots, ground)
    BY <1>2, <2>1, ViewFaithful
  <2>3. ~(tab'[c].open /\ ~tab'[c].room) /\ (c \in members => c \in members')
    BY <1>1, <1>8, <1>9, <1>11
  <2> QED
    BY <1>1, <1>5, <1>6, <1>7, <1>9, <2>1, <2>2, <2>3, RestShown
<1>12. CASE ~t.room
  <2>1. u.doc = file
    <3>1. t.open
      BY <1>2 DEF Linked, HubJoin
    <3> QED
      BY <1>2, <1>8, <1>12, <3>1 DEF TabShows, Loaded
  <2>2. Len(u.seen) = log.savedSeq
    BY <1>3, <1>8, <1>12, <2>1 DEF seen, LogFits, TakenInBy
  <2>3. Faithful(c, u, slots, ground) /\ Loaded(u, file, log.savedSeq, member2)
    BY <1>8, <1>12, <2>1, <2>2 DEF Faithful, Loaded
  <2>4. \A i \in 1..Len(inbox'[c]) : inbox'[c][i].kind # "accepted"
    BY <1>8, <1>10, <1>12 DEF TabFits, Fits
  <2>5. TabShows(c, u, inbox'[c], slots, ground, file, log.savedSeq, member2)
    BY <2>3, <2>4 DEF TabShows
  <2> QED
    BY <1>1, <1>5, <1>7, <1>9, <2>5, OneShown
<1> QED
  BY <1>11, <1>12

(* The log is longer by one entry. *)
LEMMA GrowsOne ==
  ASSUME NEW c, NEW s \in Seq(SlotSet), NEW e \in SlotSet, e.client # c
  PROVE  Grows(c, s, Append(s, e))
<1> DEFINE n == Len(s)
           r == Append(s, e)
<1>1. n \in Nat /\ Len(r) = n + 1 /\ r[n + 1] = e /\ \A i \in 1..n : r[i] = s[i]
  OBVIOUS
<1> HIDE DEF r, n
<1>2. \A k \in 1..(n + 1) : k > n => k = n + 1
  BY <1>1
<1> QED
  BY <1>1, <1>2 DEF Grows, Longer, r, n

(* The tab whose edit the hub accepts has taken in all there was before it. *)
LEMMA AcceptedAtHead ==
  ASSUME NEW c, NEW t, NEW u, NEW box \in Seq(Messages), NEW s \in Seq(SlotSet), NEW saved,
         NEW member, TabFits(c, t, box, s, saved, member), t.room, t.seen = s, Level(t),
         Submitted(t, u), NEW e \in SlotSet, e.seq = Len(s) + 1,
         NEW a \in Messages, a.kind = "accepted", a.entry = e
  PROVE  AtHead(c, u, Append(box, a), Append(s, e), member, Len(box) + 1)
<1> DEFINE n == Len(box)
           b == Append(box, a)
           r == Append(s, e)
<1>1. n \in Nat /\ b[n + 1] = a /\ \A j \in 1..n : b[j] = box[j]
  <2> HIDE DEF Messages
  <2> QED
    OBVIOUS
<1>2. Len(r) = Len(s) + 1 /\ Len(s) \in Nat
  OBVIOUS
<1> HIDE DEF b, r
<1>3. /\ u.seen = s /\ Level(u) /\ IsTab(u) /\ IsTab(t) /\ Rests(t, u)
      /\ Took(t, s, saved)
  BY DEF Submitted, SameSheet, SamePlace, Level, TabFits, Rests
<1>4. Took(t, t.seen, 0)
  BY <1>3 DEF Took
<1>5. Took(u, u.seen, 0)
  <2>1. Took(u, s, saved)
    BY <1>3, SameTook DEF Submitted
  <2> QED
    BY <1>3, <1>4, <2>1, TookAgain
<1>6. ASSUME NEW j \in 1..(n + 1 - 1) PROVE Fits(c, u, b[j], u.seen, member)
  <2>1. b[j] = box[j] /\ j \in 1..Len(box)
    BY <1>1 DEF n
  <2>2. Fits(c, t, b[j], s, member) /\ Leads(t, u)
    BY <1>3, <2>1, RestsLeads DEF TabFits
  <2> QED
    BY <1>3, <2>2, StillFits
<1>7. \A k \in 1..Len(r) : ~(k > Len(u.seen) + 1)
  BY <1>2, <1>3
<1> HIDE DEF n
<1>8. AtHead(c, u, b, r, member, n + 1)
  BY <1>1, <1>3, <1>5, <1>6, <1>7 DEF AtHead
<1> QED
  BY <1>8 DEF b, r, n

(* HubAccepts keeps the third part of the invariant. *)
LEMMA AcceptsShown ==
  ASSUME TakenInv, KeptInv, SheetShows, TakenInv', NEW c \in Tabs, HubAccepts(c)
  PROVE  SheetShows'
<1> DEFINE t == tab[c]
           op == t.submit.op
           e == Entry(Len(slots) + 1, c, op)
           a == [kind |-> "accepted", entry |-> e]
           member == c \in members
<1>1. /\ Submitted(t, tab'[c]) /\ op \in OpSet
      /\ t.submit.phase = "asked" /\ t.room
      /\ slots' = Append(slots, e) /\ inbox'[c] = Append(inbox[c], a)
      /\ \A d \in Tabs : d # c =>
           /\ tab'[d] = tab[d]
           /\ \/ inbox'[d] = inbox[d]
              \/ \E x \in EntrySet : inbox'[d] = Append(inbox[d], [kind |-> "op", entry |-> x])
  BY AcceptsTaken
<1>2. /\ TabFits(c, t, inbox[c], slots, log.savedSeq, member)
      /\ TabShows(c, t, inbox[c], slots, ground, file, log.savedSeq, member)
      /\ IsTab(t) /\ inbox[c] \in Seq(Messages)
      /\ slots \in Seq(SlotSet) /\ Faithful(c, t, slots, ground) /\ Len(slots) \in Nat
      /\ KeptTab(c, t, inbox[c], slots, made, left.network)
  BY OneTabShown, OneTab
<1>3. members' = members /\ file' = file /\ ground' = ground /\ log'.savedSeq = log.savedSeq
  BY DEF HubAccepts, AppendOp
<1>4. t.seen = slots /\ Level(t)
  BY AcceptsFromWhole
<1>5. /\ e \in EntrySet /\ e \in SlotSet /\ e.client = c /\ e.ops = op
      /\ e.seq = Len(slots) + 1
  <2>1. e \in EntrySet /\ e.client = c /\ e.ops = op /\ e.seq = Len(slots) + 1
    BY <1>1, <1>2 DEF Entry, EntrySet
  <2> QED
    BY <2>1 DEF SlotSet
<1> HIDE DEF e
<1>6. a \in Messages /\ a.kind = "accepted" /\ a.entry = e
  BY <1>5 DEF Messages
<1> HIDE DEF a
<1>7. /\ Len(slots') = Len(slots) + 1 /\ slots'[Len(slots) + 1] = e
      /\ \A i \in 1..Len(slots) : slots'[i] = slots[i]
  BY <1>1, <1>2, <1>5
<1>8. Longer(slots, slots')
  BY <1>2, <1>7 DEF Longer
<1>9. FileFollows(slots', log'.savedSeq, ground', file')
  <2>1. log.savedSeq \in 0..Len(slots)
    BY DEF TakenInv, LogFits
  <2>2. ASSUME NEW x \in Cells PROVE Stands(slots', log.savedSeq, ground, x, file[x])
    <3>1. Stands(slots, log.savedSeq, ground, x, file[x])
      BY DEF SheetShows, FileFollows
    <3> QED
      BY <1>2, <1>8, <2>1, <3>1, StandsLonger
  <2> QED
    BY <1>3, <2>2 DEF FileFollows
<1>10. ASSUME NEW d \in Tabs, d # c
       PROVE  TabShows(d, tab'[d], inbox'[d], slots', ground', file', log'.savedSeq, d \in members')
  <2>1. /\ TabFits(d, tab[d], inbox[d], slots, log.savedSeq, d \in members)
        /\ TabShows(d, tab[d], inbox[d], slots, ground, file, log.savedSeq, d \in members)
        /\ IsTab(tab[d]) /\ inbox[d] \in Seq(Messages) /\ Faithful(d, tab[d], slots, ground)
        /\ (tab[d].room => Took(tab[d], slots, log.savedSeq))
    BY OneTabShown
  <2>2. Gains(inbox[d], inbox'[d])
    <3>1. CASE inbox'[d] = inbox[d]
      BY <2>1, <3>1, GainsSame
    <3>2. ASSUME NEW x \in EntrySet, inbox'[d] = Append(inbox[d], [kind |-> "op", entry |-> x])
          PROVE  Gains(inbox[d], inbox'[d])
      <4> DEFINE y == [kind |-> "op", entry |-> x]
      <4>1. y \in Messages /\ y.kind # "accepted"
        BY DEF Messages
      <4> HIDE DEF y
      <4>2. Gains(inbox[d], Append(inbox[d], y))
        BY <2>1, <4>1, GainsOne
      <4> QED
        BY <3>2, <4>2 DEF y
    <3> QED
      BY <1>1, <1>10, <3>1, <3>2
  <2>3. Grows(d, slots, slots')
    BY <1>1, <1>2, <1>5, <1>10, GrowsOne
  <2>4. /\ tab'[d] = tab[d] /\ Rests(tab[d], tab[d]) /\ Still(d \in members, d \in members)
        /\ Loaded(tab[d], file, log.savedSeq, d \in members)
    BY <1>1, <1>10, <2>1 DEF Rests, Still, TabShows
  <2>5. tab[d].room => Took(tab[d], slots', log'.savedSeq)
    BY <2>4 DEF TakenInv, AllFit, TabFits
  <2>6. Faithful(d, tab[d], slots', ground)
    <3>1. CASE tab[d].room
      <4>1. Len(tab[d].seen) \in 0..Len(slots)
        BY <2>1, <3>1 DEF Took, Sees, IsTab
      <4> QED
        BY <1>2, <2>1, <2>3, <4>1, FaithfulLonger
    <3>2. CASE ~tab[d].room
      BY <3>2 DEF Faithful
    <3> QED
      BY <3>1, <3>2
  <2>7. TabShows(d, tab[d], inbox'[d], slots', ground, file, log.savedSeq, d \in members)
    BY <1>2, <1>3, <2>1, <2>2, <2>3, <2>4, <2>5, <2>6, TabShowsOn
  <2> QED
    BY <1>3, <2>4, <2>7
<1> DEFINE u == tab'[c]
           box == inbox[c]
<1> HIDE DEF u
<1>11. Rests(t, u) /\ View(t, u) /\ u.open = t.open
  BY <1>1 DEF Submitted, SameSheet, SamePlace, Rests, View, u
<1>12. Faithful(c, u, slots', ground)
  <2> SUFFICES ASSUME u.room, ~u.resynced PROVE Faithful(c, u, slots', ground)
    BY DEF Faithful
  <2>1. /\ \A x \in Cells : Shows(slots, Len(slots), t.queue, ground, x, t.doc[x])
        /\ OwnQueued(c, t, slots) /\ ~t.resynced
    BY <1>2, <1>4, <1>11 DEF Faithful, View
  <2>2. \A x \in Cells : Shows(slots', Len(slots), t.queue, ground, x, t.doc[x])
    <3>1. Len(slots) \in 0..Len(slots)
      BY <1>2
    <3> QED
      BY <1>2, <1>8, <2>1, <3>1, StandsLonger DEF Shows
  <2>3. ASSUME NEW k \in 1..Len(slots'), k > Len(u.seen)
        PROVE  \E i \in 1..Len(u.queue) : u.queue[i] = slots'[k].ops
    <3>1. k = Len(slots) + 1
      BY <1>2, <1>4, <1>7, <1>11, <2>3 DEF View
    <3>2. Heads(t, op)
      BY <1>1, <1>2, <2>1 DEF KeptTab, Keeps, Sending, Heads
    <3>3. 1 \in 1..Len(t.queue) /\ Head(t.queue) = t.queue[1]
      BY <1>2, <3>2, HeadFirst DEF Heads, IsTab
    <3> QED
      BY <1>5, <1>7, <1>11, <3>1, <3>2, <3>3 DEF Heads, View
  <2> QED
    BY <1>4, <1>11, <2>2, <2>3 DEF Faithful, View, OwnQueued
<1>13. Len(Append(box, a)) = Len(box) + 1 /\ Len(box) \in Nat
       /\ \A i \in 1..Len(box) : Append(box, a)[i] = box[i]
  <2> HIDE DEF Messages
  <2> QED
    BY <1>2, <1>6
<1>14. ASSUME NEW i \in 1..Len(Append(box, a)), Append(box, a)[i].kind = "accepted"
       PROVE  AtHead(c, u, Append(box, a), slots', member, i)
  <2>1. i = Len(box) + 1
    <3>1. ASSUME i \in 1..Len(box) PROVE FALSE
      <4>1. box[i].kind \in Reply2
        BY <1>13, <1>14, <3>1 DEF Reply2
      <4>2. t.submit.phase = "answered"
        BY <1>2, <3>1, <4>1 DEF KeptTab, Replies
      <4> QED
        BY <1>1, <4>2
    <3> QED
      BY <1>13, <3>1
  <2>2. Submitted(t, u)
    BY <1>1 DEF u
  <2>3. AtHead(c, u, Append(box, a), Append(slots, e), member, Len(box) + 1)
    BY <1>1, <1>2, <1>4, <1>5, <1>6, <2>2, AcceptedAtHead
  <2> QED
    BY <1>1, <2>1, <2>3
<1>15. TabShows(c, u, inbox'[c], slots', ground', file', log'.savedSeq, c \in members')
  <2>1. u.room
    BY <1>1, <1>11 DEF Rests
  <2> QED
    BY <1>1, <1>3, <1>12, <1>14, <2>1 DEF TabShows, Loaded
<1>16. \A d \in Tabs :
         TabShows(d, tab'[d], inbox'[d], slots', ground', file', log'.savedSeq, d \in members')
  BY <1>10, <1>15 DEF u
<1> QED
  BY <1>9, <1>16 DEF SheetShows

(* The file changes, which the log may record, while every tab open is in the room. *)
LEMMA NewsShown ==
  ASSUME TakenInv, KeptInv, SheetShows, TakenInv', UNCHANGED <<members, tab, ground>>,
         NEW m \in Messages, m.kind = "file",
         \A d \in Tabs : inbox'[d] = inbox[d] \/ inbox'[d] = Append(inbox[d], m),
         \A d \in Tabs : Grows(d, slots, slots'), \A d \in Tabs : ~Opening(d),
         FileFollows(slots', log'.savedSeq, ground, file')
  PROVE  SheetShows'
<1>1. ASSUME NEW d \in Tabs
      PROVE  TabShows(d, tab[d], inbox'[d], slots', ground, file', log'.savedSeq, d \in members)
  <2>1. /\ TabFits(d, tab[d], inbox[d], slots, log.savedSeq, d \in members)
        /\ TabShows(d, tab[d], inbox[d], slots, ground, file, log.savedSeq, d \in members)
        /\ IsTab(tab[d]) /\ inbox[d] \in Seq(Messages) /\ Faithful(d, tab[d], slots, ground)
        /\ (tab[d].room => Took(tab[d], slots, log.savedSeq)) /\ Len(slots) \in Nat
    BY OneTabShown
  <2>2. Gains(inbox[d], inbox'[d])
    <3>1. m.kind # "accepted"
      OBVIOUS
    <3>2. Gains(inbox[d], inbox[d]) /\ Gains(inbox[d], Append(inbox[d], m))
      BY <2>1, <3>1, GainsSame, GainsOne
    <3> QED
      BY <3>2
  <2>3. /\ Rests(tab[d], tab[d]) /\ Still(d \in members, d \in members)
        /\ Loaded(tab[d], file', log'.savedSeq, d \in members) /\ Grows(d, slots, slots')
    BY DEF Rests, Still, Loaded, Opening
  <2>4. tab[d].room => Took(tab[d], slots', log'.savedSeq)
    BY DEF TakenInv, AllFit, TabFits
  <2>5. Faithful(d, tab[d], slots', ground)
    <3>1. CASE tab[d].room
      <4>1. Len(tab[d].seen) \in 0..Len(slots)
        BY <2>1, <3>1 DEF Took, Sees, IsTab
      <4> QED
        BY <2>1, <2>3, <4>1, FaithfulLonger
    <3>2. CASE ~tab[d].room
      BY <3>2 DEF Faithful
    <3> QED
      BY <3>1, <3>2
  <2> QED
    BY <2>1, <2>2, <2>3, <2>4, <2>5, TabShowsOn
<1> QED
  BY <1>1 DEF SheetShows

(* Save keeps the third part of the invariant: with nothing pending, what the tab
   shows is the log up to the position it reports. *)
LEMMA SaveShown ==
  ASSUME TakenInv, KeptInv, SheetShows, Mishaps = {}, NEW c \in Tabs, Save(c)
  PROVE  SheetShows'
<1> DEFINE t == tab[c]
<1>1. /\ c \in members /\ t.joined /\ ~t.resynced /\ t.queue = <<>>
      /\ t.applied > log.savedSeq /\ file' = t.doc /\ log' = MarkSaved(log, t.applied)
      /\ (\A d \in Tabs : ~Opening(d)) /\ UNCHANGED <<members, tab, slots, ground, made>>
  BY DEF Save
<1>2. /\ Linked(t, TRUE) /\ IsTab(t) /\ Took(t, slots, log.savedSeq)
      /\ Faithful(c, t, slots, ground)
  BY <1>1, OneTabShown
<1>3. LogFits(log, slots)
  BY DEF TakenInv
<1>4. t.room
  BY <1>1, <1>2 DEF Linked
<1>5. t.applied = Len(t.seen) /\ t.applied \in log.savedSeq..log.seq
  <2>1. log.savedSeq \in Nat /\ t.applied \in Nat /\ log.seq = Len(slots)
    BY <1>2, <1>3 DEF LogFits, IsTab
  <2>2. Level(t)
    BY <1>1, <1>2, <2>1 DEF Took
  <2> QED
    BY <1>1, <1>2, <1>3, <2>1, <2>2 DEF Took, Level, Sees, LogFits
<1>6. log'.savedSeq = Len(t.seen)
  BY <1>1, <1>2, <1>3, <1>5, MarkSavedFits DEF IsTab
<1>7. FileFollows(slots', log'.savedSeq, ground, file')
  <2>1. ASSUME NEW x \in Cells PROVE Stands(slots, Len(t.seen), ground, x, t.doc[x])
    <3>1. Shows(slots, Len(t.seen), <<>>, ground, x, t.doc[x])
      BY <1>1, <1>2, <1>4 DEF Faithful
    <3>2. 1..Len(<<>>) = {}
      OBVIOUS
    <3>3. ~Pending(<<>>, x, t.doc[x])
      BY <3>2, Zenon DEF Pending
    <3> QED
      BY <3>1, <3>3 DEF Shows
  <2> HIDE DEF t
  <2> QED
    BY <1>1, <1>6, <2>1 DEF FileFollows
<1>8. /\ TakenInv'
      /\ \E m \in Messages :
           /\ m.kind = "file"
           /\ \A d \in Tabs : inbox'[d] = inbox[d] \/ inbox'[d] = Append(inbox[d], m)
  BY SaveTaken
<1>9. \A d \in Tabs : Grows(d, slots, slots')
  BY <1>1, OneTabShown
<1> QED
  BY <1>1, <1>7, <1>8, <1>9, NewsShown

(* Replace keeps the third part of the invariant: its position stands for the bytes of
   the new file. *)
LEMMA ReplaceShown ==
  ASSUME TakenInv, KeptInv, SheetShows, Mishaps = {}, Replace
  PROVE  SheetShows'
<1> DEFINE p == Len(slots)
           e == Replaced(p + 1)
<1>1. /\ file' = [x \in Cells |-> -1] /\ log' = Reset(log) /\ (\A d \in Tabs : ~Opening(d))
      /\ UNCHANGED <<members, tab, ground, made>>
  BY DEF Replace
<1>2. LogFits(log, slots) /\ slots \in Seq(SlotSet) /\ p \in Nat
  BY DEF TakenInv, LogFits
<1>3. log'.savedSeq = p + 1
  BY <1>1, <1>2, ResetFits
<1>4. TakenInv' /\ slots' = Append(slots, e) /\ e \in SlotSet /\ e.client = "host"
  BY <1>2, ReplaceTaken, HostSlot
<1>5. e.ops.n = -1
  BY DEF Replaced, Entry
<1> HIDE DEF e
<1>6. slots'[p + 1] = e
  BY <1>2, <1>4
<1>7. FileFollows(slots', log'.savedSeq, ground, file')
  <2>1. ASSUME NEW x \in Cells PROVE Stands(slots', p + 1, ground, x, -1)
    <3>1. Writes(slots'[p + 1], x)
      BY <1>4, <1>6 DEF Writes, IsOp
    <3>2. 1 \in 1..1 /\ 1 \in Nat /\ \A j \in 1..1 : ~(j > 1)
      OBVIOUS
    <3>3. Stands(slots', p + 1, ground, x, slots'[p + 1].ops.n)
      BY <1>2, <3>1, <3>2, StandsWritten
    <3> QED
      BY <1>5, <1>6, <3>3
  <2> QED
    BY <1>1, <1>3, <2>1 DEF FileFollows
<1>8. ASSUME NEW d \in Tabs PROVE Grows(d, slots, slots')
  <2>1. e.client # d
    BY <1>4, SheetAssumption
  <2> QED
    BY <1>2, <1>4, <2>1, GrowsOne
<1> QED
  BY <1>1, <1>4, <1>7, <1>8, ReplaceTaken, NewsShown

(* A connection leaves the room; its tab shows what it did, and nothing is on its way
   to it. *)
LEMMA LeaveShown ==
  ASSUME TakenInv, KeptInv, SheetShows, TakenInv', NEW c \in Tabs, LeaveRoom(c),
         ~Empties(c, Tabs \ {c}), file' = file, Nothing(inbox'[c]), c \notin members',
         \A d \in Tabs : d # c => tab'[d] = tab[d] /\ inbox'[d] = inbox[d],
         Faithful(c, tab'[c], slots, ground), Loaded(tab'[c], file, 0, FALSE),
         members = {c} => ~tab'[c].room
  PROVE  SheetShows'
<1>1. members' = members \ {c}
  BY DEF LeaveRoom
<1>2. CASE members # {c}
  <2>1. UNCHANGED <<log, slots, ground, file>>
    BY <1>2 DEF LeaveRoom
  <2>2. Loaded(tab'[c], file, log.savedSeq, c \in members')
    BY DEF Loaded
  <2>3. \A i \in 1..Len(inbox'[c]) : FALSE
    <3>1. 1..Len(<<>>) = {}
      OBVIOUS
    <3> QED
      BY <3>1, Zenon DEF Nothing
  <2>4. TabShows(c, tab'[c], inbox'[c], slots, ground, file, log.savedSeq, c \in members')
    BY <2>2, <2>3 DEF TabShows
  <2>5. \A d \in Tabs : d # c => (d \in members' <=> d \in members)
    BY <1>1
  <2> QED
    BY <2>1, <2>4, <2>5, OneShown
<1>3. CASE members = {c}
  <2>1. log' = EmptyLog /\ slots' = <<>> /\ ground' = file /\ members' = {}
    BY <1>1, <1>3 DEF LeaveRoom
  <2>2. log'.savedSeq = 0
    BY <2>1 DEF EmptyLog
  <2>3. FileFollows(slots', log'.savedSeq, ground', file')
    <3>1. 1..0 = {}
      OBVIOUS
    <3>2. \A x \in Cells : Stands(slots', 0, file, x, file[x])
      BY <3>1 DEF Stands
    <3> QED
      BY <2>1, <2>2, <3>2 DEF FileFollows
  <2>4. ASSUME NEW d \in Tabs PROVE ~tab'[d].room /\ Loaded(tab'[d], file, 0, FALSE)
    <3>1. CASE d = c
      BY <1>3, <3>1
    <3>2. CASE d # c
      <4>1. TabShows(d, tab[d], inbox[d], slots, ground, file, log.savedSeq, d \in members)
            /\ Linked(tab[d], d \in members)
        BY OneTabShown
      <4>2. ~tab[d].room
        BY <1>3, <3>2, <4>1 DEF Empties, Linked
      <4> QED
        BY <3>2, <4>1, <4>2 DEF TabShows, Loaded
    <3> QED
      BY <3>1, <3>2
  <2>5. ASSUME NEW d \in Tabs
        PROVE  TabShows(d, tab'[d], inbox'[d], slots', ground', file', log'.savedSeq,
                        d \in members')
    <3>1. \A i \in 1..Len(inbox'[d]) : inbox'[d][i].kind # "accepted"
      <4>1. TabFits(d, tab'[d], inbox'[d], slots', log'.savedSeq, d \in members')
        BY DEF TakenInv, AllFit
      <4> QED
        BY <2>4, <4>1 DEF TabFits, Fits
    <3>2. Loaded(tab'[d], file', log'.savedSeq, d \in members')
      BY <2>1, <2>4 DEF Loaded
    <3>3. Faithful(d, tab'[d], slots', ground')
      BY <2>4 DEF Faithful
    <3> QED
      BY <3>1, <3>2, <3>3 DEF TabShows
  <2> QED
    BY <2>3, <2>5 DEF SheetShows
<1> QED
  BY <1>2, <1>3

(* Close keeps the third part of the invariant. *)
LEMMA CloseShown ==
  ASSUME TakenInv, KeptInv, SheetShows, Mishaps = {}, NEW c \in Tabs, Close(c)
  PROVE  SheetShows'
<1>1. /\ tab' = [tab EXCEPT ![c] = Closed] /\ LeaveRoom(c) /\ ~Empties(c, Tabs \ {c})
      /\ file' = file
  BY DEF Close
<1>2. /\ TakenInv' /\ ~tab'[c].room /\ c \notin members' /\ inbox'[c] = <<>>
      /\ \A d \in Tabs : d # c => tab'[d] = tab[d] /\ inbox'[d] = inbox[d]
  BY CloseTaken
<1>3. tab'[c] = Closed /\ ~Closed.open
  BY <1>1, ClosedFits DEF TakenInv, Typed
<1>4. Faithful(c, tab'[c], slots, ground) /\ Loaded(tab'[c], file, 0, FALSE)
  BY <1>2, <1>3 DEF Faithful, Loaded
<1>5. Nothing(inbox'[c])
  BY <1>2 DEF Nothing
<1> QED
  BY <1>1, <1>2, <1>4, <1>5, LeaveShown

(* A tab whose calls fail shows what it did. *)
LEMMA CallsFailView ==
  ASSUME NEW t, IsTab(t)
  PROVE  View(t, CallsFail(t))
<1> DEFINE call == IF t.submit.phase = "catching" THEN t.submit ELSE NoCall
           u == [t EXCEPT !.submit = call]
<1>1. CallsFail(t) = IF u.since.phase = "idle" THEN u ELSE EndCatchUp(u)
  BY DEF CallsFail
<1>2. call.phase \in {"idle", "catching"}
  BY DEF NoCall
<1> HIDE DEF call
<1>3. View(t, u) /\ IsTab(u)
  <2>1. u.submit = call /\ DOMAIN u = DOMAIN t /\ u.seen = t.seen /\ u.queue = t.queue
        /\ u.doc = t.doc /\ u.applied = t.applied /\ u.room = t.room
        /\ u.resynced = t.resynced
    BY DEF IsTab
  <2> HIDE DEF u
  <2> QED
    BY <1>2, <2>1 DEF View, IsTab
<1> HIDE DEF u
<1>4. View(u, EndCatchUp(u))
  BY <1>3, EndCatchUpSteers, SteersRests
<1>5. View(t, EndCatchUp(u))
  BY <1>3, <1>4, ViewOn
<1> QED
  BY <1>1, <1>3, <1>5

(* Drop keeps the third part of the invariant. *)
LEMMA DropShown ==
  ASSUME TakenInv, KeptInv, SheetShows, Mishaps = {}, left.network = "socket",
         NEW c \in Tabs, Drop(c)
  PROVE  SheetShows'
<1> DEFINE t == tab[c]
           v == Unlinked(t)
           u == CallsFail(v)
<1>1. /\ tab' = [tab EXCEPT ![c] = u] /\ LeaveRoom(c) /\ UNCHANGED <<file, made>>
      /\ ~Empties(c, Tabs) /\ ~(t.joined /\ t.join.phase # "idle")
  <2>1. ~Empties(c, Tabs) /\ ~(t.joined /\ t.join.phase # "idle")
    BY Zenon DEF Drop
  <2>2. v = LET x == [t EXCEPT !.link = FALSE]
            IN  IF x.join.phase = "idle" THEN x ELSE JoinFailed(x)
    BY Zenon DEF Unlinked
  <2> HIDE DEF v
  <2> QED
    BY <2>1, <2>2, Zenon DEF Drop
<1>2. /\ IsTab(t) /\ Linked(t, c \in members) /\ Faithful(c, t, slots, ground)
      /\ (t.room => Took(t, slots, log.savedSeq))
      /\ TabShows(c, t, inbox[c], slots, ground, file, log.savedSeq, c \in members)
  BY OneTabShown
<1>3. /\ TakenInv' /\ c \notin members'
      /\ Cut(tab[c], tab'[c], inbox[c], inbox'[c], left.network)
      /\ \A d \in Tabs : d # c => tab'[d] = tab[d] /\ inbox'[d] = inbox[d]
  BY DropTaken
<1>4. Parts(t, v, slots, log.savedSeq) /\ SameSheet(t, v)
  BY <1>1, <1>2, UnlinkedParts
<1> HIDE DEF v
<1>5. View(v, u)
  BY <1>4, CallsFailView DEF Parts
<1> HIDE DEF u
<1>6. View(t, v)
  BY <1>4 DEF Parts, SameSheet, View
<1>7. View(t, u)
  BY <1>5, <1>6, ViewOn
<1>8. tab'[c] = u
  BY <1>1 DEF TakenInv, Typed
<1>9. Faithful(c, u, slots, ground)
  BY <1>2, <1>7, ViewFaithful
<1>10. u.open = t.open /\ Nothing(inbox'[c])
  BY <1>3, <1>8 DEF Cut, Nothing
<1>11. Loaded(u, file, 0, FALSE)
  BY <1>2, <1>7, <1>10 DEF TabShows, Loaded, View
<1>12. ~Empties(c, Tabs \ {c}) /\ (members = {c} => ~u.room)
  BY <1>1, <1>2, <1>7 DEF Empties, Linked, View
<1> QED
  BY <1>1, <1>3, <1>8, <1>9, <1>10, <1>11, <1>12, LeaveShown

(* The third part of the invariant holds at first. *)
LEMMA InitShown == Init => ShownInv
<1> SUFFICES ASSUME Init PROVE SheetShows
  BY DEF ShownInv
<1>1. /\ log = EmptyLog /\ members = {} /\ file = [x \in Cells |-> 0]
      /\ tab = [c \in Tabs |-> Closed] /\ inbox = [c \in Tabs |-> <<>>] /\ slots = <<>>
      /\ ground = [x \in Cells |-> 0]
  BY DEF Init
<1>2. 1..0 = {} /\ 1..Len(<<>>) = {}
  OBVIOUS
<1>3. log.savedSeq = 0
  BY <1>1 DEF EmptyLog
<1>4. \A x \in Cells : Stands(slots, 0, ground, x, file[x])
  BY <1>1, <1>2 DEF Stands
<1>5. ASSUME NEW c \in Tabs
      PROVE  TabShows(c, tab[c], inbox[c], slots, ground, file, log.savedSeq, c \in members)
  <2>1. tab[c] = Closed /\ inbox[c] = <<>>
    BY <1>1
  <2>2. ~tab[c].room /\ ~tab[c].open
    BY <2>1, ClosedFits
  <2>3. \A i \in 1..Len(inbox[c]) : FALSE
    BY <1>2, <2>1, Zenon
  <2> QED
    BY <2>2, <2>3 DEF TabShows, Faithful, Loaded
<1> QED
  BY <1>3, <1>4, <1>5 DEF SheetShows, FileFollows

(* The network is what it was. *)
LEMMA NetworkStays ==
  ASSUME TakenInv, [Next]_vars
  PROVE  left'.network = left.network
<1>1. IsLeft(left)
  BY DEF TakenInv, Typed
<1>2. \/ left' = left
      \/ \E c \in Tabs : left' = [left EXCEPT !.opens = @ \ {c}]
      \/ left' = [left EXCEPT !.edits = @ - 1]
      \/ left' = [left EXCEPT !.drops = @ - 1]
      \/ left' = [left EXCEPT !.saves = @ - 1]
      \/ left' = [left EXCEPT !.replaces = @ - 1]
  <2>1. ASSUME NEW c \in Tabs, TabStep(c)
        PROVE  \/ left' = left
               \/ left' = [left EXCEPT !.opens = @ \ {c}]
               \/ left' = [left EXCEPT !.edits = @ - 1]
    BY <2>1 DEF TabStep, Open, Edit, Deliver, TimerFires, Reconnect, Close
  <2>2. ASSUME NEW c \in Tabs, HubStep(c) PROVE left' = left
    BY <2>2 DEF HubStep, HubJoin, HubAccepts, HubRefuses, HubSince
  <2>3. ASSUME NEW c \in Tabs, Drop(c) PROVE left' = [left EXCEPT !.drops = @ - 1]
    BY <2>3, Zenon DEF Drop
  <2>4. ASSUME NEW c \in Tabs, Save(c) PROVE left' = [left EXCEPT !.saves = @ - 1]
    BY <2>4 DEF Save
  <2>5. ASSUME Replace PROVE left' = [left EXCEPT !.replaces = @ - 1]
    BY <2>5 DEF Replace
  <2>6. ASSUME UNCHANGED vars PROVE left' = left
    BY <2>6 DEF vars
  <2> QED
    BY <2>1, <2>2, <2>3, <2>4, <2>5, <2>6, Zenon DEF Next
<1> QED
  BY <1>1, <1>2 DEF IsLeft

(* Every step keeps the third part of the invariant. *)
LEMMA StepShown ==
  ASSUME Mishaps = {}, TakenInv, OpensFile, KeptInv, ShownInv, [Next]_vars
  PROVE  ShownInv'
<1> SUFFICES ASSUME left.network = "socket", SheetShows PROVE SheetShows'
  BY NetworkStays DEF ShownInv
<1>1. TakenInv'
  BY StepTaken
<1>2. ASSUME UNCHANGED vars PROVE SheetShows'
  BY <1>2 DEF vars, SheetShows
<1>3. ASSUME NEW c \in Tabs, TabStep(c) PROVE SheetShows'
  <2>1. ASSUME NEW i \in Arriving(c),
               tab' = [tab EXCEPT ![c] = Handle(c, tab[c], inbox[c][i])],
               inbox' = [inbox EXCEPT ![c] = RemoveAt(inbox[c], i)],
               UNCHANGED <<log, members, file, left, slots, ground, made>>
        PROVE  SheetShows'
    BY <2>1, DeliverShown
  <2>2. Deliver(c) => SheetShows'
    BY <2>1 DEF Deliver
  <2> QED
    BY <1>1, <1>3, <2>2, OpenShown, EditShown, TimerShown, ReconnectShown, CloseShown
       DEF TabStep
<1>4. ASSUME NEW c \in Tabs, HubStep(c) PROVE SheetShows'
  BY <1>1, <1>4, JoinShown, AcceptsShown, RefusesShown, SinceShown DEF HubStep
<1>5. ASSUME NEW c \in Tabs, Drop(c) PROVE SheetShows'
  BY <1>5, DropShown
<1>6. ASSUME NEW c \in Tabs, Save(c) PROVE SheetShows'
  BY <1>6, SaveShown
<1> QED
  BY <1>2, <1>3, <1>4, <1>5, <1>6, ReplaceShown DEF Next

(* What a tab shows, cell by cell, with the file that followed the log, the bytes that
   a tab loaded, and an acknowledgement that finds its entry next: for any tabs, cells
   and bounds, as long as no situation of AllMishaps arises, among them a save or a
   replacement of the file between a tab's load and its first join. *)
THEOREM SheetShownInductive ==
  ASSUME Mishaps = {}
  PROVE  Spec => [](TakenInv /\ OpensFile /\ KeptInv /\ ShownInv)
<1>1. Init => TakenInv /\ OpensFile /\ KeptInv /\ ShownInv
  BY InitTaken, InitOpens, InitKept, InitShown
<1>2. TakenInv /\ OpensFile /\ KeptInv /\ ShownInv /\ [Next]_vars
        => (TakenInv /\ OpensFile /\ KeptInv /\ ShownInv)'
  BY StepTaken, StepOpens, StepKept, StepShown
<1> QED
  BY <1>1, <1>2, PTL DEF Spec

(* The parts of the invariant, of a tab in sync with its room. *)
LEMMA InRoomShows ==
  ASSUME TakenInv, KeptInv, ShownInv, left.network = "socket", NEW c \in Tabs, InRoom(c)
  PROVE  /\ tab[c].seen \in Seq(SlotSet) /\ tab[c].queue \in Seq(OpSet)
         /\ \A i \in 1..Len(tab[c].seen) : tab[c].seen[i] = slots[i]
         /\ Took(tab[c], slots, log.savedSeq)
         /\ \A x \in Cells :
              Shows(slots, Len(tab[c].seen), tab[c].queue, ground, x, tab[c].doc[x])
<1>1. /\ Linked(tab[c], c \in members) /\ Took(tab[c], slots, log.savedSeq)
      /\ Faithful(c, tab[c], slots, ground)
  BY OneTabShown DEF ShownInv, InRoom
<1>2. tab[c].room /\ ~tab[c].resynced
  BY <1>1 DEF Linked, InRoom
<1> QED
  BY <1>1, <1>2 DEF Took, IsTab, Sees, Faithful

(* A tab in the room shows, cell by cell, the part of the log it has taken in with its
   unacknowledged edits on top (reconcileRemote, applyOps, catchUp): on a socket, and
   unless the file is saved or replaced while the tab is between its load and its first
   join, a connection is lost during a rejoin, or the room is emptied under its tabs. *)
THEOREM SheetAlwaysFollowsLog ==
  ASSUME Mishaps = {}
  PROVE  Spec => []SheetFollowsLog
<1>1. TakenInv /\ KeptInv /\ ShownInv => SheetFollowsLog
  <2> SUFFICES ASSUME TakenInv, KeptInv, ShownInv, NEW c \in Tabs, left.network = "socket",
                      InRoom(c), NEW x \in Cells
               PROVE  tab[c].doc[x] = Shown(tab[c].seen, tab[c].queue, x)
    BY DEF SheetFollowsLog
  <2> DEFINE h == tab[c].seen
             q == tab[c].queue
  <2>1. /\ q \in Seq(OpSet) /\ \A i \in 1..Len(h) : h[i] = slots[i]
        /\ Shows(slots, Len(h), q, ground, x, tab[c].doc[x])
    BY InRoomShows
  <2>2. Len(h) \in Nat
    BY InRoomShows
  <2> HIDE DEF h, q
  <2>3. Shown(h, q, x) = tab[c].doc[x]
    BY <2>1, <2>2, ShowsShown
  <2> QED
    BY <2>3 DEF h, q
<1> QED
  BY <1>1, SheetShownInductive, PTL

(* Converged, cell by cell and where messages keep their order. *)
CellsConverged ==
  left.network = "socket" =>
    \A c, d \in Tabs : Quiet(c) /\ Quiet(d) =>
      \A x \in Cells : tab[c].doc[x] = tab[d].doc[x]

(* "Every client does this, so all converge": on a socket, two tabs with the whole log
   applied and nothing outstanding show the same in every cell (reconcileRemote,
   sync.ts:228), unless one of AllMishaps happens: of two tabs of which one loaded the
   file before a replacement and joined after it, one shows the old bytes. *)
THEOREM SheetsAlwaysConverge ==
  ASSUME Mishaps = {}
  PROVE  Spec => []CellsConverged
<1>1. ASSUME TakenInv, KeptInv, ShownInv, left.network = "socket", NEW c \in Tabs, Quiet(c)
      PROVE  /\ tab[c].seen = slots
             /\ \A x \in Cells : tab[c].doc[x] = Shown(slots, <<>>, x)
  <2> DEFINE h == tab[c].seen
  <2>1. /\ InRoom(c) /\ tab[c].queue = <<>> /\ tab[c].applied = log.seq
        /\ slots \in Seq(SlotSet) /\ log.seq = Len(slots)
    BY <1>1 DEF Quiet, TakenInv, LogFits
  <2>2. /\ h \in Seq(SlotSet) /\ Took(tab[c], slots, log.savedSeq)
        /\ \A i \in 1..Len(h) : h[i] = slots[i]
        /\ \A x \in Cells : Shows(slots, Len(h), <<>>, ground, x, tab[c].doc[x])
    BY <1>1, <2>1, InRoomShows
  <2>3. Len(h) = Len(slots)
    <3>1. Len(h) <= Len(slots) /\ tab[c].applied <= Len(h) /\ Len(h) \in Nat
          /\ Len(slots) \in Nat
      BY <2>1, <2>2 DEF Took, Sees, Level
    <3> QED
      BY <2>1, <3>1
  <2> HIDE DEF h
  <2>4. h = slots
    <3>1. \A f, g \in Seq(SlotSet) : Len(f) = Len(g) /\ (\A i \in 1..Len(f) : f[i] = g[i])
            => f = g
      OBVIOUS
    <3> QED
      BY <2>1, <2>2, <2>3, <3>1
  <2>5. ASSUME NEW x \in Cells PROVE tab[c].doc[x] = Shown(slots, <<>>, x)
    <3>1. Len(slots) \in Nat /\ <<>> \in Seq(OpSet)
      BY <2>1
    <3>2. Shows(slots, Len(slots), <<>>, ground, x, tab[c].doc[x])
      BY <2>2, <2>4
    <3> QED
      BY <3>1, <3>2, ShowsShown
  <2> QED
    BY <2>4, <2>5 DEF h
<1>2. TakenInv /\ KeptInv /\ ShownInv => CellsConverged
  <2> SUFFICES ASSUME TakenInv, KeptInv, ShownInv, left.network = "socket",
                      NEW c \in Tabs, NEW d \in Tabs, Quiet(c), Quiet(d), NEW x \in Cells
               PROVE  tab[c].doc[x] = tab[d].doc[x]
    BY DEF CellsConverged
  <2>1. tab[c].doc[x] = Shown(slots, <<>>, x)
    BY <1>1
  <2>2. tab[d].doc[x] = Shown(slots, <<>>, x)
    BY <1>1
  <2> QED
    BY <2>1, <2>2
<1> QED
  BY <1>2, SheetShownInductive, PTL

-----------------------------------------------------------------------------
(***************************************************************************)
(* What the row transforms of packages/collab/src/transform.ts do, for     *)
(* every row, every span and every insertion, removal and move: neither    *)
(* the size of the sheet nor the number of rows in an edit is bounded.     *)
(***************************************************************************)
Edits == [kind : {"insert", "remove"}, start : Nat, count : Nat \ {0}]

RowMoves == [source : Nat, target : Nat, count : Nat \ {0}]

(* Where a row ends up through what is left of an insertion or a removal. *)
Landing(ops, i) ==
  IF i = Gone \/ ops = <<>> THEN i ELSE MapIndex(ops[1], i)

(* The move that takes its rows back. *)
Back(move) ==
  [source |-> move.target, target |-> move.source, count |-> move.count]

-----------------------------------------------------------------------------
(* mapIndex puts a row that survives at a row, and keeps the order of any two. *)
THEOREM RowsKeepTheirOrder ==
  ASSUME NEW edit \in Edits, NEW i \in Nat, NEW j \in Nat, i < j,
         MapIndex(edit, i) # Gone, MapIndex(edit, j) # Gone
  PROVE  /\ MapIndex(edit, i) \in Nat /\ MapIndex(edit, j) \in Nat
         /\ MapIndex(edit, i) < MapIndex(edit, j)
  BY DEF Edits, MapIndex, Gone

(* mapSpan gives a span up exactly if a removal takes all of its rows. *)
THEOREM SpanGoneWithItsRows ==
  ASSUME NEW edit \in Edits, NEW first \in Nat, NEW last \in Nat, first <= last
  PROVE  MapSpan(edit, first, last) = NoSpan
           <=> \A i \in first..last : MapIndex(edit, i) = Gone
<1> DEFINE end == edit.start + edit.count - 1
<1>1. MapSpan(edit, first, last) = NoSpan
        <=> edit.kind = "remove" /\ edit.start <= first /\ last <= end
  BY DEF Edits, MapSpan, NoSpan
<1>2. \A i \in Nat : MapIndex(edit, i) = Gone
        <=> edit.kind = "remove" /\ edit.start <= i /\ i <= end
  BY DEF Edits, MapIndex, Gone
<1>3. first \in first..last /\ last \in first..last /\ first..last \subseteq Nat
  OBVIOUS
<1>4. ASSUME edit.kind = "remove", edit.start <= first, last <= end
      PROVE  \A i \in first..last : MapIndex(edit, i) = Gone
  BY <1>2, <1>3, <1>4 DEF Edits
<1>5. ASSUME \A i \in first..last : MapIndex(edit, i) = Gone
      PROVE  edit.kind = "remove" /\ edit.start <= first /\ last <= end
  BY <1>2, <1>3, <1>5
<1> QED
  BY <1>1, <1>4, <1>5

(* mapSpan maps a span through a removal to exactly the rows its surviving rows
   end up at. *)
THEOREM SpanIsItsSurvivors ==
  ASSUME NEW edit \in Edits, edit.kind = "remove",
         NEW first \in Nat, NEW last \in Nat, first <= last,
         MapSpan(edit, first, last) # NoSpan
  PROVE  LET span == MapSpan(edit, first, last)
         IN  \A k \in Int : k \in span[1]..span[2]
               <=> \E i \in first..last : MapIndex(edit, i) = k /\ k # Gone
<1> DEFINE span == MapSpan(edit, first, last)
<1> DEFINE From(k) == IF k < edit.start THEN k ELSE k + edit.count
<1>1. span[1] \in Nat /\ span[2] \in Nat
  BY DEF Edits, MapSpan, NoSpan
<1>2. ASSUME NEW i \in first..last, MapIndex(edit, i) # Gone
      PROVE  MapIndex(edit, i) \in span[1]..span[2]
  BY <1>2 DEF Edits, MapSpan, MapIndex, NoSpan, Gone
<1>3. ASSUME NEW k \in span[1]..span[2]
      PROVE  From(k) \in first..last /\ MapIndex(edit, From(k)) = k /\ k # Gone
  BY <1>1, <1>3, SMTT(30) DEF Edits, MapSpan, MapIndex, NoSpan, Gone
<1>4. ASSUME NEW k \in Int
      PROVE  k \in span[1]..span[2]
               <=> \E i \in first..last : MapIndex(edit, i) = k /\ k # Gone
  BY <1>2, <1>3
<1> QED
  BY <1>4

(* mapSpan maps a span through an insertion to the rows between where its ends end
   up, so the span grows by what is inserted inside it. *)
THEOREM SpanGrows ==
  ASSUME NEW edit \in Edits, edit.kind = "insert",
         NEW first \in Nat, NEW last \in Nat, first <= last
  PROVE  MapSpan(edit, first, last) = <<MapIndex(edit, first), MapIndex(edit, last)>>
  BY DEF Edits, MapSpan, MapIndex

-----------------------------------------------------------------------------
(* An insertion through an edit is an insertion of as many rows. *)
LEMMA InsertThrough ==
  ASSUME NEW p \in Edits, NEW q \in Edits, q.kind = "insert"
  PROVE  LET at == MapIndex(p, q.start)
         IN  ThroughStruct(q, p)
               = <<[kind |-> "insert", count |-> q.count,
                    start |-> IF at = Gone THEN p.start ELSE at]>>
  BY DEF ThroughStruct, Remade

(* A removal through an edit is the removal of the span it maps to. *)
LEMMA RemoveThrough ==
  ASSUME NEW p \in Edits, NEW q \in Edits, q.kind = "remove"
  PROVE  LET span == MapSpan(p, q.start, q.start + q.count - 1)
         IN  ThroughStruct(q, p)
               = IF span = NoSpan THEN <<>>
                 ELSE <<[kind |-> "remove", start |-> span[1], count |-> Size(span)]>>
  BY DEF ThroughStruct, Remade

(* Where a row ends up through an edit that is left, and through none. *)
LEMMA LandingOne ==
  ASSUME NEW r, NEW i
  PROVE  /\ Landing(<<r>>, i) = IF i = Gone THEN Gone ELSE MapIndex(r, i)
         /\ Landing(<<>>, i) = i
  BY DEF Landing

(* The rows left of a..a+m-1 once b..b+n-1 are removed are those from StartLeft up
   to, but without, EndLeft. *)
StartLeft(a, m, b, n) ==
  IF a < b THEN a ELSE IF a < b + n THEN b ELSE a - n

EndLeft(a, m, b, n) ==
  IF a + m <= b THEN a + m ELSE IF a + m < b + n THEN b ELSE a + m - n

(* Where a row ends up when b..b+n-1 are removed, and then what is left of
   a..a+m-1. *)
TwiceCut(a, m, b, n, i) ==
  LET j == IF i >= b + n THEN i - n ELSE i
      start == StartLeft(a, m, b, n)
      end == EndLeft(a, m, b, n)
  IN  IF (b <= i /\ i < b + n) \/ (start <= j /\ j < end) THEN Gone
      ELSE IF j >= end THEN j - (end - start)
      ELSE j

(* Which of two removals comes first does not matter. *)
LEMMA CutsCommute ==
  ASSUME NEW a \in Nat, NEW m \in Nat \ {0}, NEW b \in Nat, NEW n \in Nat \ {0},
         NEW i \in Nat
  PROVE  TwiceCut(a, m, b, n, i) = TwiceCut(b, n, a, m, i)
  BY DEF TwiceCut, StartLeft, EndLeft

(* mapSpan of a removal by another, in these terms. *)
LEMMA SpanLeft ==
  ASSUME NEW x \in Edits, NEW y \in Edits, y.kind = "remove"
  PROVE  LET span == MapSpan(y, x.start, x.start + x.count - 1)
             start == StartLeft(x.start, x.count, y.start, y.count)
             end == EndLeft(x.start, x.count, y.start, y.count)
         IN  /\ start \in Int /\ end \in Int
             /\ span = IF start = end THEN NoSpan ELSE <<start, end - 1>>
  BY DEF Edits, MapSpan, StartLeft, EndLeft

(* A removal put through another leaves or takes a row as TwiceCut says. *)
LEMMA RemovalThroughRemoval ==
  ASSUME NEW x \in Edits, NEW y \in Edits, NEW i \in Nat,
         x.kind = "remove", y.kind = "remove"
  PROVE  Landing(ThroughStruct(x, y), MapIndex(y, i))
           = TwiceCut(x.start, x.count, y.start, y.count, i)
<1> DEFINE start == StartLeft(x.start, x.count, y.start, y.count)
           end == EndLeft(x.start, x.count, y.start, y.count)
           cut == [kind |-> "remove", start |-> start, count |-> end - start]
           j == MapIndex(y, i)
<1>1. start \in Int /\ end \in Int
  BY SpanLeft
<1>2. ThroughStruct(x, y) = IF start = end THEN <<>> ELSE <<cut>>
  <2>1. CASE start = end
    BY <2>1, SpanLeft, RemoveThrough
  <2>2. CASE start # end
    <3> DEFINE span == MapSpan(y, x.start, x.start + x.count - 1)
    <3>1. span = <<start, end - 1>>
      BY <2>2, SpanLeft
    <3>2. span # NoSpan /\ span[1] = start /\ Size(span) = end - start
      BY <1>1, <3>1 DEF NoSpan, Size
    <3>3. ThroughStruct(x, y)
            = IF span = NoSpan THEN <<>>
              ELSE <<[kind |-> "remove", start |-> span[1], count |-> Size(span)]>>
      BY RemoveThrough
    <3> QED
      BY <2>2, <3>2, <3>3
  <2> QED
    BY <2>1, <2>2
<1>3. Landing(ThroughStruct(x, y), j)
        = IF j = Gone \/ start = end THEN j ELSE MapIndex(cut, j)
  BY <1>2, LandingOne
<1>4. j = IF y.start <= i /\ i < y.start + y.count THEN Gone
          ELSE IF i >= y.start + y.count THEN i - y.count ELSE i
  BY DEF Edits, MapIndex
<1>5. ASSUME NEW k \in Int
      PROVE  MapIndex(cut, k) = IF start <= k /\ k < end THEN Gone
                                ELSE IF k >= end THEN k - (end - start) ELSE k
  <2> HIDE DEF start, end
  <2> QED
    BY <1>1 DEF MapIndex
<1> QED
  BY <1>1, <1>3, <1>4, <1>5 DEF TwiceCut, Edits, Gone

(* Two insertions or removals made at the same time, each put through the other
   (transformOp), take every row to the same place whichever comes first, unless
   one inserts strictly inside what the other removes. *)
THEOREM EditsConverge ==
  ASSUME NEW p \in Edits, NEW q \in Edits, NEW i \in Nat,
         ~StrictlyInside(p, q), ~StrictlyInside(q, p)
  PROVE  Landing(ThroughStruct(q, p), MapIndex(p, i))
           = Landing(ThroughStruct(p, q), MapIndex(q, i))
<1>1. ASSUME p.kind = "insert", q.kind = "insert"
      PROVE  Landing(ThroughStruct(q, p), MapIndex(p, i))
               = Landing(ThroughStruct(p, q), MapIndex(q, i))
  <2> DEFINE Shifted(x, y) == [kind |-> "insert", count |-> x.count,
                start |-> IF MapIndex(y, x.start) = Gone THEN y.start
                          ELSE MapIndex(y, x.start)]
  <2>1. /\ ThroughStruct(q, p) = <<Shifted(q, p)>>
        /\ ThroughStruct(p, q) = <<Shifted(p, q)>>
    BY <1>1, InsertThrough
  <2>2. MapIndex(p, i) # Gone /\ MapIndex(q, i) # Gone
    BY <1>1 DEF Edits, MapIndex, Gone
  <2>3. MapIndex(Shifted(q, p), MapIndex(p, i))
          = MapIndex(Shifted(p, q), MapIndex(q, i))
    BY <1>1 DEF Edits, MapIndex, Gone
  <2> QED
    BY <2>1, <2>2, <2>3, LandingOne
<1>2. ASSUME NEW insert \in Edits, NEW removal \in Edits,
             insert.kind = "insert", removal.kind = "remove",
             ~StrictlyInside(insert, removal)
      PROVE  Landing(ThroughStruct(removal, insert), MapIndex(insert, i))
               = Landing(ThroughStruct(insert, removal), MapIndex(removal, i))
  <2> DEFINE at == MapIndex(removal, insert.start)
             span == MapSpan(insert, removal.start, removal.start + removal.count - 1)
             shifted == [kind |-> "insert", count |-> insert.count,
                         start |-> IF at = Gone THEN removal.start ELSE at]
             grown == [kind |-> "remove", start |-> span[1], count |-> Size(span)]
  <2>1. span # NoSpan
    BY <1>2 DEF Edits, MapSpan, NoSpan
  <2>2. /\ ThroughStruct(removal, insert) = <<grown>>
        /\ ThroughStruct(insert, removal) = <<shifted>>
    BY <1>2, <2>1, InsertThrough, RemoveThrough
  <2>3. MapIndex(insert, i) # Gone
    BY <1>2 DEF Edits, MapIndex, Gone
  <2>4. MapIndex(grown, MapIndex(insert, i))
          = IF MapIndex(removal, i) = Gone THEN Gone
            ELSE MapIndex(shifted, MapIndex(removal, i))
    BY <1>2, SMTT(60) DEF Edits, MapIndex, MapSpan, Size, Gone, StrictlyInside
  <2> QED
    BY <2>2, <2>3, <2>4, LandingOne
<1>3. ASSUME p.kind = "remove", q.kind = "remove"
      PROVE  Landing(ThroughStruct(q, p), MapIndex(p, i))
               = Landing(ThroughStruct(p, q), MapIndex(q, i))
  BY <1>3, RemovalThroughRemoval, CutsCommute DEF Edits
<1> QED
  BY <1>1, <1>2, <1>3 DEF Edits

(* The condition is needed: of an insertion strictly inside a removal the two orders
   disagree on the inserted rows, and so on where every row below ends up. *)
THEOREM InsideRemovalDiverges ==
  ASSUME NEW insert \in Edits, NEW removal \in Edits,
         StrictlyInside(insert, removal),
         NEW i \in Nat, i >= removal.start + removal.count
  PROVE  Landing(ThroughStruct(removal, insert), MapIndex(insert, i))
           = Landing(ThroughStruct(insert, removal), MapIndex(removal, i))
             - insert.count
<1> DEFINE span == MapSpan(insert, removal.start, removal.start + removal.count - 1)
           grown == [kind |-> "remove", start |-> removal.start,
                     count |-> removal.count + insert.count]
           landed == [kind |-> "insert", start |-> removal.start, count |-> insert.count]
<1>1. insert.kind = "insert" /\ removal.kind = "remove"
  BY DEF StrictlyInside
<1>2. span = <<removal.start, removal.start + removal.count - 1 + insert.count>>
  BY <1>1 DEF Edits, MapSpan, StrictlyInside
<1>3. span # NoSpan /\ span[1] = removal.start /\ Size(span) = removal.count + insert.count
  BY <1>2 DEF NoSpan, Size, Edits
<1>4. ThroughStruct(removal, insert) = <<grown>>
  BY <1>1, <1>3, RemoveThrough
<1>5. MapIndex(removal, insert.start) = Gone
  BY <1>1 DEF Edits, MapIndex, StrictlyInside
<1>6. ThroughStruct(insert, removal) = <<landed>>
  BY <1>1, <1>5, InsertThrough
<1>7. MapIndex(insert, i) # Gone /\ MapIndex(removal, i) # Gone
  BY <1>1 DEF Edits, MapIndex, Gone, StrictlyInside
<1>8. MapIndex(grown, MapIndex(insert, i))
        = MapIndex(landed, MapIndex(removal, i)) - insert.count
  BY <1>1 DEF Edits, MapIndex, Gone, StrictlyInside
<1> QED
  BY <1>4, <1>6, <1>7, <1>8, LandingOne

-----------------------------------------------------------------------------
(* mapIndexThroughMove takes rows to rows, and the move back undoes it: no two rows
   end up at one place, and none is lost. *)
THEOREM MovedRowsComeBack ==
  ASSUME NEW move \in RowMoves, ValidMove(move.source, move.target, move.count),
         NEW i \in Nat
  PROVE  /\ MapIndexThroughMove(move, i) \in Nat
         /\ MapIndexThroughMove(Back(move), MapIndexThroughMove(move, i)) = i
  BY DEF RowMoves, ValidMove, MapIndexThroughMove, Back
=============================================================================
