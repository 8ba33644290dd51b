-------------------------- MODULE CollabHubProofs --------------------------
(***************************************************************************)
(* Safety of the hub for any sets of artifacts, connections and host       *)
(* threads, any retention limit and any bound on positions.  The inductive *)
(* invariant is IInv: the types and index agreement of the hub, the types  *)
(* of the history variables, and LogInv of every log.                      *)
(***************************************************************************)
EXTENDS CollabHub, TLAPS, SequenceTheorems

-----------------------------------------------------------------------------
(* What the methods of the in-memory log preserve, for every retention limit.
   LogInv ties a log to the full history of positions it gave out. *)

Numbered(history) == \A n \in 1..Len(history) : history[n].seq = n

LogInv(l, history) ==
  /\ l \in LogSet
  /\ history \in Seq(SlotSet)
  /\ Numbered(history)
  /\ Retains(l, history)

(* The rest of a sequence behind its first k elements. *)
LEMMA SubSeqRest ==
  ASSUME NEW T, NEW s \in Seq(T), NEW k \in 0..Len(s)
  PROVE  /\ SubSeq(s, k + 1, Len(s)) \in Seq(T)
         /\ Len(SubSeq(s, k + 1, Len(s))) = Len(s) - k
         /\ \A i \in 1..(Len(s) - k) : SubSeq(s, k + 1, Len(s))[i] = s[k + i]
BY SMT

(* The loop of MarkSaved stops at the k that splits the entries into those
   numbered at most s and those numbered higher, and After drops the former. *)
LEMMA AfterSplit ==
  ASSUME NEW entries \in Seq(EntrySet), NEW s \in Nat,
         NEW k \in 0..Len(entries),
         \A i \in 1..k : entries[i].seq <= s,
         \A i \in (k + 1)..Len(entries) : entries[i].seq > s
  PROVE  /\ After(entries, s) \in Seq(EntrySet)
         /\ Len(After(entries, s)) = Len(entries) - k
         /\ \A i \in 1..(Len(entries) - k) :
              After(entries, s)[i] = entries[k + i]
<1> DEFINE P(i) == /\ \A j \in 1..i : entries[j].seq <= s
                   /\ i < Len(entries) => entries[i + 1].seq > s
<1>1. Len(entries) \in Nat
  OBVIOUS
<1>2. \A i \in 1..Len(entries) : entries[i].seq \in Int
  <2>1. ASSUME NEW i \in 1..Len(entries) PROVE entries[i] \in EntrySet
    OBVIOUS
  <2> QED
    BY <2>1, HubAssumption DEF EntrySet
<1>3. P(k)
  BY <1>1
<1>4. ASSUME NEW i \in 0..Len(entries), P(i) PROVE i = k
  <2>1. CASE i < k
    <3>1. i + 1 \in 1..k /\ i + 1 \in 1..Len(entries) /\ i < Len(entries)
      BY <1>1, <2>1
    <3> QED
      BY <1>2, <1>4, <3>1
  <2>2. CASE i > k
    <3>1. k + 1 \in 1..i /\ k + 1 \in (k + 1)..Len(entries)
          /\ k + 1 \in 1..Len(entries)
      BY <1>1, <2>2
    <3> QED
      BY <1>2, <1>4, <3>1
  <2> QED
    BY <1>1, <2>1, <2>2
<1>5. PrefixEnd(entries, s) = CHOOSE i \in 0..Len(entries) : P(i)
  BY Zenon DEF PrefixEnd
<1> HIDE DEF P
<1>6. PrefixEnd(entries, s) = k
  BY <1>3, <1>4, <1>5
<1>7. After(entries, s) = SubSeq(entries, k + 1, Len(entries))
  BY <1>6 DEF After
<1> QED
  BY <1>7, SubSeqRest

(* The entries of a log that satisfies LogInv carry consecutive numbers that
   end at the head, and each was submitted by a connection. *)
LEMMA EntriesNumbered ==
  ASSUME NEW l, NEW history, LogInv(l, history)
  PROVE  /\ l.seq \in Nat /\ l.savedSeq \in Nat /\ Len(l.entries) \in Nat
         /\ l.entries \in Seq(EntrySet)
         /\ l.savedSeq <= l.seq /\ Len(history) = l.seq
         /\ Len(l.entries) <= l.seq - l.savedSeq
         /\ Len(l.entries) <= MaxOpsPerRoom
         /\ l.seq - l.savedSeq <= MaxOpsPerRoom =>
              Len(l.entries) = l.seq - l.savedSeq
         /\ l.seq - l.savedSeq > MaxOpsPerRoom =>
              Len(l.entries) = MaxOpsPerRoom
         /\ \A i \in 1..Len(l.entries) :
              l.entries[i].seq = (l.seq - Len(l.entries)) + i
<1> USE HubAssumption, RetentionAssumption DEF LogInv, LogSet, Retains, Numbered
<1>1. /\ l.seq \in Nat /\ l.savedSeq \in Nat /\ Len(l.entries) \in Nat
      /\ l.entries \in Seq(EntrySet)
      /\ l.savedSeq <= l.seq /\ Len(history) = l.seq
  OBVIOUS
<1>2. /\ Len(l.entries) <= l.seq - l.savedSeq
      /\ Len(l.entries) <= MaxOpsPerRoom
      /\ l.seq - l.savedSeq <= MaxOpsPerRoom =>
           Len(l.entries) = l.seq - l.savedSeq
      /\ l.seq - l.savedSeq > MaxOpsPerRoom => Len(l.entries) = MaxOpsPerRoom
  BY <1>1
<1>3. ASSUME NEW i \in 1..Len(l.entries)
      PROVE  l.entries[i].seq = (l.seq - Len(l.entries)) + i
  <2>1. l.entries[i] = history[l.seq - Len(l.entries) + i]
    OBVIOUS
  <2>2. l.seq - Len(l.entries) + i \in 1..Len(history)
    BY <1>1, <1>2
  <2> QED
    BY <2>1, <2>2
<1> QED
  BY <1>1, <1>2, <1>3

(* An empty log fits an empty history. *)
LEMMA EmptyLogInv == LogInv(EmptyLog, <<>>)
BY HubAssumption, RetentionAssumption
   DEF LogInv, LogSet, Retains, Numbered, EmptyLog

(* A trimmed sequence is the newest part of what it was. *)
LEMMA TrimNewest ==
  ASSUME NEW T, NEW s \in Seq(T)
  PROVE  LET n == IF Len(s) > MaxOpsPerRoom THEN MaxOpsPerRoom ELSE Len(s)
         IN  /\ Trim(s) \in Seq(T)
             /\ Len(Trim(s)) = n
             /\ \A i \in 1..n : Trim(s)[i] = s[Len(s) - n + i]
<1>1. Len(s) \in Nat /\ MaxOpsPerRoom \in Nat
  BY RetentionAssumption
<1>2. CASE Len(s) > MaxOpsPerRoom
  <2> DEFINE from == Len(s) - MaxOpsPerRoom + 1
  <2>1. from \in 1..(Len(s) + 1) /\ Len(s) - from + 1 = MaxOpsPerRoom
    BY <1>1, <1>2
  <2>2. Trim(s) = SubSeq(s, from, Len(s))
    BY <1>2 DEF Trim
  <2> HIDE DEF from
  <2>3. /\ SubSeq(s, from, Len(s)) \in Seq(T)
        /\ Len(SubSeq(s, from, Len(s))) = Len(s) - from + 1
        /\ \A i \in 1..(Len(s) - from + 1) :
             SubSeq(s, from, Len(s))[i] = s[from + i - 1]
    BY <1>1, <2>1
  <2>4. from - 1 = Len(s) - MaxOpsPerRoom
    BY <1>1 DEF from
  <2>5. \A i \in 1..MaxOpsPerRoom :
          from + i - 1 = Len(s) - MaxOpsPerRoom + i
    BY <1>1, <2>1, <2>4
  <2> QED
    BY <1>2, <2>1, <2>2, <2>3, <2>5
<1>3. CASE ~(Len(s) > MaxOpsPerRoom)
  <2>1. Trim(s) = s
    BY <1>3 DEF Trim
  <2>2. \A i \in 1..Len(s) : Len(s) - Len(s) + i = i
    BY <1>1
  <2> QED
    BY <1>3, <2>1, <2>2
<1> QED
  BY <1>2, <1>3

(* Append gives out the next position and keeps the invariant. *)
LEMMA AppendLogInv ==
  ASSUME NEW l, NEW history, LogInv(l, history), l.seq < MaxSeq,
         NEW c \in Conns, NEW ops \in Batches
  PROVE  LogInv(AppendOp(l, c, ops),
                Append(history, Entry(l.seq + 1, c, ops)))
<1> DEFINE e == Entry(l.seq + 1, c, ops)
           grown == Append(l.entries, e)
           m == AppendOp(l, c, ops)
<1>1. /\ l.seq \in Nat /\ l.savedSeq \in Nat /\ Len(l.entries) \in Nat
      /\ l.entries \in Seq(EntrySet)
      /\ l.savedSeq <= l.seq
      /\ Len(l.entries) <= l.seq - l.savedSeq
      /\ Len(l.entries) <= MaxOpsPerRoom
      /\ l.seq - l.savedSeq <= MaxOpsPerRoom =>
           Len(l.entries) = l.seq - l.savedSeq
      /\ l.seq - l.savedSeq > MaxOpsPerRoom => Len(l.entries) = MaxOpsPerRoom
  BY EntriesNumbered
<1>2. e \in EntrySet /\ e \in SlotSet /\ e.seq = l.seq + 1
  BY <1>1, HubAssumption DEF EntrySet, SlotSet, Entry
<1>3. /\ m.entries = Trim(grown) /\ m.seq = l.seq + 1
      /\ m.savedSeq = l.savedSeq
      /\ m = [entries |-> Trim(grown), seq |-> l.seq + 1,
              savedSeq |-> l.savedSeq]
  BY DEF AppendOp
<1>4. grown \in Seq(EntrySet) /\ Len(grown) = Len(l.entries) + 1
  BY <1>1, <1>2
<1> DEFINE n == IF Len(grown) > MaxOpsPerRoom THEN MaxOpsPerRoom ELSE Len(grown)
<1>5. /\ Trim(grown) \in Seq(EntrySet)
      /\ Len(Trim(grown)) = n
      /\ \A i \in 1..n : Trim(grown)[i] = grown[Len(grown) - n + i]
  BY <1>4, TrimNewest
<1>10. /\ n \in Nat /\ n <= Len(grown)
       /\ n = IF l.seq + 1 - l.savedSeq > MaxOpsPerRoom
              THEN MaxOpsPerRoom ELSE l.seq + 1 - l.savedSeq
  <2>1. CASE l.seq - l.savedSeq < MaxOpsPerRoom
    BY <1>1, <1>4, <2>1, RetentionAssumption
  <2>2. CASE l.seq - l.savedSeq = MaxOpsPerRoom
    BY <1>1, <1>4, <2>2, RetentionAssumption
  <2>3. CASE l.seq - l.savedSeq > MaxOpsPerRoom
    BY <1>1, <1>4, <2>3, RetentionAssumption
  <2> QED
    BY <1>1, <2>1, <2>2, <2>3, RetentionAssumption
<1>11. /\ Len(l.entries) \in Nat /\ Len(grown) = Len(l.entries) + 1
       /\ n \in Nat /\ n <= Len(grown)
       /\ Len(l.entries) <= l.seq
       /\ l.seq \in Nat /\ m.seq = l.seq + 1
  BY <1>1, <1>3, <1>4, <1>10
<1> HIDE DEF e, grown, m, n
<1>6. m \in LogSet
  BY <1>1, <1>3, <1>5, HubAssumption DEF LogInv, LogSet
<1>7. /\ Append(history, e) \in Seq(SlotSet)
      /\ Len(Append(history, e)) = l.seq + 1
      /\ \A i \in 1..l.seq : Append(history, e)[i] = history[i]
      /\ Append(history, e)[l.seq + 1] = e
  BY <1>2 DEF LogInv, Retains
<1>8. Numbered(Append(history, e))
  BY <1>1, <1>2, <1>7 DEF LogInv, Numbered, Retains
<1>9. Retains(m, Append(history, e))
  <2>1. m.savedSeq <= m.seq
    BY <1>1, <1>3 DEF LogInv, Retains
  <2>2. n = IF m.seq - m.savedSeq > MaxOpsPerRoom
            THEN MaxOpsPerRoom ELSE m.seq - m.savedSeq
    BY <1>1, <1>3, <1>10
  <2>3. ASSUME NEW i \in 1..n
        PROVE  m.entries[i] = Append(history, e)[m.seq - n + i]
    <3>1. /\ n \in Nat /\ n <= Len(l.entries) + 1
          /\ Len(grown) - n + i \in 1..(Len(l.entries) + 1)
      BY <1>11
    <3>2. m.entries[i] = grown[Len(grown) - n + i]
      BY <1>3, <1>5
    <3>3. CASE i = n
      <4>1. m.entries[i] = e
        BY <3>1, <3>2, <3>3, <1>1, <1>4 DEF grown
      <4> QED
        BY <4>1, <3>1, <3>3, <1>1, <1>3, <1>7
    <3>4. CASE i < n
      <4> DEFINE j == Len(grown) - n + i
      <4>1. j \in 1..Len(l.entries) /\ grown[j] = l.entries[j]
        BY <3>1, <3>4, <1>1, <1>4 DEF grown
      <4>2. l.entries[j] = history[l.seq - Len(l.entries) + j]
        BY <4>1 DEF LogInv, Retains
      <4>3. /\ l.seq - Len(l.entries) + j = m.seq - n + i
            /\ m.seq - n + i \in 1..l.seq
        BY <3>1, <3>4, <1>11, SMTT(30)
      <4>4. Append(history, e)[m.seq - n + i] = history[m.seq - n + i]
        BY <4>3, <1>7
      <4>5. m.entries[i] = history[l.seq - Len(l.entries) + j]
        BY <3>2, <4>1, <4>2
      <4>6. history[l.seq - Len(l.entries) + j] = history[m.seq - n + i]
        BY <4>3
      <4> HIDE DEF j
      <4> QED
        BY <4>4, <4>5, <4>6, Zenon
    <3>5. i = n \/ i < n
      BY <1>11
    <3> QED
      BY <3>3, <3>4, <3>5
  <2> QED
    BY <1>3, <1>5, <1>7, <2>1, <2>2, <2>3, ZenonT(30) DEF Retains
<1> QED
  BY <1>6, <1>7, <1>8, <1>9 DEF LogInv, e, m

(* MarkSaved drops exactly the entries it covers. *)
LEMMA MarkSavedLogInv ==
  ASSUME NEW l, NEW history, LogInv(l, history), NEW seq \in Nat
  PROVE  LogInv(MarkSaved(l, seq), history)
<1>1. CASE seq <= l.savedSeq
  BY <1>1 DEF MarkSaved
<1>2. CASE ~(seq <= l.savedSeq)
  <2> DEFINE saved == IF seq > l.seq THEN l.seq ELSE seq
             base == l.seq - Len(l.entries)
             k == IF saved <= base THEN 0 ELSE saved - base
             m == MarkSaved(l, seq)
  <2>1. /\ l.seq \in Nat /\ l.savedSeq \in Nat /\ Len(l.entries) \in Nat
        /\ l.entries \in Seq(EntrySet)
        /\ Len(l.entries) <= l.seq - l.savedSeq
        /\ \A i \in 1..Len(l.entries) : l.entries[i].seq = base + i
    BY EntriesNumbered
  <2>2. /\ saved \in Nat /\ base \in Nat /\ saved <= l.seq
        /\ l.savedSeq <= saved /\ saved <= base + Len(l.entries)
        /\ k \in 0..Len(l.entries)
    <3>1. /\ l.seq \in Nat /\ l.savedSeq \in Nat /\ Len(l.entries) \in Nat
          /\ Len(l.entries) <= l.seq - l.savedSeq
      BY <2>1
    <3>2. base \in Nat /\ base + Len(l.entries) = l.seq
      BY <3>1
    <3>3. saved \in Nat /\ saved <= l.seq /\ l.savedSeq <= saved
      BY <3>1, <1>2
    <3> HIDE DEF saved, base
    <3>4. k \in 0..Len(l.entries)
      BY <3>1, <3>2, <3>3
    <3> QED
      BY <3>2, <3>3, <3>4
  <2>3. /\ m.entries = After(l.entries, saved) /\ m.seq = l.seq
        /\ m.savedSeq = saved
        /\ m = [entries |-> After(l.entries, saved), seq |-> l.seq,
                savedSeq |-> saved]
    BY <1>2 DEF MarkSaved
  <2>9. /\ base + Len(l.entries) = l.seq
        /\ Len(l.entries) \in Nat /\ l.seq \in Nat /\ l.savedSeq \in Nat
        /\ base \in Nat /\ saved \in Nat /\ saved <= l.seq /\ saved >= l.savedSeq
        /\ k \in Nat /\ k <= Len(l.entries)
        /\ saved <= base => k = 0
        /\ saved > base => k = saved - base
    BY <1>2, <2>1, <2>2
  <2> HIDE DEF saved, m, base, k
  <2>4. /\ After(l.entries, saved) \in Seq(EntrySet)
        /\ Len(After(l.entries, saved)) = Len(l.entries) - k
        /\ \A i \in 1..(Len(l.entries) - k) :
             After(l.entries, saved)[i] = l.entries[k + i]
    <3>1. \A i \in 1..Len(l.entries) : l.entries[i].seq = base + i
      BY <2>1 DEF base
    <3>2. \A i \in 1..k : l.entries[i].seq <= saved
      BY <3>1, <2>9
    <3>3. \A i \in (k + 1)..Len(l.entries) : l.entries[i].seq > saved
      BY <3>1, <2>9
    <3>4. k \in 0..Len(l.entries) /\ l.entries \in Seq(EntrySet)
      BY <2>1, <2>9
    <3> QED
      BY <3>4, <2>9, <3>2, <3>3, AfterSplit
  <2>10. /\ Len(m.entries) = Len(l.entries) - k /\ Len(m.entries) \in Nat
         /\ m.seq = l.seq /\ m.savedSeq = saved
    BY <2>3, <2>4, <2>9
  <2>5. m \in LogSet
    BY <2>3, <2>4, <2>9, HubAssumption DEF LogInv, LogSet
  <2>6. /\ l.seq - saved > MaxOpsPerRoom => Len(l.entries) - k = MaxOpsPerRoom
        /\ l.seq - saved <= MaxOpsPerRoom => Len(l.entries) - k = l.seq - saved
    <3>1. CASE l.seq - l.savedSeq <= MaxOpsPerRoom
      <4>1. Len(l.entries) = l.seq - l.savedSeq
        BY <3>1, EntriesNumbered
      <4>2. MaxOpsPerRoom \in Nat /\ base = l.savedSeq
        BY <4>1, <2>9, RetentionAssumption
      <4>3. k = saved - base
        BY <4>2, <2>9
      <4> QED
        BY <3>1, <4>1, <4>2, <4>3, <2>9, SMTT(30)
    <3>2. CASE l.seq - l.savedSeq > MaxOpsPerRoom
      <4>1. Len(l.entries) = MaxOpsPerRoom
        BY <3>2, EntriesNumbered
      <4>2. MaxOpsPerRoom \in Nat /\ base = l.seq - MaxOpsPerRoom
        BY <4>1, <2>9, RetentionAssumption
      <4>3. CASE saved <= base
        <5>1. k = 0 /\ l.seq - saved >= MaxOpsPerRoom
          BY <4>2, <4>3, <2>9
        <5> QED
          BY <5>1, <4>1, <4>2, <2>9
      <4>4. CASE saved > base
        <5>1. k = saved - (l.seq - MaxOpsPerRoom)
          BY <4>2, <4>4, <2>9
        <5> QED
          BY <5>1, <4>1, <4>2, <4>4, <2>9
      <4> QED
        BY <4>3, <4>4, <2>9
    <3> QED
      BY <3>1, <3>2, <2>9, RetentionAssumption
  <2>7. ASSUME NEW i \in 1..Len(m.entries)
        PROVE  m.entries[i] = history[m.seq - Len(m.entries) + i]
    <3>1. k + i \in 1..Len(l.entries) /\ i \in 1..(Len(l.entries) - k)
      BY <2>9, <2>10
    <3>2. m.entries[i] = l.entries[k + i]
      BY <3>1, <2>3, <2>4
    <3>3. l.entries[k + i] = history[l.seq - Len(l.entries) + (k + i)]
      BY <3>1 DEF LogInv, Retains
    <3>4. l.seq - Len(l.entries) + (k + i) = m.seq - Len(m.entries) + i
      BY <2>9, <2>10
    <3> QED
      BY <3>2, <3>3, <3>4
  <2>8. Retains(m, history)
    <3>1. Len(m.entries) = IF m.seq - m.savedSeq > MaxOpsPerRoom
                           THEN MaxOpsPerRoom ELSE m.seq - m.savedSeq
      <4>1. MaxOpsPerRoom \in Nat
        BY RetentionAssumption
      <4>2. CASE l.seq - saved > MaxOpsPerRoom
        BY <4>1, <4>2, <2>6, <2>9, <2>10
      <4>3. CASE l.seq - saved <= MaxOpsPerRoom
        BY <4>1, <4>3, <2>6, <2>9, <2>10
      <4> QED
        BY <4>1, <4>2, <4>3, <2>9
    <3>2. Len(history) = l.seq
      BY EntriesNumbered
    <3> QED
      BY <2>7, <2>9, <2>10, <3>1, <3>2 DEF Retains
  <2> QED
    BY <2>5, <2>8 DEF LogInv, m
<1> QED
  BY <1>1, <1>2

(* A replacement of the bytes takes a position and drops every entry. *)
LEMMA ResetLogInv ==
  ASSUME NEW l, NEW history, LogInv(l, history), l.seq < MaxSeq
  PROVE  LogInv(Reset(l), Append(history, Replaced(l.seq + 1)))
<1>1. l.seq \in Nat /\ Len(history) = l.seq
  BY EntriesNumbered DEF LogInv, Retains
<1>2. Replaced(l.seq + 1) \in SlotSet /\ Replaced(l.seq + 1).seq = l.seq + 1
  BY <1>1, HubAssumption DEF SlotSet, Replaced
<1>3. Reset(l) \in LogSet
  BY <1>1, HubAssumption DEF LogSet, Reset
<1>4. Numbered(Append(history, Replaced(l.seq + 1)))
  BY <1>1, <1>2 DEF Numbered, LogInv
<1>5. Retains(Reset(l), Append(history, Replaced(l.seq + 1)))
  BY <1>1, <1>2, RetentionAssumption DEF Retains, Reset, LogInv
<1> QED
  BY <1>2, <1>3, <1>4, <1>5 DEF LogInv

(* A replay is the rest of the history, made of operations only. *)
LEMMA ReplayOfLog ==
  ASSUME NEW l, NEW history, LogInv(l, history),
         NEW since \in Nat, ~Since(l, since).reset
  PROVE  /\ Since(l, since).ops = SubSeq(history, since + 1, Len(history))
         /\ \A i \in 1..Len(Since(l, since).ops) :
              /\ IsOp(Since(l, since).ops[i])
              /\ Since(l, since).ops[i].seq = since + i
<1>1. /\ l.seq \in Nat /\ l.savedSeq \in Nat /\ Len(l.entries) \in Nat
      /\ l.entries \in Seq(EntrySet) /\ Len(history) = l.seq
      /\ l.savedSeq <= l.seq
      /\ history \in Seq(SlotSet)
  BY EntriesNumbered DEF LogInv
<1>2. Replayable(l, since)
  BY DEF Since
<1>3. CASE since = l.seq
  <2>1. Since(l, since).ops = <<>>
    BY <1>2, <1>3 DEF Since
  <2>2. SubSeq(history, since + 1, Len(history)) = <<>>
    BY <1>1, <1>3, SubSeqEmpty
  <2>3. 1..Len(<<>>) = {}
    OBVIOUS
  <2> QED
    BY <2>1, <2>2, <2>3
<1>4. CASE since # l.seq
  <2> DEFINE base == l.seq - Len(l.entries)
             k == since - base
             ops == After(l.entries, since)
             rest == SubSeq(history, since + 1, Len(history))
  <2>1. /\ since < l.seq /\ since >= l.savedSeq
        /\ l.entries # <<>> => l.entries[1].seq <= since + 1
    BY <1>2, <1>4 DEF Replayable
  <2>2. Len(l.entries) > 0
    <3>1. /\ MaxOpsPerRoom \in Nat /\ MaxOpsPerRoom > 0
          /\ l.seq - l.savedSeq > 0
      BY <1>1, <2>1, RetentionAssumption
    <3>2. CASE l.seq - l.savedSeq <= MaxOpsPerRoom
      BY <3>1, <3>2, EntriesNumbered
    <3>3. CASE l.seq - l.savedSeq > MaxOpsPerRoom
      BY <3>1, <3>3, EntriesNumbered
    <3> QED
      BY <1>1, <3>1, <3>2, <3>3
  <2>3. l.entries[1].seq = base + 1
    BY <2>2, EntriesNumbered
  <2>4. /\ base \in Nat /\ k \in 0..Len(l.entries)
        /\ base + k = since
        /\ Len(l.entries) - k = l.seq - since
    <3>1. l.entries # <<>> /\ Len(l.entries) <= l.seq
      <4>1. Len(l.entries) <= l.seq - l.savedSeq
        BY EntriesNumbered
      <4> QED
        BY <2>2, <1>1, <4>1
    <3>2. base \in Nat /\ base + 1 <= since + 1
      BY <1>1, <2>1, <2>3, <3>1
    <3>3. base <= since /\ l.seq = base + Len(l.entries)
      BY <1>1, <3>2
    <3> HIDE DEF base
    <3>4. k \in Nat /\ base + k = since
      BY <1>1, <3>2, <3>3
    <3>5. k <= Len(l.entries) /\ Len(l.entries) - k = l.seq - since
      BY <1>1, <2>1, <3>2, <3>3
    <3> QED
      BY <1>1, <3>2, <3>4, <3>5
  <2>5. Since(l, since).ops = ops
    BY <1>2, <1>4 DEF Since
  <2>6. \A i \in 1..Len(l.entries) : l.entries[i].seq = base + i
    BY EntriesNumbered
  <2> HIDE DEF base, k
  <2>7. /\ ops \in Seq(EntrySet)
        /\ Len(ops) = Len(l.entries) - k
        /\ \A i \in 1..(Len(l.entries) - k) : ops[i] = l.entries[k + i]
    <3>1. \A i \in 1..k : l.entries[i].seq <= since
      <4>1. \A i \in 1..k : i \in 1..Len(l.entries) /\ base + i <= since
        BY <1>1, <2>4
      <4> QED
        BY <2>6, <4>1
    <3>2. \A i \in (k + 1)..Len(l.entries) : l.entries[i].seq > since
      BY <1>1, <2>4, <2>6
    <3> QED
      BY <1>1, <2>4, <3>1, <3>2, AfterSplit
  <2> HIDE DEF ops
  <2>8. ASSUME NEW i \in 1..(l.seq - since)
        PROVE  /\ ops[i] = history[since + i]
               /\ IsOp(ops[i]) /\ ops[i].seq = since + i
    <3>1. k + i \in 1..Len(l.entries) /\ base + (k + i) = since + i
          /\ i \in 1..(Len(l.entries) - k)
      BY <1>1, <2>1, <2>4
    <3>2. ops[i] = l.entries[k + i]
      BY <2>7, <3>1
    <3>3. l.entries[k + i] = history[base + (k + i)]
      BY <3>1 DEF LogInv, Retains, base
    <3>4. l.entries[k + i] \in EntrySet
      BY <1>1, <3>1
    <3>5. IsOp(l.entries[k + i])
      BY <3>4, HubAssumption DEF EntrySet, IsOp
    <3> QED
      BY <2>6, <3>1, <3>2, <3>3, <3>5
  <2>9. /\ rest \in Seq(SlotSet)
        /\ Len(rest) = l.seq - since
        /\ \A i \in 1..(l.seq - since) : rest[i] = history[since + i]
    <3>1. since \in 0..Len(history)
      BY <1>1, <2>1
    <3> QED
      BY <1>1, <3>1, SubSeqRest
  <2> HIDE DEF rest
  <2>10. ops = rest
    <3>1. Len(ops) = l.seq - since /\ l.seq - since \in Nat
      BY <1>1, <2>1, <2>4, <2>7
    <3>2. \A i \in 1..Len(ops) : ops[i] = rest[i]
      BY <2>8, <2>9, <3>1
    <3> QED
      BY <2>7, <2>9, <3>1, <3>2, SeqEqual
  <2> QED
    BY <2>4, <2>5, <2>7, <2>8, <2>10 DEF rest
<1> QED
  BY <1>3, <1>4

(* A position whose successors are all retained is never answered by a reset. *)
LEMMA ReplayableIfRetained ==
  ASSUME NEW l, NEW history, LogInv(l, history),
         NEW since \in l.savedSeq..l.seq, l.seq - since <= MaxOpsPerRoom
  PROVE  ~Since(l, since).reset
<1>1. /\ l.seq \in Nat /\ l.savedSeq \in Nat /\ Len(l.entries) \in Nat
      /\ since \in Nat /\ MaxOpsPerRoom \in Nat
  BY EntriesNumbered, RetentionAssumption
<1>2. Len(l.entries) >= l.seq - since
  <2>1. CASE l.seq - l.savedSeq <= MaxOpsPerRoom
    BY <1>1, <2>1, EntriesNumbered
  <2>2. CASE l.seq - l.savedSeq > MaxOpsPerRoom
    BY <1>1, <2>2, EntriesNumbered
  <2> QED
    BY <1>1, <2>1, <2>2
<1>3. l.entries # <<>> => l.entries[1].seq <= since + 1
  <2> SUFFICES ASSUME l.entries # <<>> PROVE l.entries[1].seq <= since + 1
    OBVIOUS
  <2>1. 1 \in 1..Len(l.entries)
    BY <1>1, EntriesNumbered
  <2>2. l.entries[1].seq = (l.seq - Len(l.entries)) + 1
    BY <2>1, EntriesNumbered
  <2> QED
    BY <1>1, <1>2, <2>2
<1>4. Replayable(l, since)
  BY <1>1, <1>3 DEF Replayable
<1> QED
  BY <1>1, <1>4 DEF Since

-----------------------------------------------------------------------------
(* The hub. *)

HubTypes ==
  /\ rooms \in SUBSET Artifacts
  /\ peers \in [Artifacts -> PeerMaps]
  /\ byClient \in [Conns -> SUBSET Artifacts]

LogsInv ==
  /\ log \in [Artifacts -> LogSet]
  /\ slots \in [Artifacts -> Seq(SlotSet)]
  /\ \A a \in Artifacts : LogInv(log[a], slots[a])

NotifyTypes == notifying \in [Hosts -> NotifySet]

ViewTypes == view \in [Artifacts -> [Conns -> ViewSet]]

IInv == HubTypes /\ IndexesAgree /\ LogsInv /\ NotifyTypes /\ ViewTypes

-----------------------------------------------------------------------------
(* Peer maps. *)

(* A map of peers has its keys among the clients. *)
LEMMA PeerMapDomain ==
  ASSUME NEW f
  PROVE  f \in PeerMaps <=>
           /\ DOMAIN f \in SUBSET Conns
           /\ f \in [DOMAIN f -> Selections \cup {NoSelection}]
BY DEF PeerMaps

(* A peer joins the map, or changes its selection. *)
LEMMA WithPeer ==
  ASSUME NEW f \in PeerMaps, NEW c \in Conns,
         NEW v \in Selections \cup {NoSelection}
  PROVE  /\ With(f, c, v) \in PeerMaps
         /\ DOMAIN With(f, c, v) = DOMAIN f \cup {c}
<1>1. /\ DOMAIN f \in SUBSET Conns
      /\ \A d \in DOMAIN f : f[d] \in Selections \cup {NoSelection}
  BY PeerMapDomain
<1>2. /\ DOMAIN With(f, c, v) = DOMAIN f \cup {c}
      /\ With(f, c, v) \in [DOMAIN f \cup {c} -> Selections \cup {NoSelection}]
  BY <1>1 DEF With
<1> QED
  BY <1>1, <1>2, PeerMapDomain

(* A peer leaves the map. *)
LEMMA WithoutPeer ==
  ASSUME NEW f \in PeerMaps, NEW c
  PROVE  /\ Without(f, c) \in PeerMaps
         /\ DOMAIN Without(f, c) = DOMAIN f \ {c}
<1>1. /\ DOMAIN f \in SUBSET Conns
      /\ \A d \in DOMAIN f : f[d] \in Selections \cup {NoSelection}
  BY PeerMapDomain
<1>2. /\ DOMAIN Without(f, c) = DOMAIN f \ {c}
      /\ Without(f, c) \in [DOMAIN f \ {c} -> Selections \cup {NoSelection}]
  BY <1>1 DEF Without
<1> QED
  BY <1>1, <1>2, PeerMapDomain

(* A new room has no peers. *)
LEMMA NoPeersMap == NoPeers \in PeerMaps /\ DOMAIN NoPeers = {}
<1>1. DOMAIN NoPeers = {} /\ NoPeers \in [{} -> Selections \cup {NoSelection}]
  BY DEF NoPeers
<1> QED
  BY <1>1, PeerMapDomain

-----------------------------------------------------------------------------
(* Initial states. *)

(* The invariant holds at first. *)
LEMMA InitIInv == Init => IInv
<1> SUFFICES ASSUME Init PROVE IInv
  OBVIOUS
<1>1. HubTypes
  BY NoPeersMap DEF Init, HubTypes
<1>2. IndexesAgree
  BY NoPeersMap DEF Init, IndexesAgree, Members
<1>3. LogsInv
  BY EmptyLogInv DEF Init, LogsInv, LogInv
<1>4. NotifyTypes
  BY HubAssumption DEF Init, NotifyTypes, NotifySet, Idle
<1>5. ViewTypes
  BY HubAssumption, NoPeersMap DEF Init, ViewTypes, ViewSet, NoView
<1> QED
  BY <1>1, <1>2, <1>3, <1>4, <1>5 DEF IInv

-----------------------------------------------------------------------------
(* The logs.  Every action leaves each log alone, empties it together with
   its history, or applies one method of the store to it. *)

(* A step that leaves logs and history alone keeps what is said of them. *)
LEMMA LogsUnchanged ==
  ASSUME LogsInv, UNCHANGED <<log, slots>> PROVE LogsInv'
BY DEF LogsInv

(* Logs of rooms nobody is in are forgotten with their history. *)
LEMMA LogsForgotten ==
  ASSUME LogsInv, NEW S \in SUBSET Artifacts, ForgetLogs(S) PROVE LogsInv'
<1>1. \A a \in Artifacts : LogInv(log'[a], slots'[a])
  BY EmptyLogInv DEF LogsInv, ForgetLogs
<1>2. log' = [a \in Artifacts |-> log'[a]] /\ slots' = [a \in Artifacts |-> slots'[a]]
  BY DEF ForgetLogs
<1> QED
  BY <1>1, <1>2 DEF LogsInv, LogInv

(* One log changes, and still fits its history. *)
LEMMA LogsAt ==
  ASSUME LogsInv, NEW a \in Artifacts, NEW l, NEW history,
         LogInv(l, history),
         log' = [log EXCEPT ![a] = l],
         slots' = [slots EXCEPT ![a] = history]
  PROVE  LogsInv'
BY DEF LogsInv, LogInv

(* Every step of the hub keeps each log in line with its history. *)
LEMMA LogsStep == ASSUME IInv, [Next]_vars PROVE LogsInv'
<1> USE DEF IInv
<1>1. CASE UNCHANGED vars
  BY <1>1, LogsUnchanged DEF vars
<1>2. ASSUME NEW c \in Conns, NEW a \in Artifacts, Join(c, a) PROVE LogsInv'
  BY <1>2, LogsUnchanged DEF Join
<1>3. ASSUME NEW c \in Conns, NEW gone \in SUBSET Artifacts, RemovePeer(c, gone)
      PROVE  LogsInv'
  <2>1. EmptiedBy(c, gone) \in SUBSET Artifacts
    BY DEF EmptiedBy
  <2> QED
    BY <1>3, <2>1, LogsForgotten DEF RemovePeer
<1>4. ASSUME NEW c \in Conns, NEW a \in Artifacts, Leave(c, a) PROVE LogsInv'
  BY <1>3, <1>4 DEF Leave
<1>5. ASSUME NEW c \in Conns, Disconnect(c) PROVE LogsInv'
  <2>1. {a \in byClient[c] : a \in rooms /\ c \in Members(a)} \in SUBSET Artifacts
    BY DEF HubTypes
  <2> QED
    BY <1>3, <1>5, <2>1 DEF Disconnect
<1>6. ASSUME NEW c \in Conns, NEW a \in Artifacts, NEW sel \in Selections,
             Presence(c, a, sel)
      PROVE  LogsInv'
  BY <1>6, LogsUnchanged DEF Presence
<1>7. ASSUME NEW c \in Conns, NEW a \in Artifacts, NEW ops \in Batches,
             NEW baseSeq \in 0..MaxSeq, Submit(c, a, ops, baseSeq)
      PROVE  LogsInv'
  <2>1. /\ log' = [log EXCEPT ![a] = AppendOp(log[a], c, ops)]
        /\ log'[a].seq = log[a].seq + 1
        /\ log[a].seq < MaxSeq
    BY <1>7 DEF Submit, LogsInv, AppendOp
  <2>2. slots' = [slots EXCEPT ![a] =
                    Append(slots[a], Entry(log[a].seq + 1, c, ops))]
    BY <1>7, <2>1 DEF Submit
  <2>3. LogInv(AppendOp(log[a], c, ops),
               Append(slots[a], Entry(log[a].seq + 1, c, ops)))
    BY <2>1, AppendLogInv DEF LogsInv
  <2> QED
    BY <2>1, <2>2, <2>3, LogsAt
<1>8. ASSUME NEW h \in Hosts, NEW a \in Artifacts,
             NEW origin \in Conns \cup {NoOrigin}, NotifyReset(h, a, origin)
      PROVE  LogsInv'
  <2>1. /\ log' = [log EXCEPT ![a] = Reset(log[a])]
        /\ log'[a].seq = log[a].seq + 1
        /\ log[a].seq < MaxSeq
    BY <1>8 DEF NotifyReset, LogsInv, Reset
  <2>2. slots' = [slots EXCEPT ![a] =
                    Append(slots[a], Replaced(log[a].seq + 1))]
    BY <1>8, <2>1 DEF NotifyReset
  <2>3. LogInv(Reset(log[a]), Append(slots[a], Replaced(log[a].seq + 1)))
    BY <2>1, ResetLogInv DEF LogsInv
  <2> QED
    BY <2>1, <2>2, <2>3, LogsAt
<1>9. ASSUME NEW h \in Hosts, NEW a \in Artifacts,
             NEW origin \in Conns \cup {NoOrigin},
             NEW seq \in 0..(MaxSeq + 1), NotifySaved(h, a, origin, seq)
      PROVE  LogsInv'
  <2> DEFINE l == IF seq > 0 THEN MarkSaved(log[a], seq) ELSE log[a]
  <2>1. log' = [log EXCEPT ![a] = l] /\ slots' = slots
    BY <1>9 DEF NotifySaved
  <2>2. seq \in Nat
    BY HubAssumption
  <2>3. LogInv(l, slots[a])
    BY <2>2, MarkSavedLogInv DEF LogsInv
  <2>4. slots' = [slots EXCEPT ![a] = slots[a]]
    BY <2>1 DEF LogsInv
  <2> QED
    BY <2>1, <2>3, <2>4, LogsAt
<1>10. ASSUME NEW h \in Hosts, NotifyRead(h) PROVE LogsInv'
  BY <1>10, LogsUnchanged DEF NotifyRead
<1>11. ASSUME NEW h \in Hosts, NotifySend(h) PROVE LogsInv'
  BY <1>11, LogsUnchanged DEF NotifySend
<1>12. ASSUME NEW a \in Artifacts, Forget(a) PROVE LogsInv'
  BY <1>12, EmptyLogInv, LogsAt DEF Forget
<1> QED
  BY <1>1, <1>2, <1>4, <1>5, <1>6, <1>7, <1>8, <1>9, <1>10, <1>11, <1>12
     DEF Next, ConnStep, HostStep

-----------------------------------------------------------------------------
(* The memberships and their two indexes. *)

HubInv == HubTypes /\ IndexesAgree

(* A step that leaves rooms, peers and the index alone keeps their agreement. *)
LEMMA HubUnchanged ==
  ASSUME HubInv, UNCHANGED hubVars PROVE HubInv'
BY DEF HubInv, HubTypes, IndexesAgree, hubVars, Members

(* Join enters the client in the room and in the index. *)
LEMMA JoinHubInv ==
  ASSUME HubInv, NEW c \in Conns, NEW a \in Artifacts, Join(c, a)
  PROVE  HubInv'
<1> DEFINE m == IF c \in Members(a) THEN peers[a]
                ELSE With(peers[a], c, NoSelection)
<1>1. /\ peers' = [peers EXCEPT ![a] = m]
      /\ rooms' = rooms \cup {a}
      /\ byClient' = [byClient EXCEPT ![c] = byClient[c] \cup {a}]
  BY DEF Join
<1>2. m \in PeerMaps /\ DOMAIN m = DOMAIN peers[a] \cup {c}
  BY WithPeer DEF HubInv, HubTypes, Members
<1> HIDE DEF m
<1>3. HubTypes'
  BY <1>1, <1>2 DEF HubInv, HubTypes
<1>4. \A b \in Artifacts :
        DOMAIN peers'[b] = IF b = a THEN DOMAIN peers[b] \cup {c}
                           ELSE DOMAIN peers[b]
  BY <1>1, <1>2 DEF HubInv, HubTypes
<1>5. rooms' = {b \in Artifacts : DOMAIN peers'[b] # {}}
  <2>1. \A b \in Artifacts : b \in rooms <=> DOMAIN peers[b] # {}
    BY DEF HubInv, IndexesAgree, Members
  <2>2. \A b \in Artifacts : b \in rooms' <=> DOMAIN peers'[b] # {}
    BY <1>1, <1>4, <2>1
  <2> QED
    BY <2>2, <1>3 DEF HubTypes
<1>6. \A d \in Conns : byClient'[d] = {b \in Artifacts : d \in DOMAIN peers'[b]}
  <2> SUFFICES ASSUME NEW d \in Conns
               PROVE  byClient'[d] = {b \in Artifacts : d \in DOMAIN peers'[b]}
    OBVIOUS
  <2>1. \A b \in Artifacts : b \in byClient[d] <=> d \in DOMAIN peers[b]
    BY DEF HubInv, IndexesAgree, Members
  <2>2. byClient'[d] = IF d = c THEN byClient[d] \cup {a} ELSE byClient[d]
    BY <1>1 DEF HubInv, HubTypes
  <2>3. \A b \in Artifacts : b \in byClient'[d] <=> d \in DOMAIN peers'[b]
    BY <1>4, <2>1, <2>2
  <2> QED
    BY <2>3, <1>3 DEF HubTypes
<1> QED
  BY <1>3, <1>5, <1>6 DEF HubInv, IndexesAgree, Members

(* Leave and LeaveAll take a client out of rooms and index alike. *)
LEMMA RemovePeerHubInv ==
  ASSUME HubInv, NEW c \in Conns, NEW gone \in SUBSET Artifacts,
         RemovePeer(c, gone)
  PROVE  HubInv'
<1> DEFINE emptied == EmptiedBy(c, gone)
<1>1. /\ peers' = [a \in Artifacts |->
                     IF a \in gone THEN Without(peers[a], c) ELSE peers[a]]
      /\ byClient' = [byClient EXCEPT ![c] = byClient[c] \ gone]
      /\ rooms' = rooms \ emptied
  BY DEF RemovePeer, DropPeer
<1>2. \A a \in Artifacts :
        /\ peers'[a] \in PeerMaps
        /\ DOMAIN peers'[a] = IF a \in gone THEN DOMAIN peers[a] \ {c}
                              ELSE DOMAIN peers[a]
  BY <1>1, WithoutPeer DEF HubInv, HubTypes
<1>3. HubTypes'
  BY <1>1, <1>2 DEF HubInv, HubTypes
<1>4. IndexesAgree'
  <2>1. rooms' = {a \in Artifacts : DOMAIN peers'[a] # {}}
    <3>1. \A a \in Artifacts : a \in emptied <=> a \in gone /\ DOMAIN peers[a] = {c}
      BY DEF EmptiedBy, Members
    <3>2. \A a \in Artifacts : a \in rooms <=> DOMAIN peers[a] # {}
      BY DEF HubInv, IndexesAgree, Members
    <3>3. ASSUME NEW a \in Artifacts
          PROVE  a \in rooms' <=> DOMAIN peers'[a] # {}
      <4>1. DOMAIN peers[a] \ {c} = {} <=>
              DOMAIN peers[a] = {} \/ DOMAIN peers[a] = {c}
        OBVIOUS
      <4>2. a \in rooms' <=> a \in rooms /\ ~(a \in gone /\ DOMAIN peers[a] = {c})
        BY <1>1, <3>1
      <4>3. CASE a \in gone
        BY <1>2, <3>2, <4>1, <4>2, <4>3
      <4>4. CASE a \notin gone
        BY <1>2, <3>2, <4>2, <4>4
      <4> QED
        BY <4>3, <4>4
    <3> QED
      BY <3>3, <1>1 DEF HubInv, HubTypes
  <2>2. \A d \in Conns : byClient'[d] = {a \in Artifacts : d \in DOMAIN peers'[a]}
    <3> SUFFICES ASSUME NEW d \in Conns
                 PROVE  byClient'[d] = {a \in Artifacts : d \in DOMAIN peers'[a]}
      OBVIOUS
    <3>1. \A a \in Artifacts : a \in byClient[d] <=> d \in DOMAIN peers[a]
      BY DEF HubInv, IndexesAgree, Members
    <3>2. byClient'[d] = IF d = c THEN byClient[d] \ gone ELSE byClient[d]
      BY <1>1 DEF HubInv, HubTypes
    <3>3. \A a \in Artifacts : a \in byClient'[d] <=> d \in DOMAIN peers'[a]
      BY <1>2, <3>1, <3>2
    <3>4. byClient'[d] \in SUBSET Artifacts
      BY <1>3 DEF HubTypes
    <3> QED
      BY <3>3, <3>4
  <2> QED
    BY <2>1, <2>2 DEF IndexesAgree, Members
<1> QED
  BY <1>3, <1>4 DEF HubInv

(* Presence changes a selection and nobody's membership. *)
LEMMA PresenceHubInv ==
  ASSUME HubInv, NEW c \in Conns, NEW a \in Artifacts, NEW sel \in Selections,
         Presence(c, a, sel)
  PROVE  HubInv'
<1>1. /\ peers' = [peers EXCEPT ![a] = With(peers[a], c, sel)]
      /\ rooms' = rooms /\ byClient' = byClient /\ c \in DOMAIN peers[a]
  BY DEF Presence, Members
<1>2. /\ With(peers[a], c, sel) \in PeerMaps
      /\ DOMAIN With(peers[a], c, sel) = DOMAIN peers[a]
  <2>1. /\ peers[a] \in PeerMaps
        /\ sel \in Selections \cup {NoSelection}
        /\ DOMAIN peers[a] \cup {c} = DOMAIN peers[a]
    BY <1>1 DEF HubInv, HubTypes
  <2> QED
    BY <2>1, WithPeer
<1>3. \A b \in Artifacts : DOMAIN peers'[b] = DOMAIN peers[b]
  BY <1>1, <1>2 DEF HubInv, HubTypes
<1> QED
  BY <1>1, <1>2, <1>3 DEF HubInv, HubTypes, IndexesAgree, Members

(* Every step keeps the indexes in agreement. *)
LEMMA HubStep == ASSUME HubInv, [Next]_vars PROVE HubInv'
<1>1. CASE UNCHANGED vars
  BY <1>1, HubUnchanged DEF vars, hubVars
<1>2. ASSUME NEW c \in Conns, ConnStep(c) PROVE HubInv'
  <2>1. ASSUME NEW a \in Artifacts, Leave(c, a) PROVE HubInv'
    BY <2>1, RemovePeerHubInv DEF Leave
  <2>2. CASE Disconnect(c)
    <3>1. {a \in byClient[c] : a \in rooms /\ c \in Members(a)}
            \in SUBSET Artifacts
      BY DEF HubInv, HubTypes
    <3> QED
      BY <2>2, <3>1, RemovePeerHubInv DEF Disconnect
  <2>3. ASSUME NEW a \in Artifacts, NEW ops \in Batches,
               NEW baseSeq \in 0..MaxSeq, Submit(c, a, ops, baseSeq)
        PROVE  HubInv'
    BY <2>3, HubUnchanged DEF Submit, hubVars
  <2> QED
    BY <1>2, <2>1, <2>2, <2>3, JoinHubInv, PresenceHubInv DEF ConnStep
<1>3. ASSUME NEW h \in Hosts, HostStep(h) PROVE HubInv'
  BY <1>3, HubUnchanged
     DEF HostStep, NotifyReset, NotifySaved, NotifyRead, NotifySend, hubVars
<1>4. ASSUME NEW a \in Artifacts, Forget(a) PROVE HubInv'
  BY <1>4, HubUnchanged DEF Forget, hubVars
<1> QED
  BY <1>1, <1>2, <1>3, <1>4 DEF Next

-----------------------------------------------------------------------------
(* The host threads and the history of what connections were told. *)

(* Every step keeps the types of the host threads. *)
LEMMA NotifyStep == ASSUME IInv, [Next]_vars PROVE NotifyTypes'
<1> USE HubAssumption DEF IInv, NotifyTypes, NotifySet
<1>1. CASE UNCHANGED vars
  BY <1>1 DEF vars
<1>2. ASSUME NEW c \in Conns, ConnStep(c) PROVE NotifyTypes'
  BY <1>2 DEF ConnStep, Join, Leave, Presence, Submit, Disconnect,
              RemovePeer, DropPeer
<1>3. ASSUME NEW h \in Hosts, HostStep(h) PROVE NotifyTypes'
  <2>1. Idle \in NotifySet
    BY DEF Idle
  <2>2. ASSUME NEW a \in Artifacts, NEW origin \in Conns \cup {NoOrigin},
               NotifyReset(h, a, origin)
        PROVE  NotifyTypes'
    BY <2>2 DEF NotifyReset
  <2>3. ASSUME NEW a \in Artifacts, NEW origin \in Conns \cup {NoOrigin},
               NEW seq \in 0..(MaxSeq + 1), NotifySaved(h, a, origin, seq)
        PROVE  NotifyTypes'
    BY <2>3 DEF NotifySaved
  <2>4. CASE NotifyRead(h)
    <3> DEFINE saved == log[notifying[h].artifact].savedSeq
    <3>1. saved \in 0..MaxSeq
      BY DEF LogsInv, LogSet
    <3>2. notifying' = [notifying EXCEPT ![h] =
                          [phase |-> "send", artifact |-> notifying[h].artifact,
                           reset |-> notifying[h].reset,
                           origin |-> notifying[h].origin, savedSeq |-> saved]]
      BY <2>4 DEF NotifyRead
    <3> QED
      BY <3>1, <3>2
  <2>5. CASE NotifySend(h)
    BY <2>1, <2>5 DEF NotifySend
  <2> QED
    BY <1>3, <2>2, <2>3, <2>4, <2>5 DEF HostStep
<1>4. ASSUME NEW a \in Artifacts, Forget(a) PROVE NotifyTypes'
  BY <1>4 DEF Forget
<1> QED
  BY <1>1, <1>2, <1>3, <1>4 DEF Next

(* A view is a record of these four fields. *)
LEMMA ViewRecord ==
  ASSUME NEW v \in ViewSet
  PROVE  /\ v.known \in PeerMaps /\ v.from \in 0..MaxSeq
         /\ v.ops \in SUBSET (1..MaxSeq) /\ v.outdated \in BOOLEAN
BY DEF ViewSet

(* A view with one field changed is a view. *)
LEMMA ViewWith ==
  ASSUME NEW v \in ViewSet
  PROVE  /\ \A known \in PeerMaps : [v EXCEPT !.known = known] \in ViewSet
         /\ \A ops \in SUBSET (1..MaxSeq) : [v EXCEPT !.ops = ops] \in ViewSet
         /\ \A b \in BOOLEAN : [v EXCEPT !.outdated = b] \in ViewSet
BY DEF ViewSet

(* One view changes, the others stay. *)
LEMMA ViewAt ==
  ASSUME ViewTypes, NEW a \in Artifacts, NEW f \in [Conns -> ViewSet],
         view' = [view EXCEPT ![a] = f]
  PROVE  ViewTypes'
BY DEF ViewTypes

(* Every step keeps the types of the views. *)
LEMMA ViewStep == ASSUME IInv, [Next]_vars PROVE ViewTypes'
<1> USE HubAssumption DEF IInv
<1>0. /\ \A a \in Artifacts, d \in Conns : view[a][d] \in ViewSet
      /\ \A a \in Artifacts : peers[a] \in PeerMaps
      /\ \A a \in Artifacts : log[a].seq \in 0..MaxSeq
  BY DEF ViewTypes, HubTypes, LogsInv, LogSet
<1>1. CASE UNCHANGED <<view>>
  BY <1>1 DEF ViewTypes
<1>2. ASSUME NEW c \in Conns, NEW a \in Artifacts, Join(c, a) PROVE ViewTypes'
  <2>1. \A d \in Conns : With(view[a][d].known, c, NoSelection) \in PeerMaps
    BY <1>0, ViewRecord, WithPeer
  <2>2. Without(peers[a], c) \in PeerMaps
    BY <1>0, WithoutPeer
  <2>3. [known |-> Without(peers[a], c), from |-> log[a].seq,
         ops |-> {}, outdated |-> FALSE] \in ViewSet
    BY <1>0, <2>2 DEF ViewSet
  <2>4. \A d \in Conns :
          [view[a][d] EXCEPT !.known =
             With(view[a][d].known, c, NoSelection)] \in ViewSet
    BY <1>0, <2>1, ViewWith
  <2> DEFINE f == [d \in Conns |->
         IF d = c
         THEN [known |-> Without(peers[a], c), from |-> log[a].seq,
               ops |-> {}, outdated |-> FALSE]
         ELSE IF d \in Members(a) /\ c \notin Members(a)
         THEN [view[a][d] EXCEPT !.known =
                 With(view[a][d].known, c, NoSelection)]
         ELSE view[a][d]]
  <2>5. view' = [view EXCEPT ![a] = f]
    BY <1>2 DEF Join
  <2>6. f \in [Conns -> ViewSet]
    BY <1>0, <2>3, <2>4
  <2> HIDE DEF f
  <2> QED
    BY <2>5, <2>6, ViewAt
<1>3. ASSUME NEW c \in Conns, NEW gone \in SUBSET Artifacts, RemovePeer(c, gone)
      PROVE  ViewTypes'
  <2>1. \A a \in Artifacts, d \in Conns :
          [view[a][d] EXCEPT !.known = Without(view[a][d].known, c)] \in ViewSet
    BY <1>0, ViewRecord, WithoutPeer, ViewWith
  <2>2. NoView \in ViewSet
    BY NoPeersMap DEF NoView, ViewSet
  <2>3. \A a \in Artifacts : view[a] \in [Conns -> ViewSet]
    BY DEF ViewTypes
  <2>4. view' = [a \in Artifacts |->
           IF a \notin gone THEN view[a]
           ELSE [d \in Conns |->
                   IF d = c THEN NoView
                   ELSE IF d \in Members(a)
                   THEN [view[a][d] EXCEPT !.known = Without(view[a][d].known, c)]
                   ELSE view[a][d]]]
    BY <1>3 DEF RemovePeer, DropPeer
  <2>5. \A a \in Artifacts :
          [d \in Conns |->
             IF d = c THEN NoView
             ELSE IF d \in Members(a)
             THEN [view[a][d] EXCEPT !.known = Without(view[a][d].known, c)]
             ELSE view[a][d]] \in [Conns -> ViewSet]
    BY <1>0, <2>1, <2>2
  <2> QED
    BY <2>3, <2>4, <2>5 DEF ViewTypes
<1>4. ASSUME NEW c \in Conns, NEW a \in Artifacts, NEW sel \in Selections,
             Presence(c, a, sel)
      PROVE  ViewTypes'
  <2>1. \A d \in Conns : With(view[a][d].known, c, sel) \in PeerMaps
    BY <1>0, ViewRecord, WithPeer
  <2>2. \A d \in Conns :
          [view[a][d] EXCEPT !.known = With(view[a][d].known, c, sel)] \in ViewSet
    BY <1>0, <2>1, ViewWith
  <2> DEFINE f == [d \in Conns |->
         IF d \in Members(a) \ {c}
         THEN [view[a][d] EXCEPT !.known = With(view[a][d].known, c, sel)]
         ELSE view[a][d]]
  <2>3. view' = [view EXCEPT ![a] = f]
    BY <1>4 DEF Presence
  <2>4. f \in [Conns -> ViewSet]
    BY <1>0, <2>2
  <2> HIDE DEF f
  <2> QED
    BY <2>3, <2>4, ViewAt
<1>5. ASSUME NEW c \in Conns, NEW a \in Artifacts, NEW ops \in Batches,
             NEW baseSeq \in 0..MaxSeq, Submit(c, a, ops, baseSeq)
      PROVE  ViewTypes'
  <2>1. log'[a].seq \in 1..MaxSeq
    BY <1>0, <1>5 DEF Submit, AppendOp, LogsInv
  <2>2. \A d \in Conns :
          [view[a][d] EXCEPT !.ops = view[a][d].ops \cup {log'[a].seq}] \in ViewSet
    BY <1>0, <2>1, ViewRecord, ViewWith
  <2> DEFINE f == [d \in Conns |->
         IF d \in Members(a)
         THEN [view[a][d] EXCEPT !.ops = view[a][d].ops \cup {log'[a].seq}]
         ELSE view[a][d]]
  <2>3. view' = [view EXCEPT ![a] = f]
    BY <1>5 DEF Submit
  <2>4. f \in [Conns -> ViewSet]
    BY <1>0, <2>2
  <2> HIDE DEF f
  <2> QED
    BY <2>3, <2>4, ViewAt
<1>6. ASSUME NEW h \in Hosts, NEW a \in Artifacts,
             NEW origin \in Conns \cup {NoOrigin}, NotifyReset(h, a, origin)
      PROVE  ViewTypes'
  <2> DEFINE f == [d \in Conns |->
         IF d \in Members(a) \ {origin}
         THEN [view[a][d] EXCEPT !.outdated = TRUE]
         ELSE view[a][d]]
  <2>1. view' = [view EXCEPT ![a] = f]
    BY <1>6 DEF NotifyReset
  <2>2. f \in [Conns -> ViewSet]
    BY <1>0, ViewWith
  <2> HIDE DEF f
  <2> QED
    BY <2>1, <2>2, ViewAt
<1>7. ASSUME NEW h \in Hosts, NotifySend(h) PROVE ViewTypes'
  <2>1. notifying[h].artifact \in Artifacts
    BY DEF NotifyTypes, NotifySet
  <2> DEFINE n == notifying[h]
             told == IF n.artifact \in rooms
                     THEN Members(n.artifact) \ {n.origin} ELSE {}
             f == [d \in Conns |->
               IF d \in told /\ n.reset
               THEN [view[n.artifact][d] EXCEPT !.outdated = FALSE]
               ELSE view[n.artifact][d]]
  <2>2. view' = [view EXCEPT ![n.artifact] = f]
    BY <1>7 DEF NotifySend
  <2>3. f \in [Conns -> ViewSet]
    BY <1>0, <2>1, ViewWith
  <2> HIDE DEF f
  <2> QED
    BY <2>1, <2>2, <2>3, ViewAt
<1>8. ASSUME NEW a \in Artifacts, Forget(a) PROVE ViewTypes'
  <2>1. \A d \in Conns :
          [known |-> view[a][d].known, from |-> 0, ops |-> {},
           outdated |-> view[a][d].outdated] \in ViewSet
    BY <1>0, ViewRecord DEF ViewSet
  <2> DEFINE f == [d \in Conns |->
         [known |-> view[a][d].known, from |-> 0, ops |-> {},
          outdated |-> view[a][d].outdated]]
  <2>2. view' = [view EXCEPT ![a] = f]
    BY <1>8 DEF Forget
  <2>3. f \in [Conns -> ViewSet]
    BY <2>1
  <2> HIDE DEF f
  <2> QED
    BY <2>2, <2>3, ViewAt
<1>9. ASSUME NEW c \in Conns, Disconnect(c) PROVE ViewTypes'
  <2>1. {a \in byClient[c] : a \in rooms /\ c \in Members(a)} \in SUBSET Artifacts
    BY DEF HubTypes
  <2> QED
    BY <1>3, <1>9, <2>1 DEF Disconnect
<1>10. ASSUME NEW c \in Conns, NEW a \in Artifacts, Leave(c, a) PROVE ViewTypes'
  BY <1>3, <1>10 DEF Leave
<1>11. ASSUME NEW h \in Hosts, NEW a \in Artifacts,
              NEW origin \in Conns \cup {NoOrigin},
              NEW seq \in 0..(MaxSeq + 1), NotifySaved(h, a, origin, seq)
       PROVE  ViewTypes'
  BY <1>1, <1>11 DEF NotifySaved
<1>12. ASSUME NEW h \in Hosts, NotifyRead(h) PROVE ViewTypes'
  BY <1>1, <1>12 DEF NotifyRead
<1>13. CASE UNCHANGED vars
  BY <1>1, <1>13 DEF vars
<1> QED
  BY <1>2, <1>4, <1>5, <1>6, <1>7, <1>8, <1>9, <1>10, <1>11, <1>12, <1>13
     DEF Next, ConnStep, HostStep

-----------------------------------------------------------------------------
(* IInv holds in every reachable state. *)
THEOREM Inductive == Spec => []IInv
<1>1. IInv /\ [Next]_vars => IInv'
  BY LogsStep, HubStep, NotifyStep, ViewStep DEF IInv, HubInv
<1> QED
  BY InitIInv, <1>1, PTL DEF Spec

(* Every variable keeps its type. *)
THEOREM TypeCorrect == Spec => []TypeOK
<1>1. IInv => TypeOK
  BY DEF IInv, HubTypes, LogsInv, NotifyTypes, ViewTypes, TypeOK
<1> QED
  BY Inductive, <1>1, PTL

(* The room index, the memberships and the per-client index always agree. *)
THEOREM IndexesAlwaysAgree == Spec => []IndexesAgree
<1>1. IInv => IndexesAgree
  BY DEF IInv
<1> QED
  BY Inductive, <1>1, PTL

(* What is retained is exactly what is neither saved nor trimmed. *)
THEOREM RetentionAlwaysExact == Spec => []RetentionExact
<1>1. IInv => RetentionExact
  BY DEF IInv, LogsInv, LogInv, RetentionExact
<1> QED
  BY Inductive, <1>1, PTL

(* Whatever position a client asks from, an answer that is not a reset is
   the whole rest of the history, in order, operations only. *)
THEOREM ReplayAlwaysExact == Spec => []ReplayExact
<1>1. IInv => ReplayExact
  <2>1. SUFFICES ASSUME IInv, NEW a \in Artifacts, NEW since \in 0..MaxSeq,
                        ~Since(log[a], since).reset
                 PROVE  LET answer == Since(log[a], since)
                        IN  /\ answer.ops = SubSeq(slots[a], since + 1, Len(slots[a]))
                            /\ \A i \in 1..Len(answer.ops) :
                                 /\ IsOp(answer.ops[i])
                                 /\ answer.ops[i].seq = since + i
    BY DEF ReplayExact
  <2>2. LogInv(log[a], slots[a])
    BY <2>1 DEF IInv, LogsInv
  <2>3. since \in Nat
    BY HubAssumption
  <2> QED
    BY <2>1, <2>2, <2>3, ReplayOfLog
<1> QED
  BY Inductive, <1>1, PTL

(* A client whose position is covered by the retained entries is served. *)
THEOREM ReplayAlwaysComplete == Spec => []ReplayComplete
<1>1. IInv => ReplayComplete
  BY ReplayableIfRetained DEF IInv, LogsInv, ReplayComplete
<1> QED
  BY Inductive, <1>1, PTL

(* The log of an empty room is all saved: that is what keeps MarkSaved and
   ResetLog of a host thread from leaving entries behind. *)
EmptyInv == IInv /\ EmptyRoomRetainsNothing

(* Every step leaves the log of a room nobody is in without entries. *)
LEMMA EmptyStep ==
  ASSUME EmptyInv, [Next]_vars PROVE EmptyRoomRetainsNothing'
<1> USE DEF EmptyInv, EmptyRoomRetainsNothing
<1>0. /\ \A a \in Artifacts : a \in rooms <=> Members(a) # {}
      /\ log \in [Artifacts -> LogSet]
      /\ rooms \in SUBSET Artifacts
  BY DEF IInv, HubTypes, IndexesAgree, LogsInv
<1>1. CASE UNCHANGED <<rooms, log>>
  BY <1>1
<1>2. ASSUME NEW c \in Conns, NEW a \in Artifacts, Join(c, a)
      PROVE  EmptyRoomRetainsNothing'
  BY <1>2 DEF Join
<1>3. ASSUME NEW c \in Conns, NEW gone \in SUBSET Artifacts, RemovePeer(c, gone)
      PROVE  EmptyRoomRetainsNothing'
  BY <1>3 DEF RemovePeer, DropPeer, ForgetLogs, EmptyLog
<1>4. ASSUME NEW c \in Conns, NEW a \in Artifacts, NEW ops \in Batches,
             NEW baseSeq \in 0..MaxSeq, Submit(c, a, ops, baseSeq)
      PROVE  EmptyRoomRetainsNothing'
  <2>1. /\ rooms' = rooms /\ a \in rooms
        /\ log' = [log EXCEPT ![a] = AppendOp(log[a], c, ops)]
    BY <1>4 DEF Submit
  <2> QED
    BY <1>0, <2>1
<1>5. ASSUME NEW h \in Hosts, NEW a \in Artifacts,
             NEW origin \in Conns \cup {NoOrigin}, NotifyReset(h, a, origin)
      PROVE  EmptyRoomRetainsNothing'
  <2>1. /\ rooms' = rooms
        /\ log' = [log EXCEPT ![a] = Reset(log[a])]
    BY <1>5 DEF NotifyReset, hubVars
  <2>2. Reset(log[a]).entries = <<>>
    BY DEF Reset
  <2> QED
    BY <1>0, <2>1, <2>2
<1>6. ASSUME NEW h \in Hosts, NEW a \in Artifacts,
             NEW origin \in Conns \cup {NoOrigin},
             NEW seq \in 0..(MaxSeq + 1), NotifySaved(h, a, origin, seq)
      PROVE  EmptyRoomRetainsNothing'
  <2> DEFINE m == MarkSaved(log[a], seq)
  <2>1. ASSUME log[a].entries = <<>> PROVE m.entries = <<>>
    <3>1. LogInv(m, slots[a]) /\ LogInv(log[a], slots[a])
      BY HubAssumption, MarkSavedLogInv DEF IInv, LogsInv
    <3>2. m.seq = log[a].seq /\ m.savedSeq >= log[a].savedSeq
          /\ log[a].savedSeq <= log[a].seq
      BY <3>1, EntriesNumbered DEF MarkSaved
    <3>3. Len(log[a].entries) = 0
      BY <2>1
    <3>4. log[a].seq - log[a].savedSeq = 0
      <4>1. /\ MaxOpsPerRoom \in Nat /\ MaxOpsPerRoom # 0
            /\ log[a].seq - log[a].savedSeq \in Int
        BY <3>1, RetentionAssumption, EntriesNumbered
      <4> QED
        BY <3>1, <3>3, <4>1, EntriesNumbered
    <3>5. /\ m.entries \in Seq(EntrySet) /\ Len(m.entries) = 0
      BY <3>1, <3>2, <3>4, EntriesNumbered
    <3> QED
      BY <3>5, EmptySeq
  <2>2. log' = [log EXCEPT ![a] = IF seq > 0 THEN m ELSE log[a]]
    BY <1>6 DEF NotifySaved
  <2>3. rooms' = rooms
    BY <1>6 DEF NotifySaved
  <2> HIDE DEF m
  <2> QED
    BY <1>0, <2>1, <2>2, <2>3
<1>7. ASSUME NEW a \in Artifacts, Forget(a) PROVE EmptyRoomRetainsNothing'
  BY <1>0, <1>7 DEF Forget, EmptyLog
<1>8. ASSUME NEW c \in Conns, Disconnect(c) PROVE EmptyRoomRetainsNothing'
  <2>1. {a \in byClient[c] : a \in rooms /\ c \in Members(a)} \in SUBSET Artifacts
    BY <1>0
  <2> QED
    BY <1>3, <1>8, <2>1 DEF Disconnect
<1>9. ASSUME NEW c \in Conns, NEW a \in Artifacts, Leave(c, a)
      PROVE  EmptyRoomRetainsNothing'
  BY <1>3, <1>9 DEF Leave
<1> QED
  BY <1>1, <1>2, <1>4, <1>5, <1>6, <1>7, <1>8, <1>9
     DEF Next, ConnStep, HostStep, Presence, NotifyRead, NotifySend, vars

(* No operation is kept for a room that nobody is in. *)
THEOREM EmptyRoomsRetainNothing == Spec => []EmptyRoomRetainsNothing
<1>1. Init => EmptyInv
  BY InitIInv DEF Init, EmptyInv, EmptyRoomRetainsNothing, EmptyLog
<1>2. EmptyInv /\ [Next]_vars => EmptyInv'
  BY EmptyStep, LogsStep, HubStep, NotifyStep, ViewStep
     DEF EmptyInv, IInv, HubInv
<1>3. EmptyInv => EmptyRoomRetainsNothing
  BY DEF EmptyInv
<1> QED
  BY <1>1, <1>2, <1>3, PTL DEF Spec

-----------------------------------------------------------------------------
(***************************************************************************)
(* The store of the hub implements LinearLog, artifact by artifact.  The   *)
(* refinement mapping of CollabHub reads the ledger off one log record;    *)
(* LogInv says that the record is the newest part of the history, so each  *)
(* method of the store is one step of the ledger.                          *)
(***************************************************************************)
(* What is readable, by position. *)
KeptOf(l) == [n \in (FloorOf(l) + 1)..l.seq |-> l.entries[n - FloorOf(l)]]

(* Arithmetic of the floor, apart from the records it is read from. *)
LEMMA FloorArithmetic ==
  ASSUME NEW max \in Nat \ {0}, NEW seq \in Nat, NEW saved \in Nat,
         saved <= seq, NEW n,
         n = IF seq - saved > max THEN max ELSE seq - saved
  PROVE  /\ n \in Nat /\ n <= seq /\ seq - n \in Nat
         /\ seq - n = IF seq - saved > max THEN seq - max ELSE saved
OBVIOUS

(* The readable positions of a log carry what the history has there. *)
LEMMA KeptIsHistory ==
  ASSUME NEW l, NEW history, LogInv(l, history)
  PROVE  /\ l.seq \in Nat /\ l.savedSeq \in Nat /\ l.savedSeq <= l.seq
         /\ Len(history) = l.seq
         /\ FloorOf(l) \in 0..l.seq
         /\ FloorOf(l) = IF l.seq - l.savedSeq > MaxOpsPerRoom
                         THEN l.seq - MaxOpsPerRoom ELSE l.savedSeq
         /\ KeptOf(l) = [n \in (FloorOf(l) + 1)..l.seq |-> history[n]]
<1>1. /\ l.seq \in Nat /\ l.savedSeq \in Nat /\ l.savedSeq <= l.seq
      /\ Len(history) = l.seq
      /\ l.entries \in Seq(EntrySet)
      /\ Len(l.entries) = IF l.seq - l.savedSeq > MaxOpsPerRoom
                          THEN MaxOpsPerRoom ELSE l.seq - l.savedSeq
      /\ \A i \in 1..Len(l.entries) :
           l.entries[i] = history[l.seq - Len(l.entries) + i]
  BY HubAssumption DEF LogInv, LogSet, Retains
<1>2. /\ Len(l.entries) \in Nat /\ Len(l.entries) <= l.seq
      /\ l.seq - Len(l.entries) \in Nat
      /\ l.seq - Len(l.entries) = IF l.seq - l.savedSeq > MaxOpsPerRoom
                                  THEN l.seq - MaxOpsPerRoom ELSE l.savedSeq
  <2> DEFINE seq == l.seq
             saved == l.savedSeq
             k == Len(l.entries)
  <2>1. /\ seq \in Nat /\ saved \in Nat /\ saved <= seq
        /\ k = IF seq - saved > MaxOpsPerRoom THEN MaxOpsPerRoom
               ELSE seq - saved
    BY <1>1
  <2> HIDE DEF seq, saved, k
  <2>2. /\ k \in Nat /\ k <= seq /\ seq - k \in Nat
        /\ seq - k = IF seq - saved > MaxOpsPerRoom THEN seq - MaxOpsPerRoom
                     ELSE saved
    BY <2>1, RetentionAssumption, FloorArithmetic
  <2> QED
    BY <2>2 DEF seq, saved, k
<1>3. ASSUME NEW n \in (FloorOf(l) + 1)..l.seq
      PROVE  l.entries[n - FloorOf(l)] = history[n]
  <2>1. /\ n - FloorOf(l) \in 1..Len(l.entries)
        /\ l.seq - Len(l.entries) + (n - FloorOf(l)) = n
    <3> DEFINE seq == l.seq
               k == Len(l.entries)
    <3>1. /\ seq \in Nat /\ k \in Nat /\ k <= seq
          /\ FloorOf(l) = seq - k
      BY <1>1, <1>2 DEF FloorOf
    <3>2. n \in (seq - k + 1)..seq
      BY <3>1
    <3> HIDE DEF seq, k
    <3>3. n - FloorOf(l) \in 1..k /\ seq - k + (n - FloorOf(l)) = n
      BY <3>1, <3>2
    <3> QED
      BY <3>3 DEF seq, k
  <2> QED
    BY <1>1, <2>1
<1>4. FloorOf(l) \in 0..l.seq
  BY <1>1, <1>2 DEF FloorOf
<1> QED
  BY <1>1, <1>2, <1>3, <1>4 DEF FloorOf, KeptOf

(* Two functions without arguments are equal. *)
LEMMA NothingKept ==
  ASSUME NEW l, NEW m \in Nat, FloorOf(l) = m, l.seq = m
  PROVE  KeptOf(l) = [n \in 1..0 |-> 0]
<1>1. (m + 1)..m = {} /\ 1..0 = {}
  OBVIOUS
<1> QED
  BY <1>1 DEF KeptOf

-----------------------------------------------------------------------------
(* The methods of the store, as steps of the ledger. *)

(* Append does what the abstract log calls Accept. *)
LEMMA AppendAccepts ==
  ASSUME NEW l, NEW history, LogInv(l, history), l.seq < MaxSeq,
         NEW c \in Conns, NEW ops \in Batches
  PROVE  LET m == AppendOp(l, c, ops)
         IN  /\ m.seq = l.seq + 1
             /\ FloorOf(m) \in FloorOf(l)..l.seq
             /\ KeptOf(m) = [n \in (FloorOf(m) + 1)..(l.seq + 1) |->
                               IF n = l.seq + 1
                               THEN [seq |-> n, client |-> c, ops |-> ops]
                               ELSE KeptOf(l)[n]]
<1> DEFINE m == AppendOp(l, c, ops)
           e == Entry(l.seq + 1, c, ops)
           now == Append(history, e)
<1>1. LogInv(m, now)
  BY AppendLogInv
<1>2. m.seq = l.seq + 1 /\ m.savedSeq = l.savedSeq
  BY DEF AppendOp
<1>3. /\ l.seq \in Nat /\ l.savedSeq \in Nat /\ l.savedSeq <= l.seq
      /\ Len(history) = l.seq
      /\ FloorOf(l) \in 0..l.seq
      /\ FloorOf(l) = IF l.seq - l.savedSeq > MaxOpsPerRoom
                      THEN l.seq - MaxOpsPerRoom ELSE l.savedSeq
      /\ KeptOf(l) = [n \in (FloorOf(l) + 1)..l.seq |-> history[n]]
  BY KeptIsHistory
<1>4. /\ FloorOf(m) = IF m.seq - m.savedSeq > MaxOpsPerRoom
                      THEN m.seq - MaxOpsPerRoom ELSE m.savedSeq
      /\ KeptOf(m) = [n \in (FloorOf(m) + 1)..m.seq |-> now[n]]
  BY <1>1, KeptIsHistory, ZenonT(30)
<1>5. FloorOf(m) \in FloorOf(l)..l.seq
  BY <1>2, <1>3, <1>4, RetentionAssumption
<1>6. ASSUME NEW n \in (FloorOf(m) + 1)..(l.seq + 1)
      PROVE  now[n] = IF n = l.seq + 1
                      THEN [seq |-> n, client |-> c, ops |-> ops]
                      ELSE KeptOf(l)[n]
  <2>0. history \in Seq(SlotSet)
    BY DEF LogInv
  <2>1. CASE n = l.seq + 1
    <3>1. now[n] = e
      BY <1>3, <2>0, <2>1
    <3> QED
      BY <2>1, <3>1 DEF Entry
  <2>2. CASE n # l.seq + 1
    <3>1. n \in (FloorOf(l) + 1)..l.seq /\ n \in 1..Len(history)
      BY <1>3, <1>5, <2>2
    <3>2. now[n] = history[n]
      BY <2>0, <3>1
    <3> QED
      BY <1>3, <2>2, <3>1, <3>2
  <2> QED
    BY <2>1, <2>2
<1> HIDE DEF m, now, e
<1>7. KeptOf(m) = [n \in (FloorOf(m) + 1)..(l.seq + 1) |->
                     IF n = l.seq + 1
                     THEN [seq |-> n, client |-> c, ops |-> ops]
                     ELSE KeptOf(l)[n]]
  BY <1>2, <1>4, <1>6
<1> QED
  BY <1>2, <1>5, <1>7 DEF m

(* MarkSaved does what the abstract log calls Compact. *)
LEMMA MarkSavedCompacts ==
  ASSUME NEW l, NEW history, LogInv(l, history), NEW seq \in Nat
  PROVE  LET m == MarkSaved(l, seq)
         IN  /\ m.seq = l.seq
             /\ FloorOf(m) \in FloorOf(l)..l.seq
             /\ KeptOf(m) = [n \in (FloorOf(m) + 1)..l.seq |-> KeptOf(l)[n]]
<1> DEFINE m == MarkSaved(l, seq)
<1>1. LogInv(m, history)
  BY MarkSavedLogInv
<1>2. /\ l.seq \in Nat /\ l.savedSeq \in Nat /\ l.savedSeq <= l.seq
      /\ FloorOf(l) \in 0..l.seq
      /\ FloorOf(l) = IF l.seq - l.savedSeq > MaxOpsPerRoom
                      THEN l.seq - MaxOpsPerRoom ELSE l.savedSeq
      /\ KeptOf(l) = [n \in (FloorOf(l) + 1)..l.seq |-> history[n]]
  BY KeptIsHistory
<1>3. /\ m.savedSeq \in Nat /\ m.savedSeq <= m.seq
      /\ FloorOf(m) = IF m.seq - m.savedSeq > MaxOpsPerRoom
                      THEN m.seq - MaxOpsPerRoom ELSE m.savedSeq
      /\ KeptOf(m) = [n \in (FloorOf(m) + 1)..m.seq |-> history[n]]
  BY <1>1, KeptIsHistory
<1>4. m.seq = l.seq /\ m.savedSeq >= l.savedSeq
  BY <1>2 DEF MarkSaved
<1> HIDE DEF m
<1>5. FloorOf(m) \in FloorOf(l)..l.seq
  BY <1>2, <1>3, <1>4, RetentionAssumption
<1>6. \A n \in (FloorOf(m) + 1)..l.seq : history[n] = KeptOf(l)[n]
  <2> SUFFICES ASSUME NEW n \in (FloorOf(m) + 1)..l.seq
               PROVE  history[n] = KeptOf(l)[n]
    OBVIOUS
  <2>1. n \in (FloorOf(l) + 1)..l.seq
    BY <1>2, <1>5
  <2> QED
    BY <1>2, <2>1
<1>7. KeptOf(m) = [n \in (FloorOf(m) + 1)..l.seq |-> KeptOf(l)[n]]
  BY <1>3, <1>4, <1>6
<1> QED
  BY <1>4, <1>5, <1>7 DEF m

(* Reset does what the abstract log calls Replace. *)
LEMMA ResetReplaces ==
  ASSUME NEW l, l.seq \in Nat
  PROVE  /\ Reset(l).seq = l.seq + 1
         /\ FloorOf(Reset(l)) = l.seq + 1
         /\ KeptOf(Reset(l)) = [n \in 1..0 |-> 0]
<1>1. Reset(l).seq = l.seq + 1 /\ Reset(l).entries = <<>>
  BY DEF Reset
<1>2. FloorOf(Reset(l)) = l.seq + 1
  BY <1>1 DEF FloorOf
<1> QED
  BY <1>1, <1>2, NothingKept

(* An empty log is an abstract log of no positions. *)
LEMMA EmptyLogKeepsNothing ==
  /\ EmptyLog.seq = 0
  /\ FloorOf(EmptyLog) = 0
  /\ KeptOf(EmptyLog) = [n \in 1..0 |-> 0]
<1>1. EmptyLog.seq = 0 /\ EmptyLog.entries = <<>>
  BY DEF EmptyLog
<1>2. FloorOf(EmptyLog) = 0
  BY DEF FloorOf, EmptyLog
<1> QED
  BY <1>1, <1>2, NothingKept

-----------------------------------------------------------------------------
(* The same, for the ledger that Ledger(a) maps the log of a to. *)

(* A log that an Append changed took an Accept step. *)
LEMMA LedgerAccepts ==
  ASSUME NEW a \in Artifacts, NEW c, NEW ops,
         log'[a].seq = log[a].seq + 1,
         FloorOf(log'[a]) \in FloorOf(log[a])..log[a].seq,
         KeptOf(log'[a]) =
           [n \in (FloorOf(log'[a]) + 1)..(log[a].seq + 1) |->
              IF n = log[a].seq + 1
              THEN [seq |-> n, client |-> c, ops |-> ops]
              ELSE KeptOf(log[a])[n]]
  PROVE  Ledger(a)!Accept(c, ops)
BY DEF Ledger!Accept, KeptOf, FloorOf

(* A log that MarkSaved changed took a Compact step. *)
LEMMA LedgerCompacts ==
  ASSUME NEW a \in Artifacts,
         log'[a].seq = log[a].seq,
         FloorOf(log'[a]) \in FloorOf(log[a])..log[a].seq,
         KeptOf(log'[a]) =
           [n \in (FloorOf(log'[a]) + 1)..log[a].seq |-> KeptOf(log[a])[n]]
  PROVE  Ledger(a)!Compact
BY DEF Ledger!Compact, Ledger!Retain, KeptOf, FloorOf

(* A log that Reset changed took a Replace step. *)
LEMMA LedgerReplaces ==
  ASSUME NEW a \in Artifacts,
         log'[a].seq = log[a].seq + 1,
         FloorOf(log'[a]) = log[a].seq + 1,
         KeptOf(log'[a]) = [n \in 1..0 |-> 0]
  PROVE  Ledger(a)!Replace
BY DEF Ledger!Replace, KeptOf, FloorOf

(* A log that was forgotten took a Drop step. *)
LEMMA LedgerDrops ==
  ASSUME NEW a \in Artifacts, log'[a] = EmptyLog
  PROVE  Ledger(a)!Drop
<1>1. /\ log'[a].seq = 0 /\ FloorOf(log'[a]) = 0
      /\ KeptOf(log'[a]) = [n \in 1..0 |-> 0]
  BY EmptyLogKeepsNothing
<1> QED
  BY <1>1 DEF Ledger!Drop, KeptOf, FloorOf

(* A log that did not change took none. *)
LEMMA LedgerStutters ==
  ASSUME NEW a \in Artifacts, log'[a] = log[a]
  PROVE  UNCHANGED Ledger(a)!ledger
BY DEF Ledger!ledger, FloorOf

(* At first every log is an initial abstract log. *)
LEMMA LedgerStarts ==
  ASSUME Init, NEW a \in Artifacts PROVE Ledger(a)!Init
<1>1. log[a] = EmptyLog
  BY DEF Init
<1>2. /\ log[a].seq = 0 /\ FloorOf(log[a]) = 0
      /\ KeptOf(log[a]) = [n \in 1..0 |-> 0]
  BY <1>1, EmptyLogKeepsNothing
<1> QED
  BY <1>2 DEF Ledger!Init, KeptOf, FloorOf

(* Every step of the hub is a step of each abstract log, or leaves it alone. *)
LEMMA LedgerSteps ==
  ASSUME IInv, [Next]_vars, NEW a \in Artifacts PROVE LedgerStep(a)
<1>0. /\ LogInv(log[a], slots[a]) /\ log[a].seq \in Nat
      /\ log \in [Artifacts -> LogSet]
  BY EntriesNumbered DEF IInv, LogsInv
<1>1. CASE log'[a] = log[a]
  BY <1>1, LedgerStutters DEF LedgerStep
<1>2. CASE log'[a] = EmptyLog
  BY <1>2, LedgerDrops DEF LedgerStep, Ledger!Next
<1>3. ASSUME NEW c \in Conns, NEW b \in Artifacts, NEW ops \in Batches,
             NEW baseSeq \in 0..MaxSeq, Submit(c, b, ops, baseSeq)
      PROVE  LedgerStep(a)
  <2>1. CASE b # a
    BY <1>0, <1>1, <1>3, <2>1 DEF Submit
  <2>2. CASE b = a
    <3>1. log'[a] = AppendOp(log[a], c, ops) /\ log[a].seq < MaxSeq
      BY <1>0, <1>3, <2>2 DEF Submit
    <3>2. Ledger(a)!Accept(c, ops)
      BY <1>0, <3>1, AppendAccepts, LedgerAccepts
    <3> QED
      BY <3>2 DEF LedgerStep, Ledger!Next
  <2> QED
    BY <2>1, <2>2
<1>4. ASSUME NEW h \in Hosts, NEW b \in Artifacts,
             NEW origin \in Conns \cup {NoOrigin}, NotifyReset(h, b, origin)
      PROVE  LedgerStep(a)
  <2>1. CASE b # a
    BY <1>0, <1>1, <1>4, <2>1 DEF NotifyReset
  <2>2. CASE b = a
    <3>1. log'[a] = Reset(log[a])
      BY <1>0, <1>4, <2>2 DEF NotifyReset
    <3>2. Ledger(a)!Replace
      BY <1>0, <3>1, ResetReplaces, LedgerReplaces
    <3> QED
      BY <3>2 DEF LedgerStep, Ledger!Next
  <2> QED
    BY <2>1, <2>2
<1>5. ASSUME NEW h \in Hosts, NEW b \in Artifacts,
             NEW origin \in Conns \cup {NoOrigin},
             NEW seq \in 0..(MaxSeq + 1), NotifySaved(h, b, origin, seq)
      PROVE  LedgerStep(a)
  <2>1. CASE b # a \/ ~(seq > 0)
    BY <1>0, <1>1, <1>5, <2>1 DEF NotifySaved
  <2>2. CASE b = a /\ seq > 0
    <3>1. log'[a] = MarkSaved(log[a], seq)
      BY <1>0, <1>5, <2>2 DEF NotifySaved
    <3>2. seq \in Nat
      BY HubAssumption
    <3>3. Ledger(a)!Compact
      BY <1>0, <3>1, <3>2, MarkSavedCompacts, LedgerCompacts
    <3> QED
      BY <3>3 DEF LedgerStep, Ledger!Next
  <2> QED
    BY <2>1, <2>2
<1>6. ASSUME NEW c, NEW gone, RemovePeer(c, gone) PROVE LedgerStep(a)
  <2>1. log'[a] = log[a] \/ log'[a] = EmptyLog
    BY <1>6 DEF RemovePeer, ForgetLogs
  <2> QED
    BY <1>1, <1>2, <2>1
<1>7. ASSUME NEW b \in Artifacts, Forget(b) PROVE LedgerStep(a)
  <2>1. log'[a] = log[a] \/ log'[a] = EmptyLog
    BY <1>0, <1>7 DEF Forget
  <2> QED
    BY <1>1, <1>2, <2>1
<1> QED
  BY <1>1, <1>3, <1>4, <1>5, <1>6, <1>7, ZenonT(30)
     DEF Next, ConnStep, HostStep, Join, Leave, Disconnect, Presence,
         NotifyRead, NotifySend, vars

(* Each artifact's log implements LinearLog: an accepted batch takes the
   position after the head, a save or the retention limit only moves the
   floor up, a replacement takes a position nothing describes, and what stays
   readable is what was accepted there. *)
THEOREM LogsImplementLinearLog == Spec => LogsAreLinear
<1>1. Init => \A a \in Artifacts : Ledger(a)!Init
  BY LedgerStarts
<1>2. IInv /\ [Next]_vars => [\A a \in Artifacts : LedgerStep(a)]_vars
  BY LedgerSteps
<1> QED
  BY Inductive, <1>1, <1>2, PTL DEF Spec, LogsAreLinear

-----------------------------------------------------------------------------
(***************************************************************************)
(* What connections are told: presence, the feed of operations and the     *)
(* announcement of replaced bytes.  Each invariant is inductive relative   *)
(* to IInv.                                                                *)
(***************************************************************************)
LEMMA IInvStep == ASSUME IInv, [Next]_vars PROVE IInv'
BY LogsStep, HubStep, NotifyStep, ViewStep DEF IInv, HubInv

(* What LeaveAll walks is a set of artifacts. *)
LEMMA DisconnectSet ==
  ASSUME IInv, NEW c \in Conns
  PROVE  {a \in byClient[c] : a \in rooms /\ c \in Members(a)}
           \in SUBSET Artifacts
BY DEF IInv, HubTypes

-----------------------------------------------------------------------------
(* Peer maps as two clients see them. *)

(* Taking out a peer just added leaves the map without it. *)
LEMMA WithoutWith ==
  ASSUME NEW f, NEW c, NEW v
  PROVE  Without(With(f, c, v), c) = Without(f, c)
BY DEF Without, With

(* A peer may be added and another taken out in either order. *)
LEMMA WithWithout ==
  ASSUME NEW f, NEW c, NEW d, NEW v, c # d
  PROVE  With(Without(f, d), c, v) = Without(With(f, c, v), d)
BY DEF Without, With

(* Peers may be taken out in either order. *)
LEMMA WithoutTwice ==
  ASSUME NEW f, NEW c, NEW d
  PROVE  Without(Without(f, d), c) = Without(Without(f, c), d)
BY DEF Without

(* A step that leaves the peers and what is known of them alone. *)
LEMMA KnownUnchanged ==
  ASSUME IInv, PresenceAgrees, UNCHANGED peers,
         \A a \in Artifacts : \A d \in Conns :
           view'[a][d].known = view[a][d].known
  PROVE  PresenceAgrees'
<1>1. \A a \in Artifacts : DOMAIN peers[a] \in SUBSET Conns
  BY PeerMapDomain DEF IInv, HubTypes
<1> QED
  BY <1>1 DEF PresenceAgrees, Members

(* Every step keeps each member's picture of the others right. *)
LEMMA PresenceStep ==
  ASSUME IInv, PresenceAgrees, [Next]_vars PROVE PresenceAgrees'
<1>0. /\ \A a \in Artifacts : DOMAIN peers[a] \in SUBSET Conns
      /\ \A a \in Artifacts, d \in Conns : view[a][d] \in ViewSet
      /\ view \in [Artifacts -> [Conns -> ViewSet]]
      /\ peers \in [Artifacts -> PeerMaps]
  BY PeerMapDomain DEF IInv, HubTypes, ViewTypes
<1>1. ASSUME NEW c \in Conns, NEW a \in Artifacts, Join(c, a)
      PROVE  PresenceAgrees'
  <2> DEFINE m == IF c \in Members(a) THEN peers[a]
                  ELSE With(peers[a], c, NoSelection)
  <2>1. peers' = [peers EXCEPT ![a] = m]
    BY <1>1 DEF Join
  <2>2. DOMAIN m = DOMAIN peers[a] \cup {c}
    BY <1>0, WithPeer DEF Members
  <2>3. Without(m, c) = Without(peers[a], c)
    BY WithoutWith
  <2>4. ASSUME NEW d \in DOMAIN peers[a], d # c
        PROVE  view'[a][d].known = Without(m, d)
    <3>1. view[a][d].known = Without(peers[a], d) /\ d \in Conns
      BY <1>0 DEF PresenceAgrees, Members
    <3>2. view'[a][d] = IF c \notin DOMAIN peers[a]
                        THEN [view[a][d] EXCEPT !.known =
                                With(view[a][d].known, c, NoSelection)]
                        ELSE view[a][d]
      BY <1>0, <1>1, <2>4, <3>1 DEF Join, Members
    <3>3. CASE c \in DOMAIN peers[a]
      BY <3>1, <3>2, <3>3 DEF Members
    <3>4. CASE c \notin DOMAIN peers[a]
      <4>1. view'[a][d].known = With(view[a][d].known, c, NoSelection)
        BY <1>0, <3>1, <3>2, <3>4 DEF ViewSet
      <4> QED
        BY <2>4, <3>1, <3>4, <4>1, WithWithout DEF Members
    <3> QED
      BY <3>3, <3>4
  <2>5. view'[a][c].known = Without(m, c)
    BY <1>0, <1>1, <2>3 DEF Join
  <2>6. \A b \in Artifacts \ {a} : view'[b] = view[b] /\ peers'[b] = peers[b]
    BY <1>0, <1>1, <2>1 DEF Join
  <2>7. peers'[a] = m
    BY <1>0, <2>1
  <2> HIDE DEF m
  <2>8. \A d \in DOMAIN peers'[a] : view'[a][d].known = Without(peers'[a], d)
    BY <2>2, <2>4, <2>5, <2>7
  <2> QED
    BY <2>6, <2>8 DEF PresenceAgrees, Members
<1>2. ASSUME NEW c \in Conns, NEW gone \in SUBSET Artifacts, RemovePeer(c, gone)
      PROVE  PresenceAgrees'
  <2> SUFFICES ASSUME NEW a \in Artifacts, NEW d \in DOMAIN peers'[a]
               PROVE  view'[a][d].known = Without(peers'[a], d)
    BY DEF PresenceAgrees, Members
  <2>1. peers'[a] = IF a \in gone THEN Without(peers[a], c) ELSE peers[a]
    BY <1>2 DEF RemovePeer, DropPeer
  <2>2. CASE a \notin gone
    <3>1. view'[a] = view[a] /\ peers'[a] = peers[a]
      BY <1>2, <2>1, <2>2 DEF RemovePeer, DropPeer
    <3> QED
      BY <3>1 DEF PresenceAgrees, Members
  <2>3. CASE a \in gone
    <3>1. d \in DOMAIN peers[a] /\ d # c /\ d \in Conns
      BY <1>0, <2>1, <2>3 DEF Without
    <3>2. view'[a][d] = [view[a][d] EXCEPT !.known = Without(view[a][d].known, c)]
      BY <1>2, <2>3, <3>1 DEF RemovePeer, DropPeer, Members
    <3>3. view'[a][d].known = Without(view[a][d].known, c)
      BY <1>0, <3>1, <3>2 DEF ViewSet
    <3>4. view[a][d].known = Without(peers[a], d)
      BY <3>1 DEF PresenceAgrees, Members
    <3> QED
      BY <2>1, <2>3, <3>3, <3>4, WithoutTwice
  <2> QED
    BY <2>2, <2>3
<1>3. ASSUME NEW c \in Conns, NEW a \in Artifacts, Leave(c, a)
      PROVE  PresenceAgrees'
  BY <1>2, <1>3 DEF Leave
<1>4. ASSUME NEW c \in Conns, Disconnect(c) PROVE PresenceAgrees'
  BY <1>2, <1>4, DisconnectSet DEF Disconnect
<1>5. ASSUME NEW c \in Conns, NEW a \in Artifacts, NEW sel \in Selections,
             Presence(c, a, sel)
      PROVE  PresenceAgrees'
  <2>1. /\ peers' = [peers EXCEPT ![a] = With(peers[a], c, sel)]
        /\ c \in DOMAIN peers[a]
    BY <1>5 DEF Presence, Members
  <2>2. \A b \in Artifacts \ {a} : view'[b] = view[b] /\ peers'[b] = peers[b]
    BY <1>0, <1>5, <2>1 DEF Presence
  <2>3. ASSUME NEW d \in DOMAIN peers[a]
        PROVE  view'[a][d].known = Without(With(peers[a], c, sel), d)
    <3>1. view[a][d].known = Without(peers[a], d) /\ d \in Conns
      BY <1>0 DEF PresenceAgrees, Members
    <3>2. view'[a][d] = IF d # c
                        THEN [view[a][d] EXCEPT !.known =
                                With(view[a][d].known, c, sel)]
                        ELSE view[a][d]
      BY <1>0, <1>5, <3>1 DEF Presence, Members
    <3>3. CASE d = c
      BY <3>1, <3>2, <3>3, WithoutWith
    <3>4. CASE d # c
      <4>1. view'[a][d].known = With(view[a][d].known, c, sel)
        BY <1>0, <3>1, <3>2, <3>4 DEF ViewSet
      <4> QED
        BY <3>1, <3>4, <4>1, WithWithout
    <3> QED
      BY <3>3, <3>4
  <2>4. peers'[a] = With(peers[a], c, sel)
    BY <1>0, <2>1
  <2>5. DOMAIN peers'[a] = DOMAIN peers[a]
    BY <2>1, <2>4 DEF With
  <2>6. \A d \in DOMAIN peers'[a] : view'[a][d].known = Without(peers'[a], d)
    BY <2>3, <2>4, <2>5
  <2> QED
    BY <2>2, <2>6 DEF PresenceAgrees, Members
<1>6. ASSUME NEW c \in Conns, NEW a \in Artifacts, NEW ops \in Batches,
             NEW baseSeq \in 0..MaxSeq, Submit(c, a, ops, baseSeq)
      PROVE  PresenceAgrees'
  <2>1. \A b \in Artifacts, d \in Conns : view'[b][d].known = view[b][d].known
    BY <1>0, <1>6 DEF Submit, ViewSet
  <2> QED
    BY <1>6, <2>1, KnownUnchanged DEF Submit
<1>7. ASSUME NEW h \in Hosts, NEW a \in Artifacts,
             NEW origin \in Conns \cup {NoOrigin}, NotifyReset(h, a, origin)
      PROVE  PresenceAgrees'
  <2>1. \A b \in Artifacts, d \in Conns : view'[b][d].known = view[b][d].known
    BY <1>0, <1>7 DEF NotifyReset, ViewSet
  <2> QED
    BY <1>7, <2>1, KnownUnchanged DEF NotifyReset, hubVars
<1>8. ASSUME NEW h \in Hosts, NotifySend(h) PROVE PresenceAgrees'
  <2>1. \A b \in Artifacts, d \in Conns : view'[b][d].known = view[b][d].known
    BY <1>0, <1>8 DEF NotifySend, ViewSet
  <2> QED
    BY <1>8, <2>1, KnownUnchanged DEF NotifySend
<1>9. ASSUME NEW a \in Artifacts, Forget(a) PROVE PresenceAgrees'
  <2>1. \A b \in Artifacts, d \in Conns : view'[b][d].known = view[b][d].known
    BY <1>0, <1>9 DEF Forget
  <2> QED
    BY <1>9, <2>1, KnownUnchanged DEF Forget
<1>10. CASE UNCHANGED <<peers, view>>
  BY <1>10 DEF PresenceAgrees, Members
<1> QED
  BY <1>1, <1>3, <1>4, <1>5, <1>6, <1>7, <1>8, <1>9, <1>10
     DEF Next, ConnStep, HostStep, NotifySaved, NotifyRead, vars

PresenceInv == IInv /\ PresenceAgrees

(* Through any joins, leaves, disconnects and presence updates, each member
   shows exactly the other members with the selections they published. *)
THEOREM PresenceAlwaysAgrees == Spec => []PresenceAgrees
<1>1. Init => PresenceInv
  BY InitIInv, NoPeersMap DEF Init, PresenceInv, PresenceAgrees, Members
<1>2. PresenceInv /\ [Next]_vars => PresenceInv'
  BY IInvStep, PresenceStep DEF PresenceInv
<1>3. PresenceInv => PresenceAgrees
  BY DEF PresenceInv
<1> QED
  BY <1>1, <1>2, <1>3, PTL DEF Spec

-----------------------------------------------------------------------------
(* The feed of one member: what it was told to start from is a position of
   the log, and what it got since is every operation behind it. *)
Feed(v, history) ==
  /\ v.from <= Len(history)
  /\ v.ops = {n \in (v.from + 1)..Len(history) : IsOp(history[n])}

Feeds == \A a \in Artifacts : \A c \in Members(a) : Feed(view[a][c], slots[a])

FeedInv == IInv /\ Feeds

(* A position appended to the history extends every feed by itself exactly
   when it is an operation. *)
LEMMA FeedExtended ==
  ASSUME NEW v \in ViewSet, NEW history \in Seq(SlotSet), NEW slot,
         Feed(v, history)
  PROVE  LET next == Len(history) + 1
             now  == Append(history, slot)
         IN  /\ v.from <= Len(now)
             /\ {n \in (v.from + 1)..Len(now) : IsOp(now[n])} =
                  IF IsOp(slot) THEN v.ops \cup {next} ELSE v.ops
<1> DEFINE now == Append(history, slot)
<1>1. /\ Len(history) \in Nat
      /\ Len(now) = Len(history) + 1
      /\ \A n \in 1..Len(history) : now[n] = history[n]
      /\ now[Len(history) + 1] = slot
  OBVIOUS
<1>2. v.from \in Nat /\ v.from <= Len(history)
  BY HubAssumption DEF ViewSet, Feed
<1>3. (v.from + 1)..Len(now) =
        ((v.from + 1)..Len(history)) \cup {Len(history) + 1}
  BY <1>1, <1>2
<1>4. v.ops = {n \in (v.from + 1)..Len(history) : IsOp(history[n])}
  BY DEF Feed
<1>5. \A n \in (v.from + 1)..Len(history) : now[n] = history[n]
  BY <1>1, <1>2
<1> HIDE DEF now
<1>6. {n \in (v.from + 1)..Len(now) : IsOp(now[n])} =
        IF IsOp(slot) THEN v.ops \cup {Len(history) + 1} ELSE v.ops
  BY <1>1, <1>3, <1>4, <1>5
<1> QED
  BY <1>1, <1>2, <1>6 DEF now

(* A step that sends nothing and appends nothing leaves the feeds alone. *)
LEMMA FeedUnchanged ==
  ASSUME IInv, Feeds, UNCHANGED <<peers, slots>>,
         \A a \in Artifacts : \A d \in Conns :
           /\ view'[a][d].from = view[a][d].from
           /\ view'[a][d].ops = view[a][d].ops
  PROVE  Feeds'
<1>1. \A a \in Artifacts : DOMAIN peers[a] \in SUBSET Conns
  BY PeerMapDomain DEF IInv, HubTypes
<1> QED
  BY <1>1 DEF Feeds, Feed, Members

(* Every step keeps each member's feed without a hole. *)
LEMMA FeedStep == ASSUME FeedInv, [Next]_vars PROVE Feeds'
<1> USE DEF FeedInv
<1>0. /\ \A a \in Artifacts : DOMAIN peers[a] \in SUBSET Conns
      /\ peers \in [Artifacts -> PeerMaps]
      /\ view \in [Artifacts -> [Conns -> ViewSet]]
      /\ log \in [Artifacts -> LogSet]
      /\ slots \in [Artifacts -> Seq(SlotSet)]
      /\ \A a \in Artifacts : Len(slots[a]) = log[a].seq
      /\ \A a \in Artifacts : log[a].seq \in Nat
  BY PeerMapDomain, HubAssumption
     DEF IInv, HubTypes, ViewTypes, LogsInv, LogInv, Retains, LogSet
<1>1. ASSUME NEW c \in Conns, NEW a \in Artifacts, Join(c, a) PROVE Feeds'
  <2> SUFFICES ASSUME NEW b \in Artifacts, NEW d \in DOMAIN peers'[b]
               PROVE  Feed(view'[b][d], slots'[b])
    BY DEF Feeds, Members
  <2>1. slots' = slots
    BY <1>1 DEF Join
  <2>2. CASE b # a
    <3>1. view'[b] = view[b] /\ peers'[b] = peers[b]
      BY <1>0, <1>1, <2>2 DEF Join
    <3> QED
      BY <2>1, <3>1 DEF Feeds, Members
  <2>3. CASE b = a /\ d = c
    <3>1. view'[b][d].from = Len(slots[b]) /\ view'[b][d].ops = {}
      BY <1>0, <1>1, <2>3 DEF Join
    <3> QED
      BY <1>0, <2>1, <3>1 DEF Feed
  <2>4. CASE b = a /\ d # c
    <3>1. d \in DOMAIN peers[a]
      <4>1. peers'[a] = IF c \in DOMAIN peers[a] THEN peers[a]
                        ELSE With(peers[a], c, NoSelection)
        BY <1>0, <1>1 DEF Join, Members
      <4>2. DOMAIN With(peers[a], c, NoSelection) = DOMAIN peers[a] \cup {c}
        BY DEF With
      <4> QED
        BY <2>4, <4>1, <4>2
    <3>2. /\ view'[a][d].from = view[a][d].from
          /\ view'[a][d].ops = view[a][d].ops
      BY <1>0, <1>1, <2>4, <3>1 DEF Join, ViewSet
    <3> QED
      BY <2>1, <2>4, <3>1, <3>2 DEF Feeds, Feed, Members
  <2> QED
    BY <2>2, <2>3, <2>4
<1>2. ASSUME NEW c \in Conns, NEW gone \in SUBSET Artifacts, RemovePeer(c, gone)
      PROVE  Feeds'
  <2> SUFFICES ASSUME NEW a \in Artifacts, NEW d \in DOMAIN peers'[a]
               PROVE  Feed(view'[a][d], slots'[a])
    BY DEF Feeds, Members
  <2>1. /\ peers'[a] = IF a \in gone THEN Without(peers[a], c) ELSE peers[a]
        /\ slots'[a] = IF a \in EmptiedBy(c, gone) THEN <<>> ELSE slots[a]
    BY <1>2 DEF RemovePeer, DropPeer, ForgetLogs
  <2>2. CASE a \notin gone
    <3>1. /\ view'[a] = view[a] /\ peers'[a] = peers[a]
          /\ slots'[a] = slots[a]
      BY <1>2, <2>1, <2>2 DEF RemovePeer, DropPeer, EmptiedBy
    <3> QED
      BY <3>1 DEF Feeds, Members
  <2>3. CASE a \in gone
    <3>1. d \in DOMAIN peers[a] /\ d # c /\ d \in Conns
      BY <1>0, <2>1, <2>3 DEF Without
    <3>2. slots'[a] = slots[a]
      BY <2>1, <3>1 DEF EmptiedBy, Members
    <3>3. view'[a][d] = [view[a][d] EXCEPT !.known = Without(view[a][d].known, c)]
      BY <1>2, <2>3, <3>1 DEF RemovePeer, DropPeer, Members
    <3>4. /\ view'[a][d].from = view[a][d].from
          /\ view'[a][d].ops = view[a][d].ops
      BY <1>0, <3>1, <3>3 DEF ViewSet
    <3> QED
      BY <3>1, <3>2, <3>4 DEF Feeds, Feed, Members
  <2> QED
    BY <2>2, <2>3
<1>3. ASSUME NEW c \in Conns, NEW a \in Artifacts, Leave(c, a) PROVE Feeds'
  BY <1>2, <1>3 DEF Leave
<1>4. ASSUME NEW c \in Conns, Disconnect(c) PROVE Feeds'
  BY <1>2, <1>4, DisconnectSet DEF Disconnect
<1>5. ASSUME NEW c \in Conns, NEW a \in Artifacts, NEW sel \in Selections,
             Presence(c, a, sel)
      PROVE  Feeds'
  <2>1. \A b \in Artifacts, d \in Conns :
          view'[b][d].from = view[b][d].from /\ view'[b][d].ops = view[b][d].ops
    BY <1>0, <1>5 DEF Presence, ViewSet
  <2>2. peers' = [peers EXCEPT ![a] = With(peers[a], c, sel)]
    BY <1>5 DEF Presence
  <2>3. \A b \in Artifacts : DOMAIN peers'[b] = DOMAIN peers[b]
    BY <1>0, <1>5, <2>2 DEF Presence, With, Members
  <2>4. slots' = slots
    BY <1>5 DEF Presence
  <2>5. ASSUME NEW b \in Artifacts, NEW d \in DOMAIN peers'[b]
        PROVE  Feed(view'[b][d], slots'[b])
    <3>1. Feed(view[b][d], slots[b]) /\ d \in Conns
      BY <1>0, <2>3 DEF Feeds, Members
    <3> QED
      BY <2>1, <2>4, <3>1 DEF Feed
  <2> QED
    BY <2>5 DEF Feeds, Members
<1>6. ASSUME NEW c \in Conns, NEW a \in Artifacts, NEW ops \in Batches,
             NEW baseSeq \in 0..MaxSeq, Submit(c, a, ops, baseSeq)
      PROVE  Feeds'
  <2> DEFINE next == Len(slots[a]) + 1
             slot == Entry(next, c, ops)
  <2>1. log'[a].seq = next
    BY <1>0, <1>6 DEF Submit, AppendOp
  <2>2. slots' = [slots EXCEPT ![a] = Append(slots[a], slot)]
    BY <1>6, <2>1 DEF Submit
  <2>3. IsOp(slot)
    BY HubAssumption DEF IsOp, Entry
  <2>4. peers' = peers
    BY <1>6 DEF Submit
  <2> HIDE DEF next, slot
  <2> SUFFICES ASSUME NEW b \in Artifacts, NEW d \in DOMAIN peers[b]
               PROVE  Feed(view'[b][d], slots'[b])
    BY <2>4 DEF Feeds, Members
  <2>5. Feed(view[b][d], slots[b]) /\ d \in Conns
    BY <1>0 DEF Feeds, Members
  <2>6. CASE b # a
    BY <1>0, <1>6, <2>2, <2>5, <2>6 DEF Submit
  <2>7. CASE b = a
    <3>1. view'[a][d] = [view[a][d] EXCEPT !.ops = view[a][d].ops \cup {next}]
      BY <1>0, <1>6, <2>1, <2>5, <2>7 DEF Submit, Members
    <3>2. /\ view'[a][d].from = view[a][d].from
          /\ view'[a][d].ops = view[a][d].ops \cup {next}
      BY <1>0, <2>5, <3>1 DEF ViewSet
    <3>3. slots'[a] = Append(slots[a], slot)
      BY <1>0, <2>2
    <3>4. view[a][d] \in ViewSet /\ slots[a] \in Seq(SlotSet)
      BY <1>0, <2>5
    <3>5. /\ view[a][d].from <= Len(Append(slots[a], slot))
          /\ {n \in (view[a][d].from + 1)..Len(Append(slots[a], slot)) :
                IsOp(Append(slots[a], slot)[n])} = view[a][d].ops \cup {next}
      BY <2>3, <2>5, <2>7, <3>4, FeedExtended DEF next
    <3> QED
      BY <2>7, <3>2, <3>3, <3>5 DEF Feed
  <2> QED
    BY <2>6, <2>7
<1>7. ASSUME NEW h \in Hosts, NEW a \in Artifacts,
             NEW origin \in Conns \cup {NoOrigin}, NotifyReset(h, a, origin)
      PROVE  Feeds'
  <2> DEFINE slot == Replaced(Len(slots[a]) + 1)
  <2>1. log'[a].seq = Len(slots[a]) + 1
    BY <1>0, <1>7 DEF NotifyReset, Reset
  <2>2. slots' = [slots EXCEPT ![a] = Append(slots[a], slot)]
    BY <1>7, <2>1 DEF NotifyReset
  <2>3. ~IsOp(slot)
    BY DEF IsOp, Replaced
  <2>4. peers' = peers
    BY <1>7 DEF NotifyReset, hubVars
  <2> HIDE DEF slot
  <2> SUFFICES ASSUME NEW b \in Artifacts, NEW d \in DOMAIN peers[b]
               PROVE  Feed(view'[b][d], slots'[b])
    BY <2>4 DEF Feeds, Members
  <2>5. Feed(view[b][d], slots[b]) /\ d \in Conns
    BY <1>0 DEF Feeds, Members
  <2>6. /\ view'[b][d].from = view[b][d].from
        /\ view'[b][d].ops = view[b][d].ops
    BY <1>0, <1>7, <2>5 DEF NotifyReset, ViewSet
  <2>7. CASE b # a
    BY <1>0, <2>2, <2>5, <2>6, <2>7 DEF Feed
  <2>8. CASE b = a
    <3>1. slots'[a] = Append(slots[a], slot)
      BY <1>0, <2>2
    <3>2. view[a][d] \in ViewSet /\ slots[a] \in Seq(SlotSet)
      BY <1>0, <2>5
    <3>3. /\ view[a][d].from <= Len(Append(slots[a], slot))
          /\ {n \in (view[a][d].from + 1)..Len(Append(slots[a], slot)) :
                IsOp(Append(slots[a], slot)[n])} = view[a][d].ops
      BY <2>3, <2>5, <2>8, <3>2, FeedExtended
    <3> QED
      BY <2>6, <2>8, <3>1, <3>3 DEF Feed
  <2> QED
    BY <2>7, <2>8
<1>8. ASSUME NEW h \in Hosts, NotifySend(h) PROVE Feeds'
  <2>1. \A b \in Artifacts, d \in Conns :
          view'[b][d].from = view[b][d].from /\ view'[b][d].ops = view[b][d].ops
    BY <1>0, <1>8 DEF NotifySend, ViewSet
  <2> QED
    BY <1>8, <2>1, FeedUnchanged DEF NotifySend
<1>9. ASSUME NEW a \in Artifacts, Forget(a) PROVE Feeds'
  <2>1. slots' = [slots EXCEPT ![a] = <<>>] /\ peers' = peers
    BY <1>9 DEF Forget
  <2>2. \A d \in Conns : view'[a][d].from = 0 /\ view'[a][d].ops = {}
    BY <1>0, <1>9 DEF Forget
  <2>3. \A b \in Artifacts \ {a} : view'[b] = view[b]
    BY <1>0, <1>9 DEF Forget
  <2> QED
    BY <1>0, <2>1, <2>2, <2>3 DEF Feeds, Feed, Members
<1>10. CASE UNCHANGED <<peers, slots, view>>
  BY <1>10 DEF Feeds, Members
<1> QED
  BY <1>1, <1>3, <1>4, <1>5, <1>6, <1>7, <1>8, <1>9, <1>10
     DEF Next, ConnStep, HostStep, NotifySaved, NotifyRead, vars

(* What was acked or pushed to a member since its join is every operation
   accepted since, whatever joins, leaves, resets and other submits came in
   between. *)
THEOREM FeedAlwaysGapFree == Spec => []FeedGapFree
<1>1. Init => FeedInv
  BY InitIInv, NoPeersMap DEF Init, FeedInv, Feeds, Members
<1>2. FeedInv /\ [Next]_vars => FeedInv'
  BY IInvStep, FeedStep DEF FeedInv
<1>3. FeedInv => FeedGapFree
  BY DEF FeedInv, Feeds, Feed, FeedGapFree
<1> QED
  BY <1>1, <1>2, <1>3, PTL DEF Spec

-----------------------------------------------------------------------------
(* A host thread between its reset of a's log and its fan-out, which will
   reach c. *)
Announcing(h, a, c) ==
  /\ notifying[h].phase # "idle"
  /\ notifying[h].artifact = a
  /\ notifying[h].reset
  /\ notifying[h].origin # c

AnnouncedInv == IInv /\ ReplacementAnnounced

(* No step but its own fan-out ends the announcement of a host thread. *)
LEMMA AnnouncingKept ==
  ASSUME NEW h \in Hosts, NEW a, NEW c, Announcing(h, a, c),
         \/ notifying' = notifying
         \/ \E g \in Hosts :
              /\ notifying[g].phase = "idle"
              /\ \E n : notifying' = [notifying EXCEPT ![g] = n]
         \/ \E g \in Hosts : NotifyRead(g),
         IInv
  PROVE  Announcing(h, a, c)'
<1>0. notifying \in [Hosts -> NotifySet]
  BY DEF IInv, NotifyTypes
<1>1. CASE notifying' = notifying
  BY <1>1 DEF Announcing
<1>2. ASSUME NEW g \in Hosts, notifying[g].phase = "idle", NEW n,
             notifying' = [notifying EXCEPT ![g] = n]
      PROVE  Announcing(h, a, c)'
  <2>1. g # h
    BY <1>2 DEF Announcing
  <2>2. notifying'[h] = notifying[h]
    BY <1>0, <1>2, <2>1
  <2> QED
    BY <2>2 DEF Announcing
<1>3. ASSUME NEW g \in Hosts, NotifyRead(g) PROVE Announcing(h, a, c)'
  <2>1. CASE g # h
    <3>1. notifying'[h] = notifying[h]
      BY <1>0, <1>3, <2>1 DEF NotifyRead
    <3> QED
      BY <3>1 DEF Announcing
  <2>2. CASE g = h
    <3>1. /\ notifying'[h].phase = "send"
          /\ notifying'[h].artifact = notifying[h].artifact
          /\ notifying'[h].reset = notifying[h].reset
          /\ notifying'[h].origin = notifying[h].origin
      BY <1>0, <1>3, <2>2 DEF NotifyRead
    <3> QED
      BY <3>1 DEF Announcing
  <2> QED
    BY <2>1, <2>2
<1> QED
  BY <1>1, <1>2, <1>3

(* A member that is out of date after a step was so before it, in the same
   room, unless the step replaced the bytes. *)
LEMMA OutdatedBefore ==
  ASSUME IInv, NEW c \in Conns, ConnStep(c),
         NEW a \in Artifacts, NEW d \in DOMAIN peers'[a],
         view'[a][d].outdated
  PROVE  d \in DOMAIN peers[a] /\ view[a][d].outdated
<1>a. view \in [Artifacts -> [Conns -> ViewSet]]
  BY DEF IInv, ViewTypes
<1>0. /\ \A b \in Artifacts : DOMAIN peers[b] \in SUBSET Conns
      /\ peers \in [Artifacts -> PeerMaps]
      /\ view \in [Artifacts -> [Conns -> ViewSet]]
      /\ \A b \in Artifacts, e \in Conns : \A k :
           [view[b][e] EXCEPT !.known = k].outdated = view[b][e].outdated
      /\ \A b \in Artifacts, e \in Conns : \A k :
           [view[b][e] EXCEPT !.ops = k].outdated = view[b][e].outdated
  BY PeerMapDomain DEF IInv, HubTypes, ViewTypes, ViewSet
<1>1. ASSUME NEW b \in Artifacts, Join(c, b)
      PROVE  d \in DOMAIN peers[a] /\ view[a][d].outdated
  <2>1. CASE b # a
    <3>1. view'[a] = view[a] /\ peers'[a] = peers[a]
      BY <1>0, <1>1, <2>1 DEF Join
    <3> QED
      BY <3>1
  <2>2. CASE b = a
    <3>1. d # c
      BY <1>0, <1>1, <2>2 DEF Join
    <3>2. peers'[a] = IF c \in DOMAIN peers[a] THEN peers[a]
                      ELSE With(peers[a], c, NoSelection)
      BY <1>0, <1>1, <2>2 DEF Join, Members
    <3>3. DOMAIN With(peers[a], c, NoSelection) = DOMAIN peers[a] \cup {c}
      BY DEF With
    <3>4. d \in DOMAIN peers[a] /\ d \in Conns
      BY <1>0, <3>1, <3>2, <3>3
    <3>5. view'[a][d] = IF c \notin DOMAIN peers[a]
                        THEN [view[a][d] EXCEPT !.known =
                                With(view[a][d].known, c, NoSelection)]
                        ELSE view[a][d]
      BY <1>0, <1>1, <2>2, <3>1, <3>4 DEF Join, Members
    <3> QED
      BY <1>0, <3>4, <3>5
  <2> QED
    BY <2>1, <2>2
<1>2. ASSUME NEW gone \in SUBSET Artifacts, RemovePeer(c, gone)
      PROVE  d \in DOMAIN peers[a] /\ view[a][d].outdated
  <2>1. peers'[a] = IF a \in gone THEN Without(peers[a], c) ELSE peers[a]
    BY <1>2 DEF RemovePeer, DropPeer
  <2>2. CASE a \notin gone
    <3>1. view'[a] = view[a]
      BY <1>2, <2>2 DEF RemovePeer, DropPeer
    <3> QED
      BY <2>1, <2>2, <3>1
  <2>3. CASE a \in gone
    <3>1. d \in DOMAIN peers[a] /\ d # c /\ d \in Conns
      BY <1>0, <2>1, <2>3 DEF Without
    <3>2. view'[a][d] = [view[a][d] EXCEPT !.known = Without(view[a][d].known, c)]
      BY <1>2, <2>3, <3>1 DEF RemovePeer, DropPeer, Members
    <3> QED
      BY <1>0, <3>1, <3>2
  <2> QED
    BY <2>2, <2>3
<1>3. ASSUME NEW b \in Artifacts, NEW sel \in Selections, Presence(c, b, sel)
      PROVE  d \in DOMAIN peers[a] /\ view[a][d].outdated
  <2>1. peers' = [peers EXCEPT ![b] = With(peers[b], c, sel)]
    BY <1>3 DEF Presence
  <2>2. d \in DOMAIN peers[a] /\ d \in Conns
    BY <1>0, <1>3, <2>1 DEF Presence, With, Members
  <2>3. view'[a][d].outdated = view[a][d].outdated
    <3>1. \A e \in Conns : view'[a][e].outdated = view[a][e].outdated
      <4>1. CASE a = b
        BY <1>a, <1>3, <4>1 DEF Presence, ViewSet
      <4>2. CASE a # b
        BY <1>a, <1>3, <4>2 DEF Presence
      <4> QED
        BY <4>1, <4>2
    <3> QED
      BY <3>1, <2>2
  <2> QED
    BY <2>2, <2>3
<1>4. ASSUME NEW b \in Artifacts, NEW ops \in Batches,
             NEW baseSeq \in 0..MaxSeq, Submit(c, b, ops, baseSeq)
      PROVE  d \in DOMAIN peers[a] /\ view[a][d].outdated
  <2>1. d \in DOMAIN peers[a] /\ d \in Conns
    BY <1>0, <1>4 DEF Submit
  <2>2. view'[a][d].outdated = view[a][d].outdated
    <3>1. \A e \in Conns : view'[a][e].outdated = view[a][e].outdated
      <4>1. CASE a = b
        BY <1>a, <1>4, <4>1 DEF Submit, ViewSet
      <4>2. CASE a # b
        BY <1>a, <1>4, <4>2 DEF Submit
      <4> QED
        BY <4>1, <4>2
    <3> QED
      BY <3>1, <2>1
  <2> QED
    BY <2>1, <2>2
<1>5. ASSUME NEW b \in Artifacts, Leave(c, b)
      PROVE  d \in DOMAIN peers[a] /\ view[a][d].outdated
  BY <1>2, <1>5 DEF Leave
<1>6. CASE Disconnect(c)
  BY <1>2, <1>6, DisconnectSet DEF Disconnect
<1> QED
  BY <1>1, <1>3, <1>4, <1>5, <1>6 DEF ConnStep

(* Every step keeps a replacement announced or about to be. *)
LEMMA AnnouncedStep ==
  ASSUME AnnouncedInv, [Next]_vars PROVE ReplacementAnnounced'
<1> USE DEF AnnouncedInv
<1>0. /\ \A a \in Artifacts : DOMAIN peers[a] \in SUBSET Conns
      /\ view \in [Artifacts -> [Conns -> ViewSet]]
      /\ notifying \in [Hosts -> NotifySet]
      /\ \A a \in Artifacts : DOMAIN peers[a] # {} => a \in rooms
      /\ \A a \in Artifacts : \A c \in DOMAIN peers[a] :
           view[a][c].outdated => \E h \in Hosts : Announcing(h, a, c)
  BY PeerMapDomain
     DEF IInv, HubTypes, ViewTypes, NotifyTypes, IndexesAgree, Members,
         ReplacementAnnounced, Announcing
<1> SUFFICES ASSUME NEW a \in Artifacts, NEW c \in DOMAIN peers'[a],
                    view'[a][c].outdated
             PROVE  \E h \in Hosts : Announcing(h, a, c)'
  BY DEF ReplacementAnnounced, Members, Announcing
<1>1. ASSUME NEW d \in Conns, ConnStep(d)
      PROVE  \E h \in Hosts : Announcing(h, a, c)'
  <2>1. c \in DOMAIN peers[a] /\ view[a][c].outdated
    BY <1>1, OutdatedBefore
  <2>2. PICK h \in Hosts : Announcing(h, a, c)
    BY <1>0, <2>1
  <2>3. notifying' = notifying
    BY <1>1 DEF ConnStep, Join, Leave, Presence, Submit, Disconnect,
                RemovePeer, DropPeer
  <2> QED
    BY <2>2, <2>3, AnnouncingKept
<1>2. ASSUME NEW h \in Hosts, NEW b \in Artifacts,
             NEW origin \in Conns \cup {NoOrigin}, NotifyReset(h, b, origin)
      PROVE  \E g \in Hosts : Announcing(g, a, c)'
  <2>1. c \in DOMAIN peers[a] /\ c \in Conns
    BY <1>0, <1>2 DEF NotifyReset, hubVars
  <2>2. CASE b = a /\ c # origin
    <3>1. /\ notifying'[h].phase # "idle" /\ notifying'[h].artifact = a
          /\ notifying'[h].reset /\ notifying'[h].origin # c
      BY <1>0, <1>2, <2>2 DEF NotifyReset
    <3> QED
      BY <3>1 DEF Announcing
  <2>3. CASE ~(b = a /\ c # origin)
    <3>1. view'[a][c] = view[a][c]
      BY <1>0, <1>2, <2>1, <2>3 DEF NotifyReset
    <3>2. PICK g \in Hosts : Announcing(g, a, c)
      BY <1>0, <2>1, <3>1
    <3> QED
      BY <1>2, <3>2, AnnouncingKept DEF NotifyReset
  <2> QED
    BY <2>2, <2>3
<1>3. ASSUME NEW h \in Hosts, NotifySend(h)
      PROVE  \E g \in Hosts : Announcing(g, a, c)'
  <2> DEFINE n == notifying[h]
  <2>1. c \in DOMAIN peers[a] /\ c \in Conns /\ a \in rooms
    BY <1>0, <1>3 DEF NotifySend
  <2>2. view[a][c].outdated /\ ~Announcing(h, a, c)
    <3>1. CASE n.artifact # a
      BY <1>0, <1>3, <2>1, <3>1 DEF NotifySend, Announcing
    <3>2. CASE n.artifact = a
      <4>1. view'[a][c] =
              IF c \in DOMAIN peers[a] \ {n.origin} /\ n.reset
              THEN [view[a][c] EXCEPT !.outdated = FALSE]
              ELSE view[a][c]
        BY <1>0, <1>3, <2>1, <3>2 DEF NotifySend, Members
      <4>2. [view[a][c] EXCEPT !.outdated = FALSE].outdated = FALSE
        BY <1>0, <2>1 DEF ViewSet
      <4>3. ~(c \in DOMAIN peers[a] \ {n.origin} /\ n.reset)
        BY <4>1, <4>2
      <4> QED
        BY <2>1, <4>1, <4>3 DEF Announcing
    <3> QED
      BY <3>1, <3>2
  <2>3. PICK g \in Hosts : Announcing(g, a, c)
    BY <1>0, <2>1, <2>2
  <2>4. notifying'[g] = notifying[g]
    BY <1>0, <1>3, <2>2, <2>3 DEF NotifySend
  <2> QED
    BY <2>3, <2>4 DEF Announcing
<1>4. CASE \/ UNCHANGED vars
           \/ \E h \in Hosts : \E b \in Artifacts,
                origin \in Conns \cup {NoOrigin}, seq \in 0..(MaxSeq + 1) :
                NotifySaved(h, b, origin, seq)
           \/ \E h \in Hosts : NotifyRead(h)
           \/ \E b \in Artifacts : Forget(b)
  <2>1. /\ peers' = peers
        /\ \A b \in Artifacts, d \in Conns :
             view'[b][d].outdated = view[b][d].outdated
    BY <1>0, <1>4 DEF vars, NotifySaved, NotifyRead, Forget
  <2>2. c \in DOMAIN peers[a] /\ view[a][c].outdated
    BY <1>0, <2>1
  <2>3. PICK h \in Hosts : Announcing(h, a, c)
    BY <1>0, <2>2
  <2> QED
    BY <1>4, <2>3, AnnouncingKept DEF vars, NotifySaved, Forget
<1> QED
  BY <1>1, <1>2, <1>3, <1>4 DEF Next, HostStep

(* A member whose bytes were replaced under it always has a host thread on
   its way to tell it: no join, leave, save or second writer loses the
   announcement between the reset of the log and the fan-out. *)
THEOREM ReplacementAlwaysAnnounced == Spec => []ReplacementAnnounced
<1>1. Init => AnnouncedInv
  BY InitIInv, NoPeersMap
     DEF Init, AnnouncedInv, ReplacementAnnounced, Members
<1>2. AnnouncedInv /\ [Next]_vars => AnnouncedInv'
  BY IInvStep, AnnouncedStep DEF AnnouncedInv
<1>3. AnnouncedInv => ReplacementAnnounced
  BY DEF AnnouncedInv
<1> QED
  BY <1>1, <1>2, <1>3, PTL DEF Spec
=============================================================================
