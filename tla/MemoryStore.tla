---------------------------- MODULE MemoryStore ----------------------------
(***************************************************************************)
(* The in-process operation log of one artifact (go/collab/memory.go): a   *)
(* record [entries, seq, savedSeq] and one operator per method of OpStore. *)
(* Every method takes the store's mutex for its whole body, so each one is *)
(* a single step of the modules that use it.                               *)
(*                                                                         *)
(* A log that is missing from the store's map behaves exactly like the     *)
(* empty one: Append and Reset create an empty log first, Since and        *)
(* LogState read 0 and no entries, and MarkSaved on an empty log clamps to *)
(* 0 and changes nothing.  Forget is therefore the assignment of EmptyLog. *)
(***************************************************************************)
EXTENDS Integers, Sequences

CONSTANTS
  MaxOpsPerRoom    \* how many entries a log retains (types.go: 5000)

ASSUME RetentionAssumption == MaxOpsPerRoom \in Nat \ {0}

EmptyLog == [entries |-> <<>>, seq |-> 0, savedSeq |-> 0]

Entry(seq, client, ops) == [seq |-> seq, client |-> client, ops |-> ops]

(***************************************************************************)
(* The entries behind position s: the loop of MarkSaved walks the prefix   *)
(* of entries numbered at most s.  The filter of Since returns the same    *)
(* sequence because entries are in increasing order of seq.                *)
(***************************************************************************)
PrefixEnd(entries, s) ==
  CHOOSE i \in 0..Len(entries) :
    /\ \A j \in 1..i : entries[j].seq <= s
    /\ i < Len(entries) => entries[i + 1].seq > s

After(entries, s) == SubSeq(entries, PrefixEnd(entries, s) + 1, Len(entries))

(* Fault: one entry more than the retention limit survives. *)
TrimLate(entries) ==
  IF Len(entries) > MaxOpsPerRoom + 1
  THEN SubSeq(entries, Len(entries) - MaxOpsPerRoom, Len(entries))
  ELSE entries

(* Keep the newest MaxOpsPerRoom entries. *)
Trim(entries) ==
  IF Len(entries) > MaxOpsPerRoom
  THEN SubSeq(entries, Len(entries) - MaxOpsPerRoom + 1, Len(entries))
  ELSE entries

(* Fault: any base that is not ahead of the log passes. *)
FreshUnlessAhead(l, baseSeq) == baseSeq <= l.seq

(* The compare of Append's compare-and-append. *)
Fresh(l, baseSeq) == baseSeq = l.seq

(* Fault: the entry is stored under the old head. *)
AppendUnderOldHead(l, client, ops) ==
  [entries  |-> Trim(Append(l.entries, Entry(l.seq, client, ops))),
   seq      |-> l.seq + 1,
   savedSeq |-> l.savedSeq]

AppendOp(l, client, ops) ==
  [entries  |-> Trim(Append(l.entries, Entry(l.seq + 1, client, ops))),
   seq      |-> l.seq + 1,
   savedSeq |-> l.savedSeq]

(* Fault: only the entries are consulted, never the saved position. *)
ReplayableUnlessTrimmed(l, since) ==
  \/ since = l.seq
  \/ /\ since < l.seq
     /\ l.entries # <<>> => l.entries[1].seq <= since + 1

(* Fault: the oldest entry must already be known. *)
ReplayableWithOverlap(l, since) ==
  \/ since = l.seq
  \/ /\ since < l.seq
     /\ since >= l.savedSeq
     /\ l.entries # <<>> => l.entries[1].seq <= since

(* Can the log take a client that is at position since up to its head? *)
Replayable(l, since) ==
  \/ since = l.seq
  \/ /\ since < l.seq
     /\ since >= l.savedSeq
     /\ l.entries # <<>> => l.entries[1].seq <= since + 1

Since(l, sinceSeq) ==
  LET since == IF sinceSeq < 0 THEN 0 ELSE sinceSeq
  IN  IF Replayable(l, since)
      THEN [ops   |-> IF since = l.seq THEN <<>> ELSE After(l.entries, since),
            head  |-> l.seq,
            reset |-> FALSE]
      ELSE [ops |-> <<>>, head |-> l.seq, reset |-> TRUE]

(* Fault: a save past the head is recorded as it came. *)
MarkSavedUnclamped(l, seq) ==
  IF seq <= l.savedSeq
  THEN l
  ELSE [entries |-> After(l.entries, seq), seq |-> l.seq, savedSeq |-> seq]

MarkSaved(l, seq) ==
  IF seq <= l.savedSeq
  THEN l
  ELSE LET saved == IF seq > l.seq THEN l.seq ELSE seq
       IN  [entries |-> After(l.entries, saved), seq |-> l.seq, savedSeq |-> saved]

Reset(l) == [entries |-> <<>>, seq |-> l.seq + 1, savedSeq |-> l.seq + 1]
=============================================================================
