----------------------------- MODULE CollabHub -----------------------------
(***************************************************************************)
(* The room hub of go/collab (hub.go, oplog.go) over its in-memory store.  *)
(*                                                                         *)
(* A connection is one Conn: a live channel with a server-assigned client  *)
(* id.  A method that holds the hub or the room mutex for its whole body   *)
(* is one action.  NotifyFileChanged holds neither between its store call, *)
(* its read of the log position and its fan-out, so it is three actions of *)
(* a host thread.  A call that returns an error changes nothing and is not *)
(* an action.  Hub.Since changes nothing: what it may answer is the        *)
(* operator Since of MemoryStore, at any moment.                           *)
(*                                                                         *)
(* slots and view are history variables.  slots[a] is everything the       *)
(* current log of a ever accepted; view[a][c] is what the hub has told     *)
(* connection c through its join result, its Sender and its acks.          *)
(***************************************************************************)
EXTENDS MemoryStore, FiniteSets

CONSTANTS
  Artifacts,        \* artifact ids; one room and one log each
  Conns,            \* live connections
  Hosts,            \* host threads that report a write of the bytes
  Batches,          \* opaque operation batches
  Selections,       \* opaque selections a client can publish
  NoSelection,      \* a peer that has published none
  NoOrigin,         \* a file change with no originating connection
  MaxRoomMembers,   \* connections per room (types.go: 64)
  MaxSeq            \* bound: positions per log

ASSUME HubAssumption ==
  /\ Artifacts # {}
  /\ MaxRoomMembers \in Nat \ {0}
  /\ MaxSeq \in Nat
  /\ NoSelection \notin Selections
  /\ NoOrigin \notin Conns

VARIABLES
  rooms,       \* Hub.rooms: the index of rooms
  peers,       \* room.peers: client id -> selection, per room
  byClient,    \* Hub.byClient: the rooms of a client id
  log,         \* MemoryStore.rooms
  notifying,   \* progress of each host thread inside NotifyFileChanged
  slots,       \* history: every position of the current log
  view         \* history: what each connection has been told

hubVars == <<rooms, peers, byClient>>
vars == <<rooms, peers, byClient, log, notifying, slots, view>>

-----------------------------------------------------------------------------

Members(a) == DOMAIN peers[a]

(* A slot is an entry or the mark left by ResetLog. *)
Replaced(seq) == [seq |-> seq, client |-> NoOrigin, ops |-> NoOrigin]

IsOp(slot) == slot.client # NoOrigin

NoPeers == [c \in {} |-> NoSelection]

(* known: the peers it shows, with their selections; from: the log position
   of its join result; ops: the positions acked to it or pushed to it since;
   outdated: the bytes it opened were replaced and it has not been told. *)
NoView == [known |-> NoPeers, from |-> 0, ops |-> {}, outdated |-> FALSE]

Idle == [phase |-> "idle", artifact |-> CHOOSE a \in Artifacts : TRUE,
         reset |-> FALSE, origin |-> NoOrigin, savedSeq |-> 0]

Without(f, c) == [d \in DOMAIN f \ {c} |-> f[d]]
With(f, c, v) == [d \in DOMAIN f \cup {c} |-> IF d = c THEN v ELSE f[d]]

-----------------------------------------------------------------------------

Init ==
  /\ rooms = {}
  /\ peers = [a \in Artifacts |-> NoPeers]
  /\ byClient = [c \in Conns |-> {}]
  /\ log = [a \in Artifacts |-> EmptyLog]
  /\ notifying = [h \in Hosts |-> Idle]
  /\ slots = [a \in Artifacts |-> <<>>]
  /\ view = [a \in Artifacts |-> [c \in Conns |-> NoView]]

(* Fault: a repeated join replaces the peer and its selection is lost. *)
JoinClearsSelection(c, a) ==
  /\ c \in Members(a) \/ Cardinality(Members(a)) < MaxRoomMembers
  /\ rooms' = rooms \cup {a}
  /\ peers' = [peers EXCEPT ![a] = With(@, c, NoSelection)]
  /\ byClient' = [byClient EXCEPT ![c] = @ \cup {a}]
  /\ view' = [view EXCEPT ![a] = [d \in Conns |->
       IF d = c
       THEN [known |-> Without(peers[a], c), from |-> log[a].seq,
             ops |-> {}, outdated |-> FALSE]
       ELSE IF d \in Members(a) /\ c \notin Members(a)
       THEN [view[a][d] EXCEPT !.known = With(@, c, NoSelection)]
       ELSE view[a][d]]]
  /\ UNCHANGED <<log, notifying, slots>>

(* A fresh connection is announced to the others; a repeated join keeps the
   selection and announces nothing.  The result carries the other peers and
   the position of the log. *)
Join(c, a) ==
  /\ c \in Members(a) \/ Cardinality(Members(a)) < MaxRoomMembers
  /\ rooms' = rooms \cup {a}
  /\ peers' = [peers EXCEPT ![a] =
                 IF c \in Members(a) THEN @ ELSE With(@, c, NoSelection)]
  /\ byClient' = [byClient EXCEPT ![c] = @ \cup {a}]
  /\ view' = [view EXCEPT ![a] = [d \in Conns |->
       IF d = c
       THEN [known |-> Without(peers[a], c), from |-> log[a].seq,
             ops |-> {}, outdated |-> FALSE]
       ELSE IF d \in Members(a) /\ c \notin Members(a)
       THEN [view[a][d] EXCEPT !.known = With(@, c, NoSelection)]
       ELSE view[a][d]]]
  /\ UNCHANGED <<log, notifying, slots>>

(* The part of removePeer that touches the hub, then the fan-out. *)
DropPeer(c, gone, emptied) ==
  /\ peers' = [a \in Artifacts |->
                 IF a \in gone THEN Without(peers[a], c) ELSE peers[a]]
  /\ byClient' = [byClient EXCEPT ![c] = @ \ gone]
  /\ rooms' = rooms \ emptied
  /\ view' = [a \in Artifacts |->
       IF a \notin gone THEN view[a]
       ELSE [d \in Conns |->
               IF d = c THEN NoView
               ELSE IF d \in Members(a)
               THEN [view[a][d] EXCEPT !.known = Without(@, c)]
               ELSE view[a][d]]]
  /\ UNCHANGED notifying

ForgetLogs(emptied) ==
  /\ log' = [a \in Artifacts |-> IF a \in emptied THEN EmptyLog ELSE log[a]]
  /\ slots' = [a \in Artifacts |-> IF a \in emptied THEN <<>> ELSE slots[a]]

EmptiedBy(c, gone) == {a \in gone : Members(a) = {c}}

(* Fault: the log is forgotten whoever leaves. *)
RemovePeerAlwaysForgets(c, gone) ==
  /\ DropPeer(c, gone, EmptiedBy(c, gone))
  /\ ForgetLogs(gone)

(* Fault: an emptied room stays in the index. *)
RemovePeerKeepsRoom(c, gone) ==
  /\ DropPeer(c, gone, {})
  /\ ForgetLogs(EmptiedBy(c, gone))

(* The last peer out drops the room and, under the hub mutex, its log. *)
RemovePeer(c, gone) ==
  /\ DropPeer(c, gone, EmptiedBy(c, gone))
  /\ ForgetLogs(EmptiedBy(c, gone))

Leave(c, a) ==
  /\ a \in rooms
  /\ c \in Members(a)
  /\ RemovePeer(c, {a})

(* LeaveAll walks the rooms byClient lists, skipping those not in the index
   or without the client. *)
Disconnect(c) ==
  /\ byClient[c] # {}
  /\ RemovePeer(c, {a \in byClient[c] : a \in rooms /\ c \in Members(a)})

Presence(c, a, sel) ==
  /\ a \in rooms
  /\ c \in Members(a)
  /\ peers' = [peers EXCEPT ![a] = With(@, c, sel)]
  /\ view' = [view EXCEPT ![a] = [d \in Conns |->
       IF d \in Members(a) \ {c}
       THEN [view[a][d] EXCEPT !.known = With(@, c, sel)]
       ELSE view[a][d]]]
  /\ UNCHANGED <<rooms, byClient, log, notifying, slots>>

(* Append and the push to the others happen under the room mutex; the new
   position is returned to the submitter. *)
Submit(c, a, ops, baseSeq) ==
  /\ log[a].seq < MaxSeq
  /\ a \in rooms
  /\ c \in Members(a)
  /\ Fresh(log[a], baseSeq)
  /\ log' = [log EXCEPT ![a] = AppendOp(@, c, ops)]
  /\ slots' = [slots EXCEPT ![a] = Append(@, Entry(log'[a].seq, c, ops))]
  /\ view' = [view EXCEPT ![a] = [d \in Conns |->
       IF d \in Members(a)
       THEN [view[a][d] EXCEPT !.ops = @ \cup {log'[a].seq}]
       ELSE view[a][d]]]
  /\ UNCHANGED <<rooms, peers, byClient, notifying>>

(* NotifyFileChanged, first step: ResetLog, MarkSaved, or neither for a plain
   FileChanged.  The log is updated whether or not anyone is in the room. *)
NotifyReset(h, a, origin) ==
  /\ notifying[h].phase = "idle"
  /\ log[a].seq < MaxSeq
  /\ log' = [log EXCEPT ![a] = Reset(@)]
  /\ slots' = [slots EXCEPT ![a] = Append(@, Replaced(log'[a].seq))]
  /\ view' = [view EXCEPT ![a] = [d \in Conns |->
       IF d \in Members(a) \ {origin}
       THEN [view[a][d] EXCEPT !.outdated = TRUE]
       ELSE view[a][d]]]
  /\ notifying' = [notifying EXCEPT ![h] =
       [phase |-> "read", artifact |-> a, reset |-> TRUE,
        origin |-> origin, savedSeq |-> 0]]
  /\ UNCHANGED hubVars

NotifySaved(h, a, origin, seq) ==
  /\ notifying[h].phase = "idle"
  /\ log' = [log EXCEPT ![a] = IF seq > 0 THEN MarkSaved(@, seq) ELSE @]
  /\ notifying' = [notifying EXCEPT ![h] =
       [phase |-> "read", artifact |-> a, reset |-> FALSE,
        origin |-> origin, savedSeq |-> 0]]
  /\ UNCHANGED <<rooms, peers, byClient, slots, view>>

(* FileChanged reads the log position without the room mutex ... *)
NotifyRead(h) ==
  LET n == notifying[h]
  IN  /\ n.phase = "read"
      /\ notifying' = [notifying EXCEPT ![h] =
           [phase |-> "send", artifact |-> n.artifact, reset |-> n.reset,
            origin |-> n.origin, savedSeq |-> log[n.artifact].savedSeq]]
      /\ UNCHANGED <<rooms, peers, byClient, log, slots, view>>

(* Fault: a change is announced only when it left a saved position. *)
NotifySendIfSaved(h) ==
  LET n == notifying[h]
      told == IF n.artifact \in rooms /\ n.savedSeq > 0
              THEN Members(n.artifact) \ {n.origin} ELSE {}
  IN  /\ n.phase = "send"
      /\ view' = [view EXCEPT ![n.artifact] = [d \in Conns |->
           IF d \in told /\ n.reset
           THEN [view[n.artifact][d] EXCEPT !.outdated = FALSE]
           ELSE view[n.artifact][d]]]
      /\ notifying' = [notifying EXCEPT ![h] = Idle]
      /\ UNCHANGED <<rooms, peers, byClient, log, slots>>

(* ... and then tells everyone in the room but the origin. *)
NotifySend(h) ==
  LET n == notifying[h]
      told == IF n.artifact \in rooms
              THEN Members(n.artifact) \ {n.origin} ELSE {}
  IN  /\ n.phase = "send"
      /\ view' = [view EXCEPT ![n.artifact] = [d \in Conns |->
           IF d \in told /\ n.reset
           THEN [view[n.artifact][d] EXCEPT !.outdated = FALSE]
           ELSE view[n.artifact][d]]]
      /\ notifying' = [notifying EXCEPT ![h] = Idle]
      /\ UNCHANGED <<rooms, peers, byClient, log, slots>>

(* Hub.Forget, called by a host for its own retention policy. *)
Forget(a) ==
  /\ log' = [log EXCEPT ![a] = EmptyLog]
  /\ slots' = [slots EXCEPT ![a] = <<>>]
  /\ view' = [view EXCEPT ![a] = [d \in Conns |->
       [known |-> view[a][d].known, from |-> 0, ops |-> {},
        outdated |-> view[a][d].outdated]]]
  /\ UNCHANGED <<rooms, peers, byClient, notifying>>

ConnStep(c) ==
  \/ \E a \in Artifacts :
       \/ Join(c, a)
       \/ Leave(c, a)
       \/ \E sel \in Selections : Presence(c, a, sel)
       \/ \E ops \in Batches, baseSeq \in 0..MaxSeq : Submit(c, a, ops, baseSeq)
  \/ Disconnect(c)

HostStep(h) ==
  \/ \E a \in Artifacts, origin \in Conns \cup {NoOrigin} :
       \/ NotifyReset(h, a, origin)
       \/ \E seq \in 0..(MaxSeq + 1) : NotifySaved(h, a, origin, seq)
  \/ NotifyRead(h)
  \/ NotifySend(h)

Next ==
  \/ \E c \in Conns : ConnStep(c)
  \/ \E h \in Hosts : HostStep(h)
  \/ \E a \in Artifacts : Forget(a)

Spec == Init /\ [][Next]_vars

-----------------------------------------------------------------------------
(***************************************************************************)
(* Types.                                                                  *)
(***************************************************************************)
EntrySet == [seq : 1..MaxSeq, client : Conns, ops : Batches]
SlotSet == EntrySet \cup {Replaced(n) : n \in 1..MaxSeq}
PeerMaps == UNION {[S -> Selections \cup {NoSelection}] : S \in SUBSET Conns}
LogSet == [entries : Seq(EntrySet), seq : 0..MaxSeq, savedSeq : 0..MaxSeq]
ViewSet == [known : PeerMaps, from : 0..MaxSeq, ops : SUBSET (1..MaxSeq),
            outdated : BOOLEAN]
NotifySet == [phase : {"idle", "read", "send"}, artifact : Artifacts,
              reset : BOOLEAN, origin : Conns \cup {NoOrigin},
              savedSeq : 0..MaxSeq]

TypeOK ==
  /\ rooms \in SUBSET Artifacts
  /\ peers \in [Artifacts -> PeerMaps]
  /\ byClient \in [Conns -> SUBSET Artifacts]
  /\ log \in [Artifacts -> LogSet]
  /\ notifying \in [Hosts -> NotifySet]
  /\ slots \in [Artifacts -> Seq(SlotSet)]
  /\ view \in [Artifacts -> [Conns -> ViewSet]]

(***************************************************************************)
(* The two indexes and the rooms agree: a room is listed exactly while     *)
(* somebody is in it, and LeaveAll finds through byClient every room its   *)
(* client is in.  Otherwise a disconnect would leave a peer behind.        *)
(***************************************************************************)
IndexesAgree ==
  /\ rooms = {a \in Artifacts : Members(a) # {}}
  /\ \A c \in Conns : byClient[c] = {a \in Artifacts : c \in Members(a)}

(***************************************************************************)
(* The retained entries are exactly the newest positions of the history    *)
(* that are neither saved nor trimmed away: neither retention rule drops   *)
(* an entry too many or keeps one too few, in any order of saves, resets   *)
(* and appends.                                                            *)
(***************************************************************************)
Retains(l, history) ==
  LET unsaved == l.seq - l.savedSeq
      n == Len(l.entries)
  IN  /\ Len(history) = l.seq
      /\ l.savedSeq <= l.seq
      /\ n = IF unsaved > MaxOpsPerRoom THEN MaxOpsPerRoom ELSE unsaved
      /\ \A i \in 1..n : l.entries[i] = history[l.seq - n + i]

RetentionExact == \A a \in Artifacts : Retains(log[a], slots[a])

(***************************************************************************)
(* Hub.Since never shows a gap: an answer that is not a reset carries      *)
(* every position after the asked one, in order, each with the entry that  *)
(* was accepted there and none of them a replacement of the bytes.         *)
(***************************************************************************)
ReplayExact ==
  \A a \in Artifacts : \A since \in 0..MaxSeq :
    LET answer == Since(log[a], since)
    IN  ~answer.reset =>
          /\ answer.ops = SubSeq(slots[a], since + 1, Len(slots[a]))
          /\ \A i \in 1..Len(answer.ops) :
               /\ IsOp(answer.ops[i])
               /\ answer.ops[i].seq = since + i

(***************************************************************************)
(* Hub.Since never resets a client it could have served: from any position *)
(* that is at or after the saved one and whose successors are retained,    *)
(* the answer is a replay.                                                 *)
(***************************************************************************)
ReplayComplete ==
  \A a \in Artifacts : \A since \in log[a].savedSeq..log[a].seq :
    log[a].seq - since <= MaxOpsPerRoom => ~Since(log[a], since).reset

(***************************************************************************)
(* A member's feed has no hole: the positions acked or pushed to it since  *)
(* its join are all the operations accepted after the position in its join *)
(* result.  Join adds the member and reads the position under one lock; a  *)
(* submit between the two would be lost to it.                             *)
(***************************************************************************)
FeedGapFree ==
  \A a \in Artifacts : \A c \in Members(a) :
    view[a][c].ops = {n \in (view[a][c].from + 1)..Len(slots[a]) :
                        IsOp(slots[a][n])}

(***************************************************************************)
(* What a member shows of the others (join result, then peer.joined,       *)
(* peer.left and presence events) is who is there and what they selected.  *)
(***************************************************************************)
PresenceAgrees ==
  \A a \in Artifacts : \A c \in Members(a) :
    view[a][c].known = Without(peers[a], c)

(***************************************************************************)
(* The log of a room nobody is in retains no entries: a long-lived process *)
(* does not keep the operations of every artifact ever opened, even when a *)
(* host thread updates the log of an empty room.                           *)
(***************************************************************************)
EmptyRoomRetainsNothing ==
  \A a \in Artifacts \ rooms : log[a].entries = <<>>

(***************************************************************************)
(* A member whose bytes were replaced under it is told, or a host thread   *)
(* is still on its way to tell it, however joins, leaves and other writers *)
(* interleave with the three steps of NotifyFileChanged.                   *)
(***************************************************************************)
ReplacementAnnounced ==
  \A a \in Artifacts : \A c \in Members(a) :
    view[a][c].outdated =>
      \E h \in Hosts : /\ notifying[h].phase # "idle"
                       /\ notifying[h].artifact = a
                       /\ notifying[h].reset
                       /\ notifying[h].origin # c

(***************************************************************************)
(* The store is a linear log: each artifact's log implements LinearLog     *)
(* with the retained entries as the readable positions, so a position is   *)
(* given out once, in order, and what is read back there never changes.    *)
(***************************************************************************)
FloorOf(l) == l.seq - Len(l.entries)

Ledger(a) == INSTANCE LinearLog WITH
  Clients <- Conns,
  head    <- log[a].seq,
  floor   <- FloorOf(log[a]),
  kept    <- [n \in (FloorOf(log[a]) + 1)..log[a].seq |->
                log[a].entries[n - FloorOf(log[a])]]

LedgerStep(a) == Ledger(a)!Next \/ UNCHANGED Ledger(a)!ledger

LogsAreLinear ==
  /\ \A a \in Artifacts : Ledger(a)!Init
  /\ [][\A a \in Artifacts : LedgerStep(a)]_vars
=============================================================================
