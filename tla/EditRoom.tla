------------------------------ MODULE EditRoom ------------------------------
(***************************************************************************)
(* What one document or deck engine meets: the room's log, the calls and   *)
(* events between them and the other editors.  The hub itself is modelled  *)
(* in CollabHub; here it is external, seen from the calls that             *)
(* packages/collab/src/docSync.ts, docManager.ts, deckSync.ts and          *)
(* deckManager.ts make.                                                    *)
(*                                                                         *)
(* An event and an answer travel apart and may overtake each other, calls  *)
(* outlive the connection they were made on, and an entry is sent to       *)
(* everybody in the room but the connection that submitted it.             *)
(***************************************************************************)
EXTENDS SequencesExt, Integers

VARIABLES
  log,      \* the entries: under which connection, what it does
  floor,    \* entries up to here can no longer be asked for
  wire,     \* submissions that may still reach the server
  feed,     \* events on their way: positions of entries, 0 for a new file
  link,     \* whether the tab is in the room
  ident,    \* the tab's connection, counted; 0 is another editor
  budget,   \* what is left of the bounds on what happens
  mishaps   \* history: which situations the engines do not cope with arose

room == <<log, floor, wire, feed, link, ident, budget, mishaps>>

BoundNames == {"edits", "others", "drops", "lost", "resets", "bad"}

RoomInit(bounds) ==
  /\ floor = 0 /\ wire = {} /\ feed = <<>> /\ mishaps = {}
  /\ link = TRUE /\ ident = 1
  /\ budget \in bounds

Spend(what) ==
  /\ budget[what] > 0
  /\ budget' = [budget EXCEPT ![what] = @ - 1]

Notify(event, client) ==
  feed' = IF link /\ client # ident THEN Append(feed, event) ELSE feed

Entry(client, ops) == [client |-> client, ops |-> ops]

(* The server takes what is based on its head. *)
Fits(r) == r.base = Len(log)

Serve(r) ==
  /\ wire' = wire \ {r}
  /\ IF Fits(r)
     THEN /\ log' = Append(log, Entry(r.client, r.ops))
          /\ Notify(Len(log) + 1, r.client)
     ELSE UNCHANGED <<log, feed>>
  /\ UNCHANGED <<floor, link, ident, budget, mishaps>>

(* The position at which it was logged, or 0: the base is stale. *)
Verdict(r) == IF Fits(r) THEN Len(log) + 1 ELSE 0

OtherSubmits(ops) ==
  /\ Spend("others")
  /\ log' = Append(log, Entry(0, ops))
  /\ Notify(Len(log) + 1, 0)
  /\ UNCHANGED <<floor, wire, link, ident, mishaps>>

(* The file is replaced: what led to it cannot be asked for any more. *)
FileReplaced(ops) ==
  /\ Spend("resets")
  /\ log' = Append(log, Entry(0, ops))
  /\ floor' = Len(log) + 1
  /\ Notify(0, 0)
  /\ UNCHANGED <<wire, link, ident, mishaps>>

(* The event at the head of the feed arrives; what it makes the engine send. *)
Arrive(sent) ==
  /\ feed' = Tail(feed)
  /\ wire' = wire \cup sent
  /\ UNCHANGED <<log, floor, link, ident, budget, mishaps>>

(* A call or an answer is lost. *)
Lose(sent) ==
  /\ Spend("lost")
  /\ wire' \in {wire, {}} \cup {wire \cup sent}
  /\ mishaps' = mishaps \cup {"call lost"}
  /\ UNCHANGED <<log, floor, feed, link, ident>>

(* Only the engine moves. *)
Quiet(sent, noted) ==
  /\ wire' = wire \cup sent
  /\ mishaps' = mishaps \cup noted
  /\ UNCHANGED <<log, floor, feed, link, ident, budget>>

Drop ==
  /\ link
  /\ Spend("drops")
  /\ link' = FALSE
  /\ feed' = <<>>
  /\ UNCHANGED <<log, floor, wire, ident, mishaps>>

Rejoin(noted) ==
  /\ ~link
  /\ link' = TRUE
  /\ ident' = ident + 1
  /\ mishaps' = mishaps \cup noted
  /\ UNCHANGED <<log, floor, wire, feed, budget>>

(* opSince: positions after from, unless some of them are gone. *)
Since(from) ==
  [phase |-> "answered", reset |-> from < floor,
   todo |-> [i \in 1..(Len(log) - from) |-> from + i]]

=============================================================================
