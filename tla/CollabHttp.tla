----------------------------- MODULE CollabHttp -----------------------------
(***************************************************************************)
(* Presence over HTTP, both ends: the sessions and event streams of        *)
(* go/injoffice-server/internal/collabhttp/handler.go, the transport of    *)
(* apps/playground/src/collabTransport.ts, and the mirror of the room that *)
(* packages/collab/src/presence.ts keeps for each tab.                     *)
(*                                                                         *)
(* There is one room, and of the hub (CollabHub) only who is in it with    *)
(* which selection.  A session is numbered as it is minted and its         *)
(* connection's client id is that number.  A request and its handling are  *)
(* one step, except for join, which reads the artifact store between       *)
(* looking up the session and entering the room.                           *)
(*                                                                         *)
(* The network and the browser's EventSource are external: a stream breaks *)
(* and is opened again by itself, and the server may take a while to       *)
(* notice.  Keep-alives are sent more often than a session idles out, so a *)
(* session with a stream does not.                                         *)
(***************************************************************************)
EXTENDS SequencesExt, Integers

CONSTANTS
  Tabs,          \* browser tabs, each opened once
  EventBuffer,   \* events a session holds for its stream (32)
  HttpBounds     \* the bounds on what happens, one of which a behaviour has

BoundNames == {"publishes", "breaks", "closes", "delays", "mints"}

ASSUME HttpAssumption ==
  /\ EventBuffer \in Nat \ {0}
  /\ HttpBounds \subseteq [BoundNames -> Nat]

VARIABLES
  sess,      \* the sessions ever minted, in order
  peers,     \* the room: selection by client id
  tab,       \* transport and mirror of each tab
  calls,     \* joins under way
  budget,    \* what is left of the bounds
  mishaps    \* history: which situations the code does not cope with arose

hvars == <<sess, peers, tab, calls, budget, mishaps>>

NoPeers == [s \in {} |-> 0]
Without(f, s) == [r \in DOMAIN f \ {s} |-> f[r]]
With(f, s, v) == [r \in DOMAIN f \cup {s} |-> IF r = s THEN v ELSE f[r]]

NewSession ==
  [listed |-> TRUE, done |-> FALSE, idle |-> FALSE, streams |-> {}, events |-> <<>>]

Unopened ==
  [open |-> FALSE, session |-> 0, stream |-> "none", first |-> TRUE,
   bound |-> FALSE, task |-> "idle", me |-> 0, joined |-> FALSE, remote |-> NoPeers]

Spend(what) ==
  /\ budget[what] > 0
  /\ budget' = [budget EXCEPT ![what] = @ - 1]

-----------------------------------------------------------------------------
(***************************************************************************)
(* The server.  Its operators map [sess, peers] to what a call makes of it.*)
(***************************************************************************)
Server == [sess |-> sess, peers |-> peers]
Become(v) == sess' = v.sess /\ peers' = v.peers

(* A full buffer ends the session. *)
Push(ss, event, to) ==
  [s \in DOMAIN ss |->
     IF s \notin to THEN ss[s]
     ELSE IF Len(ss[s].events) < EventBuffer
     THEN [ss[s] EXCEPT !.events = Append(@, event)]
     ELSE [ss[s] EXCEPT !.done = TRUE]]

Tell(v, of, kind, sel) ==
  [v EXCEPT !.sess = Push(@, [kind |-> kind, of |-> of, sel |-> sel],
                          DOMAIN v.peers \ {of})]

Enter(v, s) ==
  IF s \in DOMAIN v.peers THEN v
  ELSE [Tell(v, s, "joined", 0) EXCEPT !.peers = With(@, s, 0)]

Exit(v, s) ==
  IF s \notin DOMAIN v.peers THEN v
  ELSE [Tell(v, s, "left", 0) EXCEPT !.peers = Without(@, s)]

Select(v, s, sel) ==
  [Tell(v, s, "selected", sel) EXCEPT !.peers[s] = sel]

Kill(v, s) == [v EXCEPT !.sess[s].done = TRUE, !.sess[s].listed = FALSE]

(* Fault: the session is forgotten, its connection stays in the room. *)
DropSessionOnly(v, s) == Kill(v, s)

(* drop: killed, unlisted, out of every room. *)
DropSession(v, s) == Exit(Kill(v, s), s)

(* expireIdle, at the start of every request that names or mints a session. *)
ExpireOne(v, s) ==
  IF v.sess[s].listed /\ v.sess[s].idle THEN DropSession(v, s) ELSE v
ExpireIdle(v) == FoldLeft(ExpireOne, v, [s \in DOMAIN v.sess |-> s])

(* lookup: whether the request may go on, and what it left. *)
Known(v, s) == v.sess[s].listed /\ ~v.sess[s].done
Touched(v, s) == [v EXCEPT !.sess[s].idle = FALSE]
LookUp(s) ==
  LET v == ExpireIdle(Server)
  IN  IF Known(v, s) THEN Touched(v, s) ELSE v

-----------------------------------------------------------------------------
(***************************************************************************)
(* The tab: its transport and its PresenceState.                           *)
(***************************************************************************)
(* An error of the stream, or a call refused with 401. *)
Probe(t) == IF t.task = "idle" THEN [t EXCEPT !.task = "probe"] ELSE t
StreamError(t) == IF t.bound THEN Probe(t) ELSE t

(* Fault: the peers of the join result are added to those shown. *)
ApplyJoinByMerging(t, call) ==
  [t EXCEPT !.me = call.session, !.joined = TRUE,
            !.remote = Without(call.peers @@ @, call.session)]

(* applyJoin: the remote peers are replaced wholesale. *)
ApplyJoin(t, call) ==
  [t EXCEPT !.me = call.session, !.joined = TRUE,
            !.remote = Without(call.peers, call.session)]

(* apply. *)
Apply(remote, event) ==
  CASE event.kind = "joined" -> With(remote, event.of, 0)
    [] event.kind = "left" -> Without(remote, event.of)
    [] event.kind = "selected" ->
         IF event.of \in DOMAIN remote THEN [remote EXCEPT ![event.of] = event.sel]
         ELSE remote

Receive(t, event) ==
  IF t.me = 0 \/ (event.kind = "joined" /\ event.of = t.me) THEN t
  ELSE [t EXCEPT !.remote = Apply(@, event)]

Join(c) == [tab |-> c, session |-> tab[c].session, phase |-> "sent"]

-----------------------------------------------------------------------------
(***************************************************************************)
(* Actions                                                                 *)
(***************************************************************************)
HttpInit ==
  /\ sess = <<>>
  /\ peers = NoPeers
  /\ tab = [c \in Tabs |-> Unopened]
  /\ calls = {}
  /\ budget \in HttpBounds
  /\ mishaps = {}

(* createSession and attachSource: a new stream, its error handler not yet
   bound, awaited until it opens. *)
Attach(c, task) ==
  /\ Spend("mints")
  /\ Become(LET v == ExpireIdle(Server)
            IN  [v EXCEPT !.sess = Append(@, NewSession)])
  /\ tab' = [tab EXCEPT ![c] =
       [@ EXCEPT !.session = Len(sess) + 1, !.stream = "opening", !.first = TRUE,
                 !.bound = FALSE, !.task = task, !.open = TRUE]]

OpenTab(c) ==
  /\ tab[c] = Unopened
  /\ Attach(c, "create")
  /\ UNCHANGED <<calls, mishaps>>

Attaching(t) == t.task \in {"create", "attach"}

(* The stream opens.  The first open of a source ends attachSource, after which
   the manager joins; every later one is a reconnect. *)
StreamOpens(c) ==
  LET t == tab[c]
      v == LookUp(t.session)
      opened == [t EXCEPT !.stream = "open", !.first = FALSE,
                   !.task = IF Attaching(t) THEN "idle" ELSE @,
                   !.bound = @ \/ Attaching(t)]
  IN  /\ t.open /\ t.stream = "opening"
      /\ Known(v, t.session)
      /\ Become([v EXCEPT !.sess[t.session].streams = @ \cup {"live"}])
      /\ tab' = [tab EXCEPT ![c] = opened]
      /\ calls' = IF Attaching(t) \/ ~t.first THEN calls \cup {Join(c)} ELSE calls
      /\ UNCHANGED <<budget, mishaps>>

(* The session is gone: an EventSource does not try again. *)
StreamRefused(c) ==
  LET t == tab[c]
      v == LookUp(t.session)
  IN  /\ t.open /\ t.stream = "opening"
      /\ ~Known(v, t.session)
      /\ Become(v)
      /\ tab' = [tab EXCEPT ![c] = StreamError([t EXCEPT !.stream = "none"])]
      /\ UNCHANGED <<calls, budget, mishaps>>

(* It will try again by itself.  The server may not have noticed. *)
StreamBreaks(c) ==
  LET t == tab[c]
  IN  /\ t.open /\ t.stream = "open"
      /\ Spend("breaks")
      /\ \E rest \in {{}, {"dead"}} :
           sess' = [sess EXCEPT ![t.session].streams = (@ \ {"live"}) \cup rest]
      /\ tab' = [tab EXCEPT ![c] = StreamError([t EXCEPT !.stream = "opening"])]
      /\ UNCHANGED <<peers, calls, mishaps>>

(* events returns when the session is killed. *)
StreamEnds(c) ==
  LET t == tab[c]
  IN  /\ t.open /\ t.stream = "open" /\ sess[t.session].done
      /\ sess' = [sess EXCEPT ![t.session].streams = {}]
      /\ tab' = [tab EXCEPT ![c] = StreamError([t EXCEPT !.stream = "opening"])]
      /\ UNCHANGED <<peers, calls, budget, mishaps>>

BreakNoticed(s) ==
  /\ "dead" \in sess[s].streams
  /\ sess' = [sess EXCEPT ![s].streams = @ \ {"dead"}]
  /\ UNCHANGED <<peers, tab, calls, budget, mishaps>>

(* A stream nobody reads takes an event from the one that replaced it. *)
FrameLost(s) ==
  /\ "dead" \in sess[s].streams /\ sess[s].events # <<>>
  /\ sess' = [sess EXCEPT ![s].events = Tail(@)]
  /\ mishaps' = mishaps \cup {"frame lost"}
  /\ UNCHANGED <<peers, tab, calls, budget>>

(* An event arrives.  It may have overtaken the answer to a join. *)
Deliver(c) ==
  LET t == tab[c]
  IN  /\ t.open /\ t.stream = "open" /\ sess[t.session].events # <<>>
      /\ sess' = [sess EXCEPT ![t.session].events = Tail(@)]
      /\ tab' = [tab EXCEPT ![c] = Receive(t, Head(sess[t.session].events))]
      /\ mishaps' = IF \E call \in calls : call.tab = c /\ call.phase = "answered"
                    THEN mishaps \cup {"answer overtaken"} ELSE mishaps
      /\ UNCHANGED <<peers, calls, budget>>

-----------------------------------------------------------------------------
(* Fault: a session that is gone is not replaced. *)
ProbeWithoutMint(c) ==
  LET v == LookUp(tab[c].session)
  IN  /\ tab[c].open /\ tab[c].task = "probe"
      /\ Become(v)
      /\ tab' = [tab EXCEPT ![c].task = "idle"]
      /\ UNCHANGED <<calls, budget, mishaps>>

(* probeAndReconnect: the session is still good, or another one is minted. *)
ProbeReturns(c) ==
  LET v == LookUp(tab[c].session)
  IN  /\ tab[c].open /\ tab[c].task = "probe"
      /\ IF Known(v, tab[c].session)
         THEN /\ Become(v)
              /\ tab' = [tab EXCEPT ![c].task = "idle"]
              /\ UNCHANGED budget
         ELSE Attach(c, "attach")
      /\ UNCHANGED <<calls, mishaps>>

(* No session can be minted. *)
MintRefused(c) ==
  /\ tab[c].open /\ tab[c].task = "probe"
  /\ budget.mints = 0
  /\ ~Known(LookUp(tab[c].session), tab[c].session)
  /\ tab' = [tab EXCEPT ![c].task = "idle"]
  /\ mishaps' = mishaps \cup {"mint refused"}
  /\ UNCHANGED <<sess, peers, calls, budget>>

(* The stream has not opened in time.  The first time the tab gives up; later on
   the EventSource goes on trying. *)
AttachTimesOut(c) ==
  LET t == tab[c]
  IN  /\ t.open /\ Attaching(t)
      /\ IF t.stream = "none" THEN UNCHANGED budget ELSE Spend("delays")
      /\ tab' = [tab EXCEPT ![c] =
                   IF t.task = "create" THEN [Unopened EXCEPT !.session = t.session]
                   ELSE [t EXCEPT !.task = "idle"]]
      /\ mishaps' = IF t.task = "create" THEN mishaps
                    ELSE mishaps \cup {"attach timed out"}
      /\ UNCHANGED <<sess, peers, calls>>

Old(t, call) ==
  IF t.open /\ call.session # t.session
  THEN mishaps \cup {"answer of an old session"} ELSE mishaps

JoinLookedUp(call) ==
  LET v == LookUp(call.session)
      t == tab[call.tab]
  IN  /\ call.phase = "sent"
      /\ Become(v)
      /\ IF Known(v, call.session)
         THEN /\ calls' = (calls \ {call}) \cup {[call EXCEPT !.phase = "found"]}
              /\ UNCHANGED tab
         ELSE \* a join that is refused leaves the tab not joined
              /\ calls' = calls \ {call}
              /\ tab' = [tab EXCEPT ![call.tab] =
                           IF t.open THEN Probe([t EXCEPT !.joined = FALSE]) ELSE t]
      /\ mishaps' = IF Known(v, call.session) THEN mishaps ELSE Old(t, call)
      /\ UNCHANGED budget

(* Hub.Join, whatever became of the session meanwhile. *)
JoinEnters(call) ==
  LET v == Enter(Server, call.session)
  IN  /\ call.phase = "found"
      /\ Become(v)
      /\ calls' = (calls \ {call}) \cup
                    {[tab |-> call.tab, session |-> call.session,
                      phase |-> "answered", peers |-> v.peers]}
      /\ mishaps' = IF sess[call.session].listed THEN mishaps
                    ELSE mishaps \cup {"closed while joining"}
      /\ UNCHANGED <<tab, budget>>

JoinAnswered(call) ==
  LET t == tab[call.tab]
  IN  /\ call.phase = "answered"
      /\ calls' = calls \ {call}
      /\ tab' = [tab EXCEPT ![call.tab] = IF t.open THEN ApplyJoin(t, call) ELSE t]
      /\ mishaps' = Old(t, call)
      /\ UNCHANGED <<sess, peers, budget>>

(* A call refused with 401 has the session checked; any other error is dropped. *)
Publish(c) ==
  LET t == tab[c]
      v == LookUp(t.session)
  IN  /\ t.open /\ t.joined
      /\ Spend("publishes")
      /\ Become(IF Known(v, t.session) /\ t.session \in DOMAIN v.peers
                THEN Select(v, t.session, budget.publishes) ELSE v)
      /\ tab' = [tab EXCEPT ![c] = IF Known(v, t.session) THEN t ELSE Probe(t)]
      /\ UNCHANGED <<calls, mishaps>>

(* The page is hidden: the session is closed and nothing more is handled. *)
CloseTab(c) ==
  LET v == LookUp(tab[c].session)
      s == tab[c].session
  IN  /\ tab[c].open
      /\ Spend("closes")
      /\ Become(LET w == [v EXCEPT !.sess[s].streams = {}]
                IN  IF Known(v, s) THEN DropSession(w, s) ELSE w)
      /\ tab' = [tab EXCEPT ![c] = [Unopened EXCEPT !.session = s]]
      /\ UNCHANGED <<calls, mishaps>>

(* Half a minute without a request or a stream: a matter of course for a
   session no tab uses, a delay for another. *)
Idles(s) ==
  /\ sess[s].listed /\ ~sess[s].idle /\ sess[s].streams = {}
  /\ IF \E c \in Tabs : tab[c].open /\ tab[c].session = s
     THEN Spend("delays") ELSE UNCHANGED budget
  /\ sess' = [sess EXCEPT ![s].idle = TRUE]
  /\ UNCHANGED <<peers, tab, calls, mishaps>>

(* Somebody's request, to whatever room. *)
OtherRequest ==
  /\ ExpireIdle(Server) # Server
  /\ Become(ExpireIdle(Server))
  /\ UNCHANGED <<tab, calls, budget, mishaps>>

HttpNext ==
  \/ \E c \in Tabs :
       \/ OpenTab(c) \/ CloseTab(c) \/ Publish(c)
       \/ StreamOpens(c) \/ StreamRefused(c) \/ StreamBreaks(c) \/ StreamEnds(c)
       \/ Deliver(c) \/ ProbeReturns(c) \/ MintRefused(c) \/ AttachTimesOut(c)
  \/ \E call \in calls : JoinLookedUp(call) \/ JoinEnters(call) \/ JoinAnswered(call)
  \/ \E s \in DOMAIN sess : BreakNoticed(s) \/ FrameLost(s) \/ Idles(s)
  \/ OtherRequest

HttpSpec == HttpInit /\ [][HttpNext]_hvars

(* Streams open, events and answers arrive, broken streams are noticed, a
   session nobody uses idles out, and some request is always to come. *)
HttpFairSpec ==
  /\ HttpSpec
  /\ \A c \in Tabs :
       /\ WF_hvars(StreamOpens(c)) /\ WF_hvars(StreamRefused(c))
       /\ WF_hvars(StreamEnds(c)) /\ WF_hvars(Deliver(c)) /\ WF_hvars(ProbeReturns(c))
       /\ WF_hvars(MintRefused(c))
       /\ WF_hvars(tab[c].stream = "none" /\ AttachTimesOut(c))
  /\ WF_hvars(\E call \in calls :
                JoinLookedUp(call) \/ JoinEnters(call) \/ JoinAnswered(call))
  /\ WF_hvars(\E s \in DOMAIN sess : BreakNoticed(s) \/ Idles(s))
  /\ WF_hvars(OtherRequest)

-----------------------------------------------------------------------------
(***************************************************************************)
(* Properties                                                              *)
(***************************************************************************)
(* "Disconnecting must have the same effect" as leaving: whoever is in the room
   has a session that can still expire (drop, expireIdle, join). *)
NobodyLeftBehind == \A s \in DOMAIN peers : sess[s].listed

NobodyLeftBehindIfCoped == "closed while joining" \notin mishaps => NobodyLeftBehind

(* What a joined tab shows, with the events on their way to it, is who is in the
   room and what they selected (Hub.Join and its fan-out, applyJoin, apply). *)
MirrorAgrees ==
  \A c \in Tabs :
    LET t == tab[c]
    IN  /\ t.open /\ t.joined /\ t.me = t.session
        /\ ~sess[t.me].done
        /\ t.stream = "open" /\ \A call \in calls : call.tab # c
        => FoldLeft(Apply, t.remote, sess[t.me].events) = Without(peers, t.me)

MirrorAgreesIfCoped ==
  mishaps \cap {"answer overtaken", "answer of an old session", "frame lost"} = {}
    => MirrorAgrees

(* Every open tab ends up in the room under its session and shows the others,
   and the room holds nobody else (probeAndReconnect, attachSource, expireIdle). *)
AllPresent ==
  /\ \A c \in Tabs : tab[c].open =>
       /\ tab[c].joined /\ tab[c].me = tab[c].session
       /\ tab[c].remote = Without(peers, tab[c].me)
  /\ DOMAIN peers = {tab[c].session : c \in {c \in Tabs : tab[c].open}}

EventuallyAllPresent == <>[](mishaps # {} \/ AllPresent)

=============================================================================
