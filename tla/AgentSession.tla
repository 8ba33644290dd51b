---------------------------- MODULE AgentSession ----------------------------
(***************************************************************************)
(* Writing through an agent session (packages/agent-tools/src/session.ts,  *)
(* AgentSession): change sets and restores are bound to a revision, run    *)
(* one after the other, and are remembered by idempotency key.             *)
(*                                                                         *)
(* A revision is the content itself, as the adapters of agent-office take  *)
(* it from a digest, so it may come back.  A step is what happens between  *)
(* two awaits; of the reads that validate and capabilities make only the   *)
(* one that decides is kept.  Reads, previews and what an adapter may find *)
(* wrong with operations or with the shape of a result are left out; an    *)
(* abort is a call that fails.                                             *)
(*                                                                         *)
(* The adapter is external.  An artifact is a "host" others write to,      *)
(* which compares and writes in one step (xlsx, docx, native pptx), or a   *)
(* "value" that a commit replaces by another (pdf, authored pptx).  That a *)
(* host may know a key again is not relied on.                             *)
(***************************************************************************)
EXTENDS Sequences, Integers

CONSTANTS
  Contents,      \* what the artifact may hold
  AgentKeys,     \* idempotency keys
  ArtifactKinds, \* which of {"host", "value"} it may be
  AgentBounds    \* the bounds on what happens, one of which a behaviour has

(* What is asked for: a change set, one with operations the adapter calls
   destructive, or an earlier version. *)
Ops == {"commit", "destructive commit", "restore"}

ASSUME AgentAssumption ==
  /\ ArtifactKinds \subseteq {"host", "value"}
  /\ AgentBounds \subseteq
       [calls : Nat, ops : SUBSET Ops, others : Nat, failures : Nat]

VARIABLES
  content,   \* the host's content, or the value the session holds
  calls,     \* commits and restores in the order they were called
  commits,   \* #commits: the call remembered under a key
  kind,      \* rigid: the kind of artifact
  allowance, \* what is left of the bounds
  writes     \* history: which call made a write, and on which content

avars == <<content, calls, commits, kind, allowance, writes>>

(* A change set leads from its base to what it makes of it; a restore names the
   revision it expects. *)
Requests == [op : Ops, base : Contents, to : Contents]

Unread == {}   \* no identity was read yet

AgentInit ==
  /\ content \in Contents
  /\ calls = <<>> /\ writes = <<>>
  /\ commits = [key \in {} |-> 0]
  /\ kind \in ArtifactKinds
  /\ allowance \in AgentBounds

Use(what) ==
  /\ allowance[what] > 0
  /\ allowance' = [allowance EXCEPT ![what] = @ - 1]

Settled(call) == call.phase \in {"done", "failed"}

NeedsConfirmation(call) == call.request.op # "commit"

-----------------------------------------------------------------------------
(* commit, restore: a key used before returns the promise it had, or is refused
   for another request; either way nothing new is called. *)
Call(request, key) ==
  /\ key \notin DOMAIN commits
  /\ request.op \in allowance.ops
  /\ Use("calls")
  /\ calls' = Append(calls, [request |-> request, key |-> key, phase |-> "waiting",
                             identity |-> Unread, shown |-> Unread])
  /\ commits' = [k \in DOMAIN commits \cup {key} |->
                   IF k = key THEN Len(calls) + 1 ELSE commits[k]]
  /\ UNCHANGED <<content, kind, writes>>

(* Fault: a call starts while those before it are under way. *)
TurnAtOnce(i) == TRUE

(* Fault: after a failure the tail stays rejected. *)
TurnAfterSuccess(i) == \A k \in 1..(i - 1) : calls[k].phase = "done"

(* #serialize: after all calls before it, whatever became of them. *)
Turn(i) == \A k \in 1..(i - 1) : Settled(calls[k])

To(i, phase) == calls' = [calls EXCEPT ![i].phase = phase]

(* Fault: every failure frees the key. *)
ForgetFailed(i) ==
  commits' = [k \in DOMAIN commits \ {calls[i].key} |-> commits[k]]

(* A call that failed before mutationStarted frees its key. *)
Forget(i) ==
  commits' = IF calls[i].phase \in {"writing", "checking"} THEN commits
             ELSE [k \in DOMAIN commits \ {calls[i].key} |-> commits[k]]

Fail(i) == To(i, "failed") /\ Forget(i) /\ UNCHANGED <<content, kind, writes>>

(* #commit begins by validating, which finds a stale base; #restore does not. *)
Begin(i) ==
  /\ calls[i].phase = "waiting" /\ Turn(i)
  /\ IF calls[i].request.op = "restore" \/ content = calls[i].request.base
     THEN To(i, "validated") /\ UNCHANGED <<content, commits, kind, writes>>
     ELSE Fail(i)
  /\ UNCHANGED allowance

(* Fault: the revision is read, but not compared any more. *)
CurrentUnchecked(i) == TRUE

Current(i) == content = calls[i].request.base

(* #requireCurrent (assertExpected in #restore): the last look before the write. *)
RequireCurrent(i) ==
  /\ calls[i].phase = "validated"
  /\ IF Current(i)
     THEN /\ calls' = [calls EXCEPT ![i].identity = content,
                         ![i].phase = IF NeedsConfirmation(calls[i])
                                      THEN "confirming" ELSE "writing"]
          /\ UNCHANGED <<content, commits, kind, writes>>
     ELSE Fail(i)
  /\ UNCHANGED allowance

(* #confirmMutation: the host allows what it was shown, or denies it. *)
Confirm(i) ==
  /\ calls[i].phase = "confirming"
  /\ calls' = [calls EXCEPT ![i].shown = calls[i].identity, ![i].phase = "writing"]
  /\ UNCHANGED <<content, commits, kind, allowance, writes>>

Deny(i) == calls[i].phase = "confirming" /\ Fail(i) /\ UNCHANGED allowance

(* External: the adapter's commit or restore, which compares the content with the
   identity it was given and writes.  A host has it then; a value is only made. *)
Write(i) ==
  /\ calls[i].phase = "writing"
  /\ IF content = calls[i].identity
     THEN /\ content' = IF kind = "host" THEN calls[i].request.to ELSE content
          /\ writes' = Append(writes, [n |-> i, on |-> content])
          /\ To(i, "checking")
          /\ UNCHANGED <<commits, kind>>
     ELSE Fail(i)
  /\ UNCHANGED allowance

(* #checkReplacement: the receipt must be what the replacement reads back as, and
   be new.  Only then it is adopted. *)
Observed(i) == IF kind = "host" THEN content ELSE calls[i].request.to

Check(i) ==
  /\ calls[i].phase = "checking"
  /\ IF Observed(i) = calls[i].request.to /\ Observed(i) # calls[i].identity
     THEN /\ content' = Observed(i)
          /\ To(i, "verifying")
          /\ UNCHANGED <<commits, kind, writes>>
     ELSE Fail(i)
  /\ UNCHANGED allowance

(* What verification finds is reported, but the commit stands. *)
Verified(i) ==
  /\ calls[i].phase = "verifying"
  /\ To(i, "done")
  /\ UNCHANGED <<content, commits, kind, allowance, writes>>

(* An adapter's call fails or is aborted; a write may have happened before. *)
CallFails(i) ==
  /\ calls[i].phase \in {"waiting", "validated", "writing", "checking"}
  /\ calls[i].phase = "waiting" => Turn(i)
  /\ Use("failures")
  /\ Fail(i)

(* Another session or a person writes to the host. *)
OtherWrites(to) ==
  /\ kind = "host"
  /\ Use("others")
  /\ content' = to
  /\ UNCHANGED <<calls, commits, kind, writes>>

Steps(i) ==
  \/ Begin(i) \/ RequireCurrent(i) \/ Confirm(i) \/ Deny(i)
  \/ Write(i) \/ Check(i) \/ Verified(i)

AgentNext ==
  \/ \E request \in Requests, key \in AgentKeys : Call(request, key)
  \/ \E i \in 1..Len(calls) : Steps(i) \/ CallFails(i)
  \/ \E to \in Contents : OtherWrites(to)

AgentSpec == AgentInit /\ [][AgentNext]_avars

(* The adapter and the host's hook answer. *)
AgentFairSpec == AgentSpec /\ WF_avars(\E i \in 1..Len(calls) : Steps(i))

-----------------------------------------------------------------------------
(***************************************************************************)
(* Properties                                                              *)
(***************************************************************************)
(* "does not replay an idempotency key after an ambiguous adapter commit failure":
   under one key at most one write is made, though the content it was based on
   may come back (commit, restore). *)
WrittenOnce ==
  \A i, k \in 1..Len(writes) :
    calls[writes[i].n].key = calls[writes[k].n].key => i = k

(* What is written is written on the revision it was planned on and, where the
   host has to allow it, on the one it was shown, whoever writes in the awaits
   between (#requireCurrent, #confirmMutation). *)
WrittenAsReviewed ==
  \A i \in 1..Len(writes) :
    LET call == calls[writes[i].n]
    IN  /\ writes[i].on = call.request.base
        /\ NeedsConfirmation(call) => call.shown = writes[i].on

(* A value is replaced only by one that was made of it: no commit reported as done
   is lost to another one (#serialize). *)
AdoptsSuccessor ==
  [][\A i \in 1..Len(calls) :
       Check(i) /\ kind = "value" /\ calls'[i].phase = "verifying" =>
         calls[i].identity = content]_avars

(* Every commit and restore is answered, whatever became of those before it
   (#serialize). *)
EventuallyAnswered == <>[](\A i \in 1..Len(calls) : Settled(calls[i]))

=============================================================================
