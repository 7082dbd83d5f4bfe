------------------------------ MODULE Dialogue ------------------------------
(***************************************************************************)
(* The federated dialogue of one conversation, projected from its log:     *)
(*   node/dialogue.py      project_conversation, create, claim, reply      *)
(*   node/supervisor.py    recover_expired_lease, run by another process   *)
(*   node/app.py           the endpoints; a participant's claims and       *)
(*                         replies are executed by the coordinator         *)
(* A handler reads the projection once and then appends its events one     *)
(* transaction each: a crash may leave the first ones, and the supervisor, *)
(* which is another process, may write between them.  The handlers of one  *)
(* node do not interleave: there is no await between those transactions.   *)
(* Of replication only what FederatedLog shows is kept: a node holds a     *)
(* prefix of what the author of an epoch wrote in it, and moves on to the  *)
(* next epoch with or without the rest.  Of failover, what Failover shows: *)
(* a node whose peer has replaced its epoch writes no dialogue events.     *)
(* Time is kept as whether the lease of the current claim has run out.     *)
(***************************************************************************)
EXTENDS Naturals, Sequences, FiniteSets

CONSTANTS
    A, B,               \* the creator, which speaks first, and its peer
    MaxRounds,          \* max_rounds of the conversation
    MaxRetries,         \* max_lease_retries of the supervisor
    MaxEpoch,           \* bound on coordinator epochs
    Answers,            \* the results that agents reply with
    MaxClaims,          \* bound on the claims in a log
    MaxReopenings       \* bound on the recoveries in a log

ASSUME Participants == A # B
ASSUME Limits == /\ MaxRounds \in Nat \ {0}
                 /\ MaxEpoch \in Nat \ {0}
                 /\ MaxRetries \in Nat
                 /\ MaxClaims \in Nat
                 /\ MaxReopenings \in Nat
                 /\ Answers \subseteq {"continue", "complete", "blocked", "error"}

VARIABLES
    log,        \* of each node, the events it holds of each epoch
    epoch,      \* coordinator epoch of each node's head; 0 for no log
    pending,    \* events that the running handler of a node has yet to append
    lapsed,     \* has the lease of the current claim, as a node sees it, expired
    recovery,   \* what the supervisor of a node has read and not yet written
    strayed     \* history: has a step been taken that the protocol cannot absorb,
                \* a stale reopening or a blind takeover (see below)

dialogueVars == <<log, epoch, pending, lapsed, recovery, strayed>>

Node == {A, B}
Peer(n) == IF n = A THEN B ELSE A
Owner(e) == IF e % 2 = 1 THEN A ELSE B
Epoch == 1..MaxEpoch

Result == {"continue", "complete", "blocked", "error"}
Turn(n, r, s) == [by |-> n, round |-> r, slot |-> s]
NoTurn == Turn(A, 0, 0)

\* Turn ids are random in the code and never repeat.  Here they are of the node
\* that opens the turn and of how many replies come before it.
NoId == <<A, 0>>
FirstId == <<A, 1>>

\* The events.  Slot 0 is the phase completion_confirmation.
Created == [type |-> "created"]
Changed == [type |-> "changed"]
Opened(id, turn) == [type |-> "opened", id |-> id, turn |-> turn]
Claimed(id) == [type |-> "claimed", id |-> id]
Recorded(id, turn, result) ==
    [type |-> "recorded", id |-> id, turn |-> turn, result |-> result]
Proposed(turn) == [type |-> "proposed", turn |-> turn]
Rejected == [type |-> "rejected"]
Ended(status) == [type |-> "ended", status |-> status]

-----------------------------------------------------------------------------
(* project_conversation.                                                    *)

EmptyView == [status |-> "unknown", valid |-> TRUE, id |-> NoId,
              turn |-> NoTurn, claimed |-> FALSE, proposal |-> NoTurn,
              replies |-> <<>>]

Answer(turn, result) ==
    [by |-> turn.by, round |-> turn.round, slot |-> turn.slot, result |-> result]

\* A mutant: a recorded reply leaves its turn open.
ApplyMutant(view, ev) ==
    CASE ev.type = "created" -> [view EXCEPT !.status = "active"]
      [] ev.type = "changed" -> view
      [] ev.type = "opened" -> [view EXCEPT !.id = ev.id, !.turn = ev.turn,
                                            !.claimed = FALSE]
      [] ev.type = "claimed" -> [view EXCEPT !.claimed = TRUE]
      [] ev.type = "recorded" ->
            [view EXCEPT !.replies = Append(@, Answer(ev.turn, ev.result))]
      [] ev.type = "proposed" -> [view EXCEPT !.proposal = ev.turn]
      [] ev.type = "rejected" -> [view EXCEPT !.proposal = NoTurn]
      [] ev.type = "ended" -> [view EXCEPT !.status = ev.status]

\* A claim that is not of the current turn makes the projection fail, for good.
Apply(view, ev) ==
    CASE ev.type = "created" -> [view EXCEPT !.status = "active"]
      [] ev.type = "changed" -> view
      [] ev.type = "opened" -> [view EXCEPT !.id = ev.id, !.turn = ev.turn,
                                            !.claimed = FALSE]
      [] ev.type = "claimed" ->
            IF view.turn = NoTurn \/ view.id # ev.id
            THEN [view EXCEPT !.valid = FALSE]
            ELSE [view EXCEPT !.claimed = TRUE]
      [] ev.type = "recorded" ->
            [view EXCEPT !.replies = Append(@, Answer(ev.turn, ev.result)),
                         !.turn = NoTurn]
      [] ev.type = "proposed" -> [view EXCEPT !.proposal = ev.turn]
      [] ev.type = "rejected" -> [view EXCEPT !.proposal = NoTurn]
      [] ev.type = "ended" -> [view EXCEPT !.status = ev.status,
                                           !.turn = NoTurn, !.proposal = NoTurn]

Project(evs) ==
    LET upto[i \in 0..Len(evs)] ==
            IF i = 0 THEN EmptyView ELSE Apply(upto[i - 1], evs[i])
    IN  upto[Len(evs)]

\* list_events: by epoch, then by sequence.
Listed(epochs) ==
    LET upto[e \in 0..MaxEpoch] ==
            IF e = 0 THEN <<>> ELSE upto[e - 1] \o epochs[e]
    IN  upto[MaxEpoch]
History(n) == Listed(log[n])

View(n) == Project(History(n))

OfType(n, type) == LET Is(ev) == ev.type = type IN SelectSeq(History(n), Is)

\* Of a turn that follows the reply which is being recorded.
NewId(n) == <<n, Len(View(n).replies) + 2>>

-----------------------------------------------------------------------------
Coordinates(n) == epoch[n] > 0 /\ Owner(epoch[n]) = n

\* A mutant: the lease is not checked.
MayActMutant(n) == Coordinates(n)

\* The lease check of LeasedDialogueService, as Failover justifies it.
MayAct(n) == Coordinates(n) /\ epoch[Peer(n)] <= epoch[n]

\* The node whose turn it is addresses this coordinator: its own view of the
\* log, by which it routes its claims and replies, is in the same epoch.
Addressed(n, by) == epoch[by] = epoch[n]

\* A handler starts: nothing of an earlier one is left to run.
Idle(n) == pending[n] = <<>>

Init ==
    /\ log = [n \in Node |-> [e \in Epoch |-> <<>>]]
    /\ epoch = [n \in Node |-> 0]
    /\ pending = [n \in Node |-> <<>>]
    /\ lapsed = [n \in Node |-> FALSE]
    /\ recovery = [n \in Node |-> <<>>]
    /\ strayed = FALSE

\* create, after its first transaction.
Create ==
    /\ epoch[A] = 0
    /\ epoch' = [epoch EXCEPT ![A] = 1]
    /\ log' = [log EXCEPT ![A][1] = <<Created>>]
    /\ pending' = [pending EXCEPT ![A] = <<Opened(FirstId, Turn(A, 1, 1))>>]
    /\ UNCHANGED <<lapsed, recovery, strayed>>

\* claim, for the node whose turn it is.  A claim that is still alive is
\* returned as it is.
Claim(n) ==
    LET view == View(n) IN
    /\ MayAct(n) /\ Idle(n)
    /\ Len(OfType(n, "claimed")) < MaxClaims
    /\ view.valid /\ view.status = "active" /\ view.turn # NoTurn
    /\ Addressed(n, view.turn.by)
    /\ ~ view.claimed \/ lapsed[n]
    /\ pending' = [pending EXCEPT ![n] = <<Claimed(view.id)>>]
    /\ UNCHANGED <<log, epoch, lapsed, recovery, strayed>>

\* A mutant: a round too many.
FollowUpMutant(n, turn) ==
    CASE turn.slot = 0 -> <<>>
      [] turn.slot = 1 -> <<Opened(NewId(n), Turn(B, turn.round, 2))>>
      [] turn.slot = 2 ->
            IF turn.round > MaxRounds THEN <<Ended("blocked")>>
            ELSE <<Opened(NewId(n), Turn(A, turn.round + 1, 1))>>

\* The turn that follows a reply which lets the dialogue go on: after a
\* confirmation that was declined, by the slot of the proposal.
FollowUp(n, turn) ==
    CASE turn.slot = 0 -> <<>>
      [] turn.slot = 1 -> <<Opened(NewId(n), Turn(B, turn.round, 2))>>
      [] turn.slot = 2 ->
            IF turn.round >= MaxRounds THEN <<Ended("blocked")>>
            ELSE <<Opened(NewId(n), Turn(A, turn.round + 1, 1))>>

\* A mutant: a declined proposal always gives the turn to the creator.
AfterRejectionMutant(n, proposal) ==
    IF proposal.round >= MaxRounds THEN <<Ended("blocked")>>
    ELSE <<Opened(NewId(n), Turn(A, proposal.round + 1, 1))>>

AfterRejection(n, proposal) ==
    CASE proposal.round >= MaxRounds -> <<Ended("blocked")>>
      [] proposal.round < MaxRounds /\ proposal.slot = 1 ->
            <<Opened(NewId(n), Turn(A, proposal.round + 1, 1))>>
      [] proposal.round < MaxRounds /\ proposal.slot = 2 ->
            <<Opened(NewId(n), Turn(B, proposal.round + 1, 2))>>
      [] proposal.round < MaxRounds /\ proposal.slot = 0 -> <<>>

\* A mutant: one node completes the dialogue alone.
ConsequencesMutant(n, view, result) ==
    CASE result \in {"blocked", "error"} -> <<Ended(result)>>
      [] result = "complete" -> <<Ended("completed")>>
      [] result = "continue" -> FollowUp(n, view.turn)

\* What reply appends after reply.recorded.
Consequences(n, view, result) ==
    LET turn == view.turn
        confirmation == turn.slot = 0 /\ view.proposal # NoTurn IN
    CASE result \in {"blocked", "error"} -> <<Ended(result)>>
      [] result = "complete" ->
            IF confirmation /\ view.proposal.by # turn.by
            THEN <<Ended("completed")>>
            ELSE <<Proposed(turn),
                   Opened(NewId(n), Turn(Peer(turn.by), turn.round, 0))>>
      [] result = "continue" ->
            IF confirmation
            THEN <<Rejected>> \o AfterRejection(n, view.proposal)
            ELSE FollowUp(n, turn)

\* reply, by the node that claimed the current turn.
Reply(n) ==
    LET view == View(n) IN
    /\ MayAct(n) /\ Idle(n)
    /\ view.valid /\ view.status = "active" /\ view.turn # NoTurn
    /\ Addressed(n, view.turn.by)
    /\ view.claimed /\ ~ lapsed[n]
    /\ \E result \in Answers :
          pending' = [pending EXCEPT ![n] =
              <<Recorded(view.id, view.turn, result)>>
                  \o Consequences(n, view, result)]
    /\ UNCHANGED <<log, epoch, lapsed, recovery, strayed>>

\* One transaction of the running handler (append_local).
Write(n) ==
    /\ pending[n] # <<>>
    /\ log' = [log EXCEPT ![n][epoch[n]] = Append(@, Head(pending[n]))]
    /\ pending' = [pending EXCEPT ![n] = Tail(@)]
    /\ lapsed' = [lapsed EXCEPT ![n] =
                     @ /\ Head(pending[n]).type \notin {"opened", "claimed", "recorded"}]
    /\ UNCHANGED <<epoch, recovery, strayed>>

\* The node process stops between two transactions.
Crash(n) ==
    /\ pending[n] # <<>>
    /\ pending' = [pending EXCEPT ![n] = <<>>]
    /\ UNCHANGED <<log, epoch, lapsed, recovery, strayed>>

\* The lease of the current claim runs out; only a coordinator looks at it.
Lapse(n) ==
    /\ Coordinates(n)
    /\ View(n).turn # NoTurn /\ View(n).claimed
    /\ ~ lapsed[n]
    /\ lapsed' = [lapsed EXCEPT ![n] = TRUE]
    /\ UNCHANGED <<log, epoch, pending, recovery, strayed>>

-----------------------------------------------------------------------------
(* recover_expired_lease: it reads the projection, then appends.            *)

\* _retry_count: how often the turn has been opened.
Openings(n, id) ==
    LET Is(ev) == ev.id = id IN Len(SelectSeq(OfType(n, "opened"), Is))

\* The recoveries so far.
Reopenings(n) ==
    LET opened == OfType(n, "opened") IN
    {i \in DOMAIN opened : \E j \in 1..(i - 1) : opened[j].id = opened[i].id}

RecoverRead(n) ==
    LET view == View(n) IN
    /\ Coordinates(n)
    /\ recovery[n] = <<>>
    /\ Cardinality(Reopenings(n)) < MaxReopenings
    /\ view.valid /\ view.status = "active" /\ view.turn # NoTurn
    /\ view.claimed /\ lapsed[n]
    /\ Openings(n, view.id) - 1 < MaxRetries
    /\ recovery' = [recovery EXCEPT ![n] = <<epoch[n], Opened(view.id, view.turn)>>]
    /\ UNCHANGED <<log, epoch, pending, lapsed, strayed>>

\* The turn that is about to be reopened is open no longer: it has been answered
\* since the supervisor read it.
StaleReopening(n) ==
    ~ (View(n).turn # NoTurn /\ recovery[n][2] = Opened(View(n).id, View(n).turn))

\* append_local: only the epoch is compared with what was read.
RecoverWrite(n) ==
    /\ recovery[n] # <<>>
    /\ recovery' = [recovery EXCEPT ![n] = <<>>]
    /\ \/ /\ recovery[n][1] = epoch[n]
          /\ log' = [log EXCEPT ![n][epoch[n]] = Append(@, recovery[n][2])]
          /\ lapsed' = [lapsed EXCEPT ![n] = FALSE]
          /\ strayed' = (strayed \/ StaleReopening(n))
       \/ recovery[n][1] # epoch[n] /\ UNCHANGED <<log, lapsed, strayed>>
    /\ UNCHANGED <<epoch, pending>>

-----------------------------------------------------------------------------
(* Replication and failover.                                                *)

\* What the peer wrote in the epoch of this node's head, or in the one after it,
\* as of the end of some handler.  A batch that is delivered late is one that
\* was learnt early: nothing is done with it in between.
Learn(n) ==
    LET e == epoch[n]
        p == Peer(n) IN
    /\ pending[n] = <<>> /\ pending[p] = <<>>
    /\ \/ /\ e > 0 /\ Owner(e) = p
          /\ log[n][e] # log[p][e]
          /\ log' = [log EXCEPT ![n][e] = log[p][e]]
          /\ UNCHANGED epoch
       \/ /\ e < MaxEpoch /\ Owner(e + 1) = p
          /\ log[p][e + 1] # <<>>
          /\ log' = [log EXCEPT ![n][e + 1] = log[p][e + 1]]
          /\ epoch' = [epoch EXCEPT ![n] = e + 1]
    /\ lapsed' = [lapsed EXCEPT ![n] = FALSE]
    /\ UNCHANGED <<pending, recovery, strayed>>

\* Views of the same dialogue; claims and what a recovery withdraws of them may
\* differ.
Similar(v, w) ==
    /\ v.status = w.status /\ v.id = w.id /\ v.turn = w.turn
    /\ v.proposal = w.proposal /\ v.replies = w.replies

\* The coordinator has gone further in the dialogue than the node that replaces
\* it has learnt.
BlindTakeOver(n) == ~ Similar(View(n), View(Peer(n)))

\* The participant opens the next epoch; the coordinator is idle and fenced.
TakeOver(n) ==
    LET e == epoch[n] IN
    /\ e > 0 /\ e < MaxEpoch /\ Owner(e) # n
    /\ epoch[Peer(n)] = e
    /\ pending[Peer(n)] = <<>>
    /\ View(n).valid
    /\ epoch' = [epoch EXCEPT ![n] = e + 1]
    /\ log' = [log EXCEPT ![n][e + 1] = <<Changed>>]
    /\ strayed' = (strayed \/ BlindTakeOver(n))
    /\ UNCHANGED <<pending, lapsed, recovery>>

Next ==
    \/ Create
    \/ \E n \in Node : Claim(n)
    \/ \E n \in Node : Reply(n)
    \/ \E n \in Node : Write(n)
    \/ \E n \in Node : Crash(n)
    \/ \E n \in Node : Lapse(n)
    \/ \E n \in Node : RecoverRead(n)
    \/ \E n \in Node : RecoverWrite(n)
    \/ \E n \in Node : Learn(n)
    \/ \E n \in Node : TakeOver(n)

Spec == Init /\ [][Next]_dialogueVars

-----------------------------------------------------------------------------
(* Properties.                                                              *)

Turns == [by : Node, round : 1..MaxRounds, slot : 0..2]
Id == Node \X Nat
Event ==
    [type : {"created", "changed", "rejected"}]
    \cup [type : {"opened"}, id : Id, turn : Turns]
    \cup [type : {"claimed"}, id : Id]
    \cup [type : {"recorded"}, id : Id, turn : Turns, result : Result]
    \cup [type : {"proposed"}, turn : Turns]
    \cup [type : {"ended"}, status : {"completed", "blocked", "error"}]

TypeOK ==
    /\ epoch \in [Node -> 0..MaxEpoch]
    /\ lapsed \in [Node -> BOOLEAN]
    /\ log \in [Node -> [Epoch -> Seq(Event)]]
    /\ pending \in [Node -> Seq(Event)]
    /\ recovery \in [Node -> {<<>>} \cup (Epoch \X Event)]
    /\ strayed \in BOOLEAN

\* The dialogue-v1 protocol, as the replies of the log of the node that has
\* gone furthest.
Foremost == IF epoch[B] > epoch[A] THEN B ELSE IF epoch[A] > epoch[B] THEN A
            ELSE Owner(epoch[A])
RepliesIn(evs) ==
    LET upto[i \in 0..Len(evs)] ==
            IF i = 0 THEN <<>>
            ELSE upto[i - 1] \o (IF evs[i].type = "recorded"
                                 THEN <<Answer(evs[i].turn, evs[i].result)>>
                                 ELSE <<>>)
    IN  upto[Len(evs)]
Replies(n) == RepliesIn(History(n))

V1 == INSTANCE DialogueV1 WITH First <- A, Second <- B,
                               replies <- Replies(Foremost)

\* The federated dialogue implements the protocol: through crashes, expired
\* claims, recoveries and changes of coordinator its replies are ones the
\* protocol admits (dialogue.py 360-520, FEDERATED_DIALOGUE.md 71-77), up to the
\* first stale reopening or blind takeover.
ImplementsV1 ==
    V1!Init /\ [][strayed' \/ UNCHANGED Replies(Foremost) \/ V1!Next]_dialogueVars

\* At both nodes and at every prefix of the log, an open turn is the one the
\* replies so far call for, and the dialogue is over only if they end it.
ProjectionFollowsReplies ==
    strayed \/ \A n \in Node :
        LET view == View(n) IN
        /\ (view.status = "active" /\ view.turn # NoTurn) =>
              /\ V1!Outcome(view.replies) = "active"
              /\ view.turn = V1!TurnAfter(view.replies)
        /\ view.status \notin {"unknown", "active"} =>
              view.status = V1!Outcome(view.replies)

\* The projection of a log never fails (dialogue.py 112-117, COORDINATOR_FAILOVER.md
\* 57-59): a log that cannot be projected can neither be read nor written again.
ProjectionNeverFails == \A n \in Node : View(n).valid

\* The behaviours before the first such step, to which a run may keep.
Straight == ~ strayed

\* A bound of the run that reaches the last round: a recovery costs a claim.
Brief ==
    \A n \in Node :
        Len(OfType(n, "claimed")) + Cardinality(Reopenings(n)) <= MaxClaims

\* It fails only after one of the two steps that the code does not rule out: a
\* recovery that reopens a turn which has been answered since it was read
\* (supervisor.py 230-258), or a takeover by a node that has not learnt the
\* dialogue as far as the coordinator had taken it (failover.py 212-253).
FailsOnlyAstray == strayed \/ ProjectionNeverFails

\* A turn is answered at most once, although it may be claimed and opened many
\* times, by recoveries that run beside the node too.
AnsweredOnce ==
    strayed \/ \A n \in Node :
        LET evs == History(n) IN
        \A j \in DOMAIN evs : evs[j].type = "recorded" =>
            \A i \in 1..(j - 1) : evs[i].type = "recorded" => evs[i].id # evs[j].id

\* It is completed only by two replies in a row, one of each node, and ends once.
CompletionIsMutual ==
    strayed \/ \A n \in Node :
        LET evs == History(n)
            replies == Replies(n)
            k == Len(replies) IN
        \A i \in DOMAIN evs : evs[i] = Ended("completed") =>
            /\ \A j \in DOMAIN evs : evs[j].type = "ended" => i = j
            /\ k >= 2
            /\ replies[k].result = "complete" /\ replies[k - 1].result = "complete"
            /\ replies[k].by # replies[k - 1].by

\* Whatever has happened, stale reopenings and blind takeovers included, a
\* coordinator that completes the dialogue holds a reply of each node that says so
\* (dialogue.py 430-470).
NobodyCompletesAlone ==
    \A n \in Node, e \in Epoch : Owner(e) = n =>
        \A i \in DOMAIN log[n][e] : log[n][e][i] = Ended("completed") =>
            \A p \in Node : \E j \in DOMAIN History(n) :
                /\ History(n)[j].type = "recorded" /\ History(n)[j].turn.by = p
                /\ History(n)[j].result = "complete"

\* A recovery reopens the current turn, and only when its claim has expired
\* (docs/LOCAL_SUPERVISOR.md 33).
ReopensExpiredClaim ==
    [][\A n \in Node :
          (recovery[n] # <<>> /\ recovery'[n] = <<>> /\ log'[n] # log[n]) =>
              /\ View(n).turn # NoTurn /\ View(n).claimed /\ lapsed[n]
              /\ View(n).id = recovery[n][2].id]_dialogueVars
=============================================================================
