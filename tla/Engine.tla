------------------------------- MODULE Engine -------------------------------
(***************************************************************************)
(* A standalone conversation between two agents of one server:             *)
(*   services/engine.py    ConversationEngine: create, start, claim, reply *)
(*   services/control.py   cancel_conversation                             *)
(* Every operation is one SQLite transaction (BEGIN IMMEDIATE), so calls   *)
(* interleave but do not overlap.  A claim hands a lease token to whoever  *)
(* called, and any token ever handed out may come back in a late or        *)
(* repeated reply; tokens are random in the code and numbered here.  Time  *)
(* is kept as whether the lease of a turn has run out.  The result         *)
(* needs_human ends a conversation like blocked.                           *)
(***************************************************************************)
EXTENDS Naturals, Sequences

CONSTANTS
    First, Second,  \* the participants, in speaking order
    NoAgent,        \* no supervisor: the turn policy is "alternate"
    MaxRounds,      \* max_rounds of the conversation
    Answers,        \* the results that agents reply with
    MaxClaims       \* bound on the lease tokens handed out for a turn

ASSUME Agents == First # Second /\ NoAgent \notin {First, Second}
ASSUME Limits == /\ MaxRounds \in Nat \ {0}
                 /\ MaxClaims \in Nat \ {0}
                 /\ Answers \subseteq {"continue", "complete", "blocked", "error"}

VARIABLES
    status,         \* conversations.status; "absent" before it is created
    supervisor,     \* supervisor_agent_id
    current,        \* current_turn_id, as a position in turns; 0 for NULL
    proposal,       \* completion_proposal_turn_id; 0 for NULL
    turns,          \* table turns
    messages,       \* table messages: the replies, in the order written
    outbox          \* the row of summary_outbox, and the status it reports

engineVars == <<status, supervisor, current, proposal, turns, messages, outbox>>

Agent == {First, Second}
Other(p) == IF p = First THEN Second ELSE First
Terminal == {"completed", "blocked", "error", "cancelled"}

\* A row of turns.  Slot 0 is the phase completion_confirmation; the lease
\* token is the last of the claims tokens that were handed out.
ReadyTurn(p, r, s) == [by |-> p, round |-> r, slot |-> s,
                       status |-> "ready", claims |-> 0, lapsed |-> FALSE]

NoRow == [status |-> "none", says |-> "none", attempts |-> 0]

Init ==
    /\ status = "absent"
    /\ supervisor = NoAgent
    /\ current = 0 /\ proposal = 0
    /\ turns = <<>> /\ messages = <<>>
    /\ outbox = NoRow

\* create_conversation, with either turn policy and persist_summary on.
CreateConversation ==
    /\ status = "absent"
    /\ status' = "draft"
    /\ supervisor' \in Agent \cup {NoAgent}
    /\ UNCHANGED <<current, proposal, turns, messages, outbox>>

StartConversation ==
    /\ status = "draft"
    /\ turns' = Append(turns, ReadyTurn(First, 1, 1))
    /\ current' = Len(turns) + 1
    /\ status' = "active"
    /\ UNCHANGED <<supervisor, proposal, messages, outbox>>

-----------------------------------------------------------------------------
\* While a lease is alive, a claim hands out the same token again and changes
\* nothing.
Claimable(turn) ==
    turn.status = "ready" \/ (turn.status = "claimed" /\ turn.lapsed)

Claimed(turn) ==
    [by |-> turn.by, round |-> turn.round, slot |-> turn.slot,
     status |-> "claimed", claims |-> turn.claims + 1, lapsed |-> FALSE]

\* claim_turn, by the agent the turn is assigned to.
ClaimTurn(i) ==
    /\ status = "active"
    /\ Claimable(turns[i])
    /\ turns[i].claims < MaxClaims
    /\ turns' = [turns EXCEPT ![i] = Claimed(turns[i])]
    /\ UNCHANGED <<status, supervisor, current, proposal, messages, outbox>>

\* lease_until passes.
LapseLease(i) ==
    /\ turns[i].status = "claimed" /\ ~ turns[i].lapsed
    /\ turns' = [turns EXCEPT ![i].lapsed = TRUE]
    /\ UNCHANGED <<status, supervisor, current, proposal, messages, outbox>>

\* A mutant: the token is not compared with the one handed out last.
MayReplyMutant(turn, token) ==
    turn.status = "claimed" /\ ~ turn.lapsed

\* May the caller that holds this token of the turn answer it?
MayReply(turn, token) ==
    /\ turn.status = "claimed"
    /\ token = turn.claims
    /\ ~ turn.lapsed

Confirming(turn) == turn.slot = 0 /\ proposal # 0

\* Mutants: a round too many; completion by one agent alone.
StatusAfterMutant(turn, result) ==
    LET answered == IF Confirming(turn) THEN turns[proposal] ELSE turn IN
    CASE result \in {"blocked", "error"} -> result
      [] result = "complete" -> IF Confirming(turn) THEN "completed" ELSE "active"
      [] result = "continue" ->
            IF (Confirming(turn) \/ turn.slot = 2) /\ answered.round > MaxRounds
            THEN "blocked" ELSE "active"

UnilateralMutant(turn, result) ==
    CASE result \in {"blocked", "error"} -> result
      [] result = "complete" -> "completed"
      [] result = "continue" ->
            IF turn.slot # 1 /\ turn.round >= MaxRounds THEN "blocked" ELSE "active"

\* The status that a reply gives the conversation.
StatusAfter(turn, result) ==
    LET answered == IF Confirming(turn) THEN turns[proposal] ELSE turn IN
    CASE result \in {"blocked", "error"} -> result
      [] result = "complete" ->
            IF turn.by = supervisor
               \/ (Confirming(turn) /\ turns[proposal].by # turn.by)
            THEN "completed" ELSE "active"
      [] result = "continue" ->
            IF /\ Confirming(turn) \/ turn.slot = 2
               /\ answered.round >= MaxRounds
            THEN "blocked" ELSE "active"

\* Mutants: a declined proposal always gives the turn to the first agent; the
\* confirmation is always asked of the other one.
DeclinedMutant(turn, result) ==
    IF result = "complete"
    THEN {ReadyTurn(IF supervisor = NoAgent THEN Other(turn.by) ELSE supervisor,
                    turn.round, 0)}
    ELSE IF Confirming(turn) THEN {ReadyTurn(First, turns[proposal].round + 1, 1)}
    ELSE IF turn.slot = 1 THEN {ReadyTurn(Second, turn.round, 2)}
    ELSE {ReadyTurn(First, turn.round + 1, 1)}

\* The turns that a reply may open next, when it does not end the conversation:
\* none if the code finds no agent or no position for it and rolls back.
NextTurn(turn, result) ==
    IF result = "complete"
    THEN LET confirmer == IF supervisor = NoAgent THEN Other(turn.by)
                          ELSE supervisor IN
         {ReadyTurn(p, turn.round, 0) : p \in {confirmer} \ {turn.by}}
    ELSE CASE Confirming(turn) ->
                  LET proposed == turns[proposal] IN
                  IF proposed.slot = 1
                  THEN {ReadyTurn(First, proposed.round + 1, 1)}
                  ELSE {ReadyTurn(Second, proposed.round + 1, 2)}
           [] ~ Confirming(turn) /\ turn.slot = 1 -> {ReadyTurn(Second, turn.round, 2)}
           [] ~ Confirming(turn) /\ turn.slot = 2 -> {ReadyTurn(First, turn.round + 1, 1)}
           [] ~ Confirming(turn) /\ turn.slot = 0 -> {}

Reply(i, token, result) ==
    [by |-> turns[i].by, round |-> turns[i].round, slot |-> turns[i].slot,
     result |-> result, turn |-> i, token |-> token]

\* _queue_summary: one row for a conversation.
QueueSummary(says) ==
    outbox' = [status |-> "pending", says |-> says, attempts |-> outbox.attempts]

\* reply_turn, by the agent the turn is assigned to.
ReplyTurn(i, token, result) ==
    LET turn == turns[i]
        after == StatusAfter(turn, result)
        done == [turns EXCEPT ![i].status = "completed"] IN
    /\ status = "active"
    /\ MayReply(turn, token)
    /\ status' = after
    /\ messages' = Append(messages, Reply(i, token, result))
    /\ \/ /\ after \in Terminal
          /\ turns' = done
          /\ current' = 0 /\ proposal' = 0
          /\ QueueSummary(after)
       \/ /\ after = "active"
          /\ \E next \in NextTurn(turn, result) : turns' = Append(done, next)
          /\ current' = Len(turns) + 1
          /\ proposal' = CASE result = "complete" -> i
                           [] result # "complete" /\ Confirming(turn) -> 0
                           [] result # "complete" /\ ~ Confirming(turn) -> proposal
          /\ UNCHANGED outbox
    /\ UNCHANGED supervisor

\* Mutants: the open turn survives; a completed conversation may be cancelled.
OpenTurnMutant ==
    /\ status \notin {"absent", "completed", "cancelled"}
    /\ status' = "cancelled"
    /\ current' = 0
    /\ UNCHANGED <<supervisor, proposal, turns, messages, outbox>>

CancelCompletedMutant ==
    /\ status \notin {"absent", "cancelled"}
    /\ status' = "cancelled"
    /\ current' = 0
    /\ turns' = [i \in DOMAIN turns |->
                    IF i = current THEN [turns[i] EXCEPT !.status = "cancelled"]
                    ELSE turns[i]]
    /\ UNCHANGED <<supervisor, proposal, messages, outbox>>

\* cancel_conversation, by its creator or an admin; a conversation that ended
\* as blocked or error may still be cancelled.
CancelConversation ==
    /\ status \notin {"absent", "completed", "cancelled"}
    /\ status' = "cancelled"
    /\ current' = 0
    /\ turns' = [i \in DOMAIN turns |->
                    IF i = current THEN [turns[i] EXCEPT !.status = "cancelled"]
                    ELSE turns[i]]
    /\ UNCHANGED <<supervisor, proposal, messages, outbox>>

EngineNext ==
    \/ CreateConversation
    \/ StartConversation
    \/ \E i \in DOMAIN turns : ClaimTurn(i)
    \/ \E i \in DOMAIN turns : LapseLease(i)
    \/ \E i \in DOMAIN turns, result \in Answers :
          \E token \in 1..turns[i].claims : ReplyTurn(i, token, result)
    \/ CancelConversation

-----------------------------------------------------------------------------
(* Properties.                                                              *)

Position == 0..2 * MaxRounds + 1

TurnRecord == [by : Agent, round : 1..MaxRounds, slot : 0..2,
               status : {"ready", "claimed", "completed", "cancelled"},
               claims : 0..MaxClaims, lapsed : BOOLEAN]

EngineTypeOK ==
    /\ status \in {"absent", "draft", "active"} \cup Terminal
    /\ supervisor \in Agent \cup {NoAgent}
    /\ current \in Position /\ proposal \in Position
    /\ current <= Len(turns) /\ proposal <= Len(turns)
    /\ Len(turns) \in Position /\ Len(messages) <= Len(turns)
    /\ \A i \in DOMAIN turns : turns[i] \in TurnRecord
    /\ outbox.status \in {"none", "pending", "failed", "stored"}

\* A conversation has one open turn while it is active and none otherwise, and
\* it is the current one: whatever the order of claims, expiries, replies and
\* cancellations, never can both agents answer (engine.py 500-742, control.py).
OneOpenTurn ==
    LET open == {i \in DOMAIN turns : turns[i].status \in {"ready", "claimed"}} IN
    open = IF status = "active" THEN {current} ELSE {}

\* Every turn that was completed was answered by one message, of the last caller
\* that claimed it: a late reply of an earlier claim, or a repeated one, is never
\* recorded (engine.py 563-588).
AnsweredByLastClaim ==
    /\ \A m \in DOMAIN messages :
          LET turn == turns[messages[m].turn] IN
          turn.status = "completed" /\ messages[m].token = turn.claims
    /\ \A i \in DOMAIN turns :
          turns[i].status = "completed" =>
              \E m \in DOMAIN messages :
                  /\ messages[m].turn = i
                  /\ \A k \in DOMAIN messages : messages[k].turn = i => k = m

\* The replies, as the dialogue-v1 protocol sees them.
Replies == [m \in DOMAIN messages |->
    [by |-> messages[m].by, round |-> messages[m].round,
     slot |-> messages[m].slot, result |-> messages[m].result]]

V1 == INSTANCE DialogueV1 WITH replies <- IF supervisor = NoAgent THEN Replies
                                          ELSE <<>>

\* With alternating turns, the replies are ones the protocol admits.
ImplementsV1 == V1!Spec

\* With alternating turns, the tables say what the protocol makes of the
\* replies: whose turn it is, or how the conversation ended, unless it was
\* cancelled; with a supervisor, no confirmation is asked of anyone else.
TablesFollowReplies ==
    /\ (supervisor = NoAgent /\ status = "active") =>
          /\ V1!Outcome(Replies) = "active"
          /\ LET turn == turns[current] IN
             [by |-> turn.by, round |-> turn.round, slot |-> turn.slot]
                 = V1!TurnAfter(Replies)
    /\ (supervisor = NoAgent /\ status \in Terminal \ {"cancelled"}) =>
          status = V1!Outcome(Replies)
    /\ supervisor # NoAgent =>
          \A i \in DOMAIN turns : turns[i].slot = 0 => turns[i].by = supervisor

\* A conversation is completed only by its supervisor, or by an agent that
\* confirms what the other one has just proposed (engine.py 627-633).
CompletionIsConsented ==
    LET k == Len(messages) IN
    status = "completed" =>
        /\ k > 0 /\ messages[k].result = "complete"
        /\ \/ messages[k].by = supervisor
           \/ /\ supervisor = NoAgent /\ k > 1
              /\ messages[k - 1].result = "complete"
              /\ messages[k - 1].by # messages[k].by
=============================================================================
