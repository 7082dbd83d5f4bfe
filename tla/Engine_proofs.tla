--------------------------- MODULE Engine_proofs ---------------------------
(***************************************************************************)
(* The standalone conversation and the delivery of its summary, for any    *)
(* number of rounds, claims, attempts and cut passes.  Messages and turns  *)
(* run in parallel: message m answers turn m, and while the conversation   *)
(* is active there is one turn more, the current one.  What remains is to  *)
(* see that the turn a reply opens is the one the protocol calls for.      *)
(***************************************************************************)
EXTENDS SummaryOutbox, SequenceTheorems, TLAPS

Message == [by : Agent, round : 1..MaxRounds, slot : 0..2, result : Answers,
            turn : Nat, token : Nat]

Ended == {"completed", "blocked", "error"}

\* The parts of the inductive invariant of the engine.
Tables ==
    /\ status \in {"absent", "draft", "active"} \cup Terminal
    /\ supervisor \in Agent \cup {NoAgent}
    /\ turns \in Seq(TurnRecord) /\ messages \in Seq(Message)
    /\ current \in Nat /\ proposal \in Nat
    /\ proposal <= Len(turns)

\* Message m is the answer to turn m by its last claimer.
Recorded ==
    /\ Len(messages) <= Len(turns)
    /\ \A m \in 1..Len(messages) :
          /\ turns[m].status = "completed"
          /\ messages[m].turn = m /\ messages[m].token = turns[m].claims
          /\ messages[m].by = turns[m].by /\ messages[m].round = turns[m].round
          /\ messages[m].slot = turns[m].slot

\* At most one turn has no message: the open one, or one that was cancelled.
AtMostOneOpen ==
    /\ Len(turns) <= Len(messages) + 1
    /\ status \in {"absent", "draft"} => turns = <<>>
    /\ status = "active" =>
          /\ Len(turns) = Len(messages) + 1 /\ current = Len(turns)
          /\ turns[current].status \in {"ready", "claimed"}
    /\ status # "active" =>
          /\ current = 0
          /\ Len(turns) # Len(messages) => turns[Len(turns)].status = "cancelled"

\* A turn of slot 0 puts the last reply, a proposal, to whoever must agree.
ConfirmsLastReply ==
    status = "active" =>
        IF turns[current].slot = 0
        THEN /\ proposal = Len(messages) /\ proposal # 0
             /\ messages[proposal].result = "complete"
             /\ turns[proposal].slot # 0
             /\ turns[proposal].round = turns[current].round
             /\ turns[proposal].by # turns[current].by
             /\ supervisor # NoAgent => turns[current].by = supervisor
        ELSE proposal = 0

\* The last position that a turn of its round and slot can have: a declined
\* proposal takes a position of its own, and saves the slot it stands for.
LatestPosition(turn) ==
    IF turn.slot = 0 THEN 2 * turn.round + 1 ELSE 2 * (turn.round - 1) + turn.slot
Schedule ==
    \A i \in 1..Len(turns) : i <= LatestPosition(turns[i])

EngineInv ==
    /\ Tables /\ Recorded /\ AtMostOneOpen /\ ConfirmsLastReply /\ Schedule
    /\ TablesFollowReplies /\ CompletionIsConsented

conversationVars == <<status, supervisor, current, proposal, turns, messages>>

-----------------------------------------------------------------------------
(* The definitions by cases, one case at a time.                            *)

LEMMA StatusAfterEnding ==
    ASSUME NEW turn, NEW result \in {"blocked", "error"}
    PROVE  StatusAfter(turn, result) = result
BY Zenon DEF StatusAfter

LEMMA StatusAfterComplete ==
    ASSUME NEW turn
    PROVE  StatusAfter(turn, "complete") =
               IF turn.by = supervisor
                  \/ (Confirming(turn) /\ turns[proposal].by # turn.by)
               THEN "completed" ELSE "active"
BY Zenon DEF StatusAfter

LEMMA StatusAfterContinue ==
    ASSUME NEW turn
    PROVE  StatusAfter(turn, "continue") =
               IF /\ Confirming(turn) \/ turn.slot = 2
                  /\ (IF Confirming(turn) THEN turns[proposal] ELSE turn).round
                         >= MaxRounds
               THEN "blocked" ELSE "active"
BY Zenon DEF StatusAfter

LEMMA NextDeclined ==
    ASSUME NEW turn, Confirming(turn)
    PROVE  NextTurn(turn, "continue") =
               IF turns[proposal].slot = 1
               THEN {ReadyTurn(First, turns[proposal].round + 1, 1)}
               ELSE {ReadyTurn(Second, turns[proposal].round + 1, 2)}
BY Zenon DEF NextTurn

LEMMA NextRegular ==
    ASSUME NEW turn, ~ Confirming(turn)
    PROVE  /\ turn.slot = 1 =>
                 NextTurn(turn, "continue") = {ReadyTurn(Second, turn.round, 2)}
           /\ turn.slot = 2 =>
                 NextTurn(turn, "continue") = {ReadyTurn(First, turn.round + 1, 1)}
<1>1. 1 # 2 /\ 1 # 0 /\ 2 # 0
  OBVIOUS
<1>. QED BY <1>1, Zenon DEF NextTurn

LEMMA NextComplete ==
    ASSUME NEW turn, NEW next \in NextTurn(turn, "complete")
    PROVE  \E p : /\ next = ReadyTurn(p, turn.round, 0) /\ p # turn.by
                 /\ p = IF supervisor = NoAgent THEN Other(turn.by) ELSE supervisor
BY Zenon DEF NextTurn

\* The protocol's outcome and next turn of a dialogue with replies.
LEMMA OutcomeCases ==
    ASSUME NEW h, h # <<>>
    PROVE  LET last == V1!Last(h) IN
           /\ last.result \in {"blocked", "error"} => V1!Outcome(h) = last.result
           /\ last.result = "complete" =>
                 V1!Outcome(h) = IF last.slot = 0 THEN "completed" ELSE "active"
           /\ last.result = "continue" =>
                 V1!Outcome(h) = IF last.slot # 1 /\ V1!Answered(h).round >= MaxRounds
                                 THEN "blocked" ELSE "active"
<1>. DEFINE last == V1!Last(h)
<1>1. last.result = "complete" =>
          V1!Outcome(h) = IF last.slot = 0 THEN "completed" ELSE "active"
  BY Zenon DEF V1!Outcome
<1>2. last.result = "continue" =>
          V1!Outcome(h) = IF last.slot # 1 /\ V1!Answered(h).round >= MaxRounds
                          THEN "blocked" ELSE "active"
  BY Zenon DEF V1!Outcome
<1>3. last.result \in {"blocked", "error"} => V1!Outcome(h) = last.result
  BY Zenon DEF V1!Outcome
<1>. QED BY <1>1, <1>2, <1>3

LEMMA TurnAfterCases ==
    ASSUME NEW h, h # <<>>
    PROVE  LET last == V1!Last(h)
               r == V1!Answered(h).round
               s == V1!Answered(h).slot
           IN  IF last.result = "complete"
               THEN V1!TurnAfter(h) = V1!Turn(V1!Other(last.by), r, 0)
               ELSE /\ last.slot = 1 => V1!TurnAfter(h) = V1!Turn(Second, r, 2)
                    /\ last.slot = 2 => V1!TurnAfter(h) = V1!Turn(First, r + 1, 1)
                    /\ (last.slot = 0 /\ s = 1) =>
                          V1!TurnAfter(h) = V1!Turn(First, r + 1, 1)
                    /\ (last.slot = 0 /\ s = 2) =>
                          V1!TurnAfter(h) = V1!Turn(Second, r + 1, 2)
<1>1. 1 # 2 /\ 1 # 0 /\ 2 # 0
  OBVIOUS
<1>2. CASE V1!Last(h).result = "complete"
  BY <1>2, Zenon DEF V1!TurnAfter
<1>3. CASE V1!Last(h).result # "complete"
  <2>1. CASE V1!Last(h).slot = 1
    BY <1>1, <1>3, <2>1, Zenon DEF V1!TurnAfter
  <2>2. CASE V1!Last(h).slot = 2
    BY <1>1, <1>3, <2>2, Zenon DEF V1!TurnAfter
  <2>3. CASE V1!Last(h).slot = 0
    BY <1>1, <1>3, <2>3, Zenon DEF V1!TurnAfter
  <2>. QED BY <1>3, <2>1, <2>2, <2>3, Zenon
<1>. QED BY <1>2, <1>3, Zenon

-----------------------------------------------------------------------------
(* The turn that a reply opens.                                             *)

LEMMA AgentFacts ==
    /\ First \in Agent /\ Second \in Agent /\ First # Second
    /\ NoAgent \notin Agent
    /\ \A p \in Agent : /\ Other(p) \in Agent /\ Other(p) # p
                        /\ \A q \in Agent : q # p => q = Other(p)
                        /\ V1!Other(p) = Other(p)
BY Agents DEF Agent, Other, V1!Other

LEMMA ReadyTurnType ==
    ASSUME NEW p \in Agent, NEW r \in 1..MaxRounds, NEW s \in 0..2
    PROVE  /\ ReadyTurn(p, r, s) \in TurnRecord
           /\ ReadyTurn(p, r, s).by = p /\ ReadyTurn(p, r, s).round = r
           /\ ReadyTurn(p, r, s).slot = s /\ ReadyTurn(p, r, s).status = "ready"
           /\ ReadyTurn(p, r, s).claims = 0
BY Limits DEF ReadyTurn, TurnRecord

\* A turn whose status alone is changed.
WithStatus(turn, to) == [turn EXCEPT !.status = to]

LEMMA StatusChanged ==
    ASSUME NEW turn \in TurnRecord, NEW to \in {"completed", "cancelled"}
    PROVE  /\ WithStatus(turn, to) \in TurnRecord
           /\ WithStatus(turn, to).status = to
           /\ WithStatus(turn, to).by = turn.by
           /\ WithStatus(turn, to).round = turn.round
           /\ WithStatus(turn, to).slot = turn.slot
           /\ WithStatus(turn, to).claims = turn.claims
BY DEF WithStatus, TurnRecord

\* What the invariant says of the turn that is answered.
LEMMA Current ==
    ASSUME EngineInv, status = "active"
    PROVE  /\ current = Len(turns) /\ current \in 1..Len(turns)
           /\ current = Len(messages) + 1
           /\ turns[current] \in TurnRecord
           /\ turns[current].by \in Agent /\ turns[current].slot \in 0..2
           /\ turns[current].round \in 1..MaxRounds
           /\ Confirming(turns[current]) <=> turns[current].slot = 0
           /\ turns[current].slot = 0 =>
                 /\ proposal \in 1..Len(turns) /\ proposal = current - 1
                 /\ turns[proposal] \in TurnRecord
                 /\ turns[proposal].slot \in {1, 2}
                 /\ turns[proposal].by \in Agent
                 /\ turns[proposal].round \in 1..MaxRounds
<1>1. current = Len(turns) /\ current \in 1..Len(turns) /\ current = Len(messages) + 1
  BY DEF EngineInv, AtMostOneOpen, Tables
<1>2. turns[current] \in TurnRecord
  BY <1>1, ElementOfSeq DEF EngineInv, Tables
<1>3. turns[current].by \in Agent /\ turns[current].slot \in 0..2
      /\ turns[current].round \in 1..MaxRounds
  BY <1>2 DEF TurnRecord
<1>4. Confirming(turns[current]) <=> turns[current].slot = 0
  BY DEF EngineInv, ConfirmsLastReply, Confirming
<1>5. ASSUME turns[current].slot = 0
      PROVE  /\ proposal \in 1..Len(turns) /\ proposal = current - 1
             /\ turns[proposal] \in TurnRecord
             /\ turns[proposal].slot \in {1, 2}
             /\ turns[proposal].by \in Agent
             /\ turns[proposal].round \in 1..MaxRounds
  <2>1. proposal \in 1..Len(turns) /\ proposal = current - 1
    BY <1>1, <1>5 DEF EngineInv, ConfirmsLastReply, Tables
  <2>2. turns[proposal] \in TurnRecord
    BY <2>1 DEF EngineInv, Tables
  <2>3. turns[proposal].slot # 0
    BY <1>5 DEF EngineInv, ConfirmsLastReply
  <2>. QED BY <2>1, <2>2, <2>3 DEF TurnRecord
<1>. QED BY <1>1, <1>2, <1>3, <1>4, <1>5

\* The turn that a reply opens is the one after its slot, or a confirmation.
LEMMA NextTurnFacts ==
    ASSUME EngineInv, status = "active", NEW result \in Answers,
           StatusAfter(turns[current], result) = "active",
           NEW next \in NextTurn(turns[current], result)
    PROVE  LET turn == turns[current]
               answered == IF turn.slot = 0 THEN turns[proposal] ELSE turn
           IN  /\ next \in TurnRecord
               /\ next.status = "ready" /\ next.claims = 0
               /\ current + 1 <= LatestPosition(next)
               /\ result \in {"continue", "complete"}
               /\ result = "complete" =>
                     /\ turn.slot # 0 /\ next.slot = 0
                     /\ next.round = turn.round /\ next.by # turn.by
                     /\ supervisor # NoAgent => next.by = supervisor
               /\ result = "continue" =>
                     /\ next.slot # 0
                     /\ (turn.slot = 1 \/ (turn.slot = 0 /\ answered.slot = 2)) =>
                           /\ next.by = Second /\ next.slot = 2
                           /\ next.round = IF turn.slot = 1 THEN turn.round
                                          ELSE answered.round + 1
                     /\ (turn.slot = 2 \/ (turn.slot = 0 /\ answered.slot = 1)) =>
                           /\ next.by = First /\ next.slot = 1
                           /\ next.round = answered.round + 1
<1>. DEFINE turn == turns[current]
            answered == IF turn.slot = 0 THEN turns[proposal] ELSE turn
<1>1. /\ turn \in TurnRecord /\ turn.by \in Agent /\ turn.slot \in 0..2
      /\ turn.round \in 1..MaxRounds
      /\ Confirming(turn) <=> turn.slot = 0
      /\ current \in Nat
      /\ turn.slot = 0 => /\ proposal = current - 1
                          /\ answered.slot \in {1, 2} /\ answered.by \in Agent
                          /\ answered.round \in 1..MaxRounds
                          /\ proposal <= LatestPosition(answered)
  BY Current DEF EngineInv, Schedule
<1>2. current <= LatestPosition(turn)
  BY Current DEF EngineInv, Schedule
<1>3. result \in {"continue", "complete"}
  BY Limits, StatusAfterEnding
<1>4. /\ turn.slot = 0 => /\ answered.by # turn.by
                          /\ supervisor # NoAgent => turn.by = supervisor
      /\ answered = IF Confirming(turn) THEN turns[proposal] ELSE turn
  BY <1>1 DEF EngineInv, ConfirmsLastReply
<1>. HIDE DEF turn, answered
<1>5. CASE result = "complete"
  <2>1. turn.slot # 0 /\ turn.by # supervisor
    BY <1>1, <1>4, <1>5, StatusAfterComplete DEF turn, answered
  <2>2. PICK p \in Agent : /\ next = ReadyTurn(p, turn.round, 0) /\ p # turn.by
                           /\ supervisor # NoAgent => p = supervisor
    BY <1>1, <1>5, <2>1, AgentFacts, NextComplete DEF EngineInv, Tables, turn
  <2>3. /\ next \in TurnRecord /\ next.by = p /\ next.round = turn.round
        /\ next.slot = 0 /\ next.status = "ready" /\ next.claims = 0
    BY <2>2, <1>1, ReadyTurnType
  <2>4. current + 1 <= LatestPosition(next)
    BY <2>1, <2>3, <1>1, <1>2, Limits DEF LatestPosition
  <2>. QED BY <2>1, <2>2, <2>3, <2>4, <1>5 DEF turn, answered
<1>6. CASE result = "continue"
  <2>1. (turn.slot # 1) => answered.round + 1 \in 1..MaxRounds
    BY <1>1, <1>4, <1>6, Limits, StatusAfterContinue DEF turn, answered
  <2>2. answered.round \in 1..MaxRounds /\ (turn.slot # 0 => answered = turn)
    BY <1>1 DEF answered
  <2>3. CASE turn.slot = 1 \/ (turn.slot = 0 /\ answered.slot = 2)
    <3>. DEFINE r == IF turn.slot = 1 THEN turn.round ELSE answered.round + 1
    <3>1. next = ReadyTurn(Second, r, 2)
      BY <1>1, <1>4, <1>6, <2>3, NextRegular, NextDeclined DEF turn, answered
    <3>2. r \in 1..MaxRounds
      BY <1>1, <2>1, <2>2, <2>3
    <3>. HIDE DEF r
    <3>3. /\ next \in TurnRecord /\ next.by = Second /\ next.round = r
          /\ next.slot = 2 /\ next.status = "ready" /\ next.claims = 0
      BY <3>1, <3>2, ReadyTurnType, AgentFacts
    <3>4. current + 1 <= LatestPosition(next)
      BY <3>3, <1>1, <1>2, <2>2, <2>3 DEF LatestPosition, r
    <3>. QED BY <3>3, <3>4, <2>3, <1>6 DEF turn, answered, r
  <2>4. CASE turn.slot = 2 \/ (turn.slot = 0 /\ answered.slot = 1)
    <3>. DEFINE r == answered.round + 1
    <3>1. next = ReadyTurn(First, r, 1)
      BY <1>1, <1>4, <1>6, <2>2, <2>4, NextRegular, NextDeclined DEF turn, answered
    <3>2. r \in 1..MaxRounds
      BY <1>1, <2>1, <2>2, <2>4
    <3>. HIDE DEF r
    <3>3. /\ next \in TurnRecord /\ next.by = First /\ next.round = r
          /\ next.slot = 1 /\ next.status = "ready" /\ next.claims = 0
      BY <3>1, <3>2, ReadyTurnType, AgentFacts
    <3>4. current + 1 <= LatestPosition(next)
      BY <3>3, <1>1, <1>2, <2>2, <2>4 DEF LatestPosition, r
    <3>. QED BY <3>3, <3>4, <2>4, <1>6 DEF turn, answered, r
  <2>. QED BY <1>1, <2>3, <2>4
<1>. QED BY <1>3, <1>5, <1>6

-----------------------------------------------------------------------------
(* What a reply does to the tables.                                         *)

\* Only the current turn can be answered, by the token of its last claim.
LEMMA ReplyEffect ==
    ASSUME EngineInv, NEW i \in DOMAIN turns, NEW token, NEW result \in Answers,
           ReplyTurn(i, token, result)
    PROVE  /\ status = "active" /\ i = current
           /\ turns[current].status = "claimed" /\ token = turns[current].claims
           /\ supervisor' = supervisor
           /\ messages' = Append(messages, Reply(current, token, result))
           /\ status' = StatusAfter(turns[current], result)
           /\ LET done == [turns EXCEPT ![current] = WithStatus(turns[current], "completed")] IN
              \/ /\ status' \in Terminal
                 /\ turns' = done /\ current' = 0 /\ proposal' = 0
                 /\ QueueSummary(status')
              \/ /\ status' = "active"
                 /\ \E next \in NextTurn(turns[current], result) :
                       turns' = Append(done, next)
                 /\ current' = Len(turns) + 1
                 /\ proposal' = IF result = "complete" THEN current ELSE 0
                 /\ outbox' = outbox
<1>1. /\ status = "active" /\ turns[i].status = "claimed" /\ token = turns[i].claims
  BY Zenon DEF ReplyTurn, MayReply
<1>2. i = current
  <2>1. i \in 1..Len(turns) /\ ~ (i \in 1..Len(messages))
    BY <1>1 DEF EngineInv, Tables, Recorded
  <2>. QED BY <1>1, <2>1 DEF EngineInv, Tables, AtMostOneOpen
<1>3. ~ Confirming(turns[i]) => proposal = 0
  BY <1>1, <1>2 DEF EngineInv, ConfirmsLastReply, Confirming
<1>4. /\ status' = StatusAfter(turns[i], result)
      /\ messages' = Append(messages, Reply(i, token, result))
      /\ supervisor' = supervisor
      /\ LET done == [turns EXCEPT ![i].status = "completed"] IN
         \/ /\ status' \in Terminal
            /\ turns' = done /\ current' = 0 /\ proposal' = 0
            /\ QueueSummary(status')
         \/ /\ status' = "active"
            /\ \E next \in NextTurn(turns[i], result) : turns' = Append(done, next)
            /\ current' = Len(turns) + 1
            /\ proposal' = IF result = "complete" THEN i ELSE 0
            /\ outbox' = outbox
  BY <1>3, Zenon DEF ReplyTurn
<1>. QED BY <1>1, <1>2, <1>4, Zenon DEF WithStatus


\* The rows after a reply.  The turn it opens, if any, is described by
\* NextTurnFacts.
LEMMA ReplyRows ==
    ASSUME EngineInv, NEW i \in DOMAIN turns, NEW token \in Nat,
           NEW result \in Answers, ReplyTurn(i, token, result)
    PROVE  /\ messages' \in Seq(Message) /\ Len(messages') = current
           /\ \A m \in 1..Len(messages) : messages'[m] = messages[m]
           /\ messages'[current] = Reply(current, token, result)
           /\ turns' \in Seq(TurnRecord)
           /\ Len(turns') = IF status' = "active" THEN current + 1 ELSE current
           /\ \A j \in 1..(current - 1) : turns'[j] = turns[j]
           /\ turns'[current] = WithStatus(turns[current], "completed")
           /\ status' = "active" =>
                 turns'[current + 1] \in NextTurn(turns[current], result)
<1>. DEFINE answered == WithStatus(turns[current], "completed")
            done == [turns EXCEPT ![current] = answered]
<1>1. status = "active"
  BY ReplyEffect
<1>2. /\ current = Len(turns) /\ current \in 1..Len(turns)
      /\ current = Len(messages) + 1 /\ turns[current] \in TurnRecord
      /\ turns \in Seq(TurnRecord) /\ messages \in Seq(Message)
  BY <1>1, Current DEF EngineInv, Tables
<1>. DEFINE turn == turns[current]
<1>3. Reply(current, token, result) \in Message
  <2>1. turn \in TurnRecord /\ current \in Nat
    BY <1>2
  <2>2. turn.by \in Agent /\ turn.round \in 1..MaxRounds /\ turn.slot \in 0..2
    BY <2>1 DEF TurnRecord
  <2>3. Reply(current, token, result) =
            [by |-> turn.by, round |-> turn.round, slot |-> turn.slot,
             result |-> result, turn |-> current, token |-> token]
    BY DEF Reply
  <2>. HIDE DEF turn
  <2>. QED BY <2>1, <2>2, <2>3 DEF Message
<1>4. messages' = Append(messages, Reply(current, token, result))
  BY ReplyEffect
<1>5. /\ messages' \in Seq(Message) /\ Len(messages') = current
      /\ \A m \in 1..Len(messages) : messages'[m] = messages[m]
      /\ messages'[current] = Reply(current, token, result)
  BY <1>2, <1>3, <1>4, AppendProperties
<1>6. /\ done \in Seq(TurnRecord) /\ Len(done) = Len(turns)
      /\ \A j \in 1..(current - 1) : done[j] = turns[j]
      /\ done[current] = answered
  <2>1. answered \in TurnRecord
    BY <1>2, StatusChanged
  <2>2. current \in 1..Len(turns) /\ turns \in Seq(TurnRecord)
    BY <1>2
  <2>. HIDE DEF answered
  <2>3. /\ done \in Seq(TurnRecord) /\ Len(done) = Len(turns)
        /\ \A j \in 1..Len(turns) :
              done[j] = IF j = current THEN answered ELSE turns[j]
    BY <2>1, <2>2, ExceptSeq
  <2>4. \A j \in 1..(current - 1) : j \in 1..Len(turns) /\ j # current
    BY <1>2
  <2>. QED BY <2>2, <2>3, <2>4
<1>7. \/ /\ status' \in Terminal /\ turns' = done
      \/ /\ status' = "active"
         /\ \E next \in NextTurn(turns[current], result) : turns' = Append(done, next)
  BY ReplyEffect
<1>. HIDE DEF done, answered
<1>9. CASE status' # "active"
  <2>1. turns' = done
    BY <1>7, <1>9
  <2>. QED BY <1>2, <1>5, <1>6, <1>9, <2>1 DEF answered
<1>8. CASE status' = "active"
  <2>1. PICK next \in NextTurn(turns[current], result) : turns' = Append(done, next)
    BY <1>7, <1>8 DEF Terminal
  <2>2. next \in TurnRecord
    BY <1>1, <1>8, ReplyEffect, NextTurnFacts
  <2>3. /\ turns' \in Seq(TurnRecord) /\ Len(turns') = current + 1
        /\ \A j \in 1..current : turns'[j] = done[j]
        /\ turns'[current + 1] = next
    BY <1>2, <1>6, <2>1, <2>2, AppendProperties
  <2>4. \A j \in 1..(current - 1) : j \in 1..current
    BY <1>2
  <2>5. current \in 1..current
    BY <1>2
  <2>. QED BY <1>2, <1>5, <1>6, <1>8, <2>1, <2>3, <2>4, <2>5 DEF answered
<1>. QED BY <1>8, <1>9

LEMMA ReplyTables ==
    ASSUME EngineInv, NEW i \in DOMAIN turns, NEW token \in Nat,
           NEW result \in Answers, ReplyTurn(i, token, result)
    PROVE  Tables' /\ Recorded' /\ AtMostOneOpen' /\ Schedule'
<1>1. /\ status = "active"
      /\ current = Len(turns) /\ current \in 1..Len(turns)
      /\ current = Len(messages) + 1 /\ turns[current] \in TurnRecord
      /\ token = turns[current].claims
  BY ReplyEffect, Current
<1>2. status' \in Terminal \cup {"active"} /\ (status' = "active" => status' \notin Terminal)
  BY ReplyEffect DEF Terminal
<1>3. Tables'
  <2>1. /\ current' \in Nat /\ proposal' \in Nat
        /\ proposal' <= Len(turns') /\ supervisor' = supervisor
    BY <1>1, ReplyEffect, ReplyRows
  <2>. QED BY <1>2, <2>1, ReplyRows DEF Tables, EngineInv
<1>4. /\ turns'[current].status = "completed"
      /\ turns'[current].by = turns[current].by
      /\ turns'[current].round = turns[current].round
      /\ turns'[current].slot = turns[current].slot
      /\ turns'[current].claims = turns[current].claims
  BY <1>1, ReplyRows, StatusChanged
<1>5. Recorded'
  <2>1. Len(messages') <= Len(turns')
    BY <1>1, ReplyRows
  <2>2. ASSUME NEW m \in 1..Len(messages')
        PROVE  /\ turns'[m].status = "completed"
               /\ messages'[m].turn = m /\ messages'[m].token = turns'[m].claims
               /\ messages'[m].by = turns'[m].by /\ messages'[m].round = turns'[m].round
               /\ messages'[m].slot = turns'[m].slot
    <3>1. CASE m = current
      <4>1. messages'[m] = Reply(current, token, result)
        BY <3>1, ReplyRows
      <4>. QED BY <1>1, <1>4, <3>1, <4>1 DEF Reply
    <3>2. CASE m # current
      <4>1. m \in 1..Len(messages) /\ m \in 1..(current - 1)
        BY <1>1, <3>2, ReplyRows
      <4>2. messages'[m] = messages[m] /\ turns'[m] = turns[m]
        BY <4>1, ReplyRows
      <4>. QED BY <4>1, <4>2 DEF EngineInv, Recorded
    <3>. QED BY <3>1, <3>2
  <2>. QED BY <2>1, <2>2 DEF Recorded
<1>6. status' = "active" =>
          /\ turns'[current + 1].status = "ready"
          /\ current + 1 <= LatestPosition(turns'[current + 1])
  BY <1>1, ReplyEffect, ReplyRows, NextTurnFacts
<1>7. AtMostOneOpen'
  <2>1. status' # "active" => current' = 0
    BY <1>2, ReplyEffect
  <2>2. status' = "active" => current' = current + 1
    BY <1>1, <1>2, ReplyEffect
  <2>. QED BY <1>1, <1>2, <1>6, <2>1, <2>2, ReplyRows DEF AtMostOneOpen, Terminal
<1>8. Schedule'
  <2>. SUFFICES ASSUME NEW j \in 1..Len(turns')
                PROVE  j <= LatestPosition(turns'[j])
    BY DEF Schedule, LatestPosition
  <2>1. CASE j = current
    <3>1. LatestPosition(turns'[current]) = LatestPosition(turns[current])
      BY <1>4 DEF LatestPosition
    <3>. QED BY <1>1, <2>1, <3>1 DEF EngineInv, Schedule
  <2>2. CASE j \in 1..(current - 1)
    <3>1. turns'[j] = turns[j] /\ j \in 1..Len(turns)
      BY <1>1, <2>2, ReplyRows
    <3>. QED BY <3>1 DEF EngineInv, Schedule
  <2>3. CASE j \notin 1..current
    <3>1. status' = "active" /\ j = current + 1
      BY <1>1, <2>3, ReplyRows
    <3>. QED BY <1>6, <3>1
  <2>. QED BY <1>1, <2>1, <2>2, <2>3
<1>. QED BY <1>3, <1>5, <1>7, <1>8

-----------------------------------------------------------------------------
(* The reply, as the protocol sees it.                                      *)

ProtocolReply == [by : Agent, round : 1..MaxRounds, slot : 0..2, result : Answers]

AsReplies(rows) == [m \in DOMAIN rows |->
    [by |-> rows[m].by, round |-> rows[m].round,
     slot |-> rows[m].slot, result |-> rows[m].result]]

LEMMA RepliesOfRows ==
    ASSUME NEW rows \in Seq(Message)
    PROVE  /\ AsReplies(rows) \in Seq(ProtocolReply)
           /\ Len(AsReplies(rows)) = Len(rows)
           /\ \A m \in 1..Len(rows) :
                 /\ AsReplies(rows)[m].by = rows[m].by
                 /\ AsReplies(rows)[m].round = rows[m].round
                 /\ AsReplies(rows)[m].slot = rows[m].slot
                 /\ AsReplies(rows)[m].result = rows[m].result
<1>1. Len(rows) \in Nat /\ DOMAIN rows = 1..Len(rows)
  OBVIOUS
<1>2. \A m \in 1..Len(rows) :
          [by |-> rows[m].by, round |-> rows[m].round,
           slot |-> rows[m].slot, result |-> rows[m].result] \in ProtocolReply
  <2>. SUFFICES ASSUME NEW m \in 1..Len(rows)
                PROVE  /\ rows[m].by \in Agent /\ rows[m].round \in 1..MaxRounds
                       /\ rows[m].slot \in 0..2 /\ rows[m].result \in Answers
    BY DEF ProtocolReply
  <2>1. rows[m] \in Message
    BY ElementOfSeq
  <2>. QED BY <2>1 DEF Message
<1>3. AsReplies(rows) \in [1..Len(rows) -> ProtocolReply]
  BY <1>1, <1>2 DEF AsReplies
<1>4. AsReplies(rows) \in Seq(ProtocolReply) /\ Len(AsReplies(rows)) = Len(rows)
  BY <1>1, <1>3
<1>. QED BY <1>1, <1>4 DEF AsReplies

\* What the last reply says, and which regular turn it stands for.
LEMMA ReplyLast ==
    ASSUME EngineInv, NEW i \in DOMAIN turns, NEW token \in Nat,
           NEW result \in Answers, ReplyTurn(i, token, result)
    PROVE  LET h == AsReplies(messages')
               turn == turns[current]
           IN  /\ h # <<>>
               /\ V1!Last(h).result = result /\ V1!Last(h).by = turn.by
               /\ V1!Last(h).slot = turn.slot /\ V1!Last(h).round = turn.round
               /\ IF turn.slot = 0
                  THEN /\ V1!Answered(h).round = turns[proposal].round
                       /\ V1!Answered(h).slot = turns[proposal].slot
                  ELSE V1!Answered(h).round = turn.round
<1>. DEFINE h == AsReplies(messages')
            turn == turns[current]
<1>1. /\ current = Len(messages) + 1 /\ Len(messages) \in Nat
      /\ messages' \in Seq(Message) /\ Len(messages') = current
      /\ turn.slot = 0 => proposal = current - 1 /\ proposal \in 1..Len(messages)
  <2>1. status = "active"
    BY ReplyEffect
  <2>2. messages \in Seq(Message)
    BY DEF EngineInv, Tables
  <2>. QED BY <2>1, <2>2, Current, ReplyRows DEF EngineInv, ConfirmsLastReply
<1>2. current \in 1..Len(messages') /\ Len(h) = current /\ h \in Seq(ProtocolReply)
  BY <1>1, RepliesOfRows
<1>3. h # <<>>
  BY <1>1, <1>2
<1>4. /\ h[current].by = turn.by /\ h[current].round = turn.round
      /\ h[current].slot = turn.slot /\ h[current].result = result
  <2>1. messages'[current] = Reply(current, token, result)
    BY ReplyRows
  <2>2. /\ messages'[current].by = turn.by /\ messages'[current].round = turn.round
        /\ messages'[current].slot = turn.slot /\ messages'[current].result = result
    BY <2>1 DEF Reply
  <2>. HIDE DEF h, turn
  <2>. QED BY <1>1, <1>2, <2>2, RepliesOfRows DEF h
<1>5. ASSUME turn.slot = 0
      PROVE  /\ h[current - 1].round = turns[proposal].round
             /\ h[current - 1].slot = turns[proposal].slot
  <2>1. proposal \in 1..Len(messages) /\ proposal = current - 1
        /\ proposal \in 1..Len(messages')
    BY <1>1, <1>5
  <2>2. messages'[proposal] = messages[proposal]
    BY <2>1, ReplyRows
  <2>3. /\ messages[proposal].round = turns[proposal].round
        /\ messages[proposal].slot = turns[proposal].slot
    BY <2>1 DEF EngineInv, Recorded
  <2>4. /\ h[proposal].round = messages'[proposal].round
        /\ h[proposal].slot = messages'[proposal].slot
    BY <1>1, <2>1, RepliesOfRows
  <2>. QED BY <2>1, <2>2, <2>3, <2>4
<1>. HIDE DEF h, turn
<1>6. V1!Last(h) = h[current]
  BY <1>2 DEF V1!Last
<1>7. V1!Answered(h) = IF turn.slot = 0 THEN h[current - 1] ELSE h[current]
  BY <1>2, <1>4, <1>6 DEF V1!Answered
<1>. QED BY <1>3, <1>4, <1>5, <1>6, <1>7 DEF h, turn

\* The status a reply gives is the outcome the protocol sees, when there is no
\* supervisor.
LEMMA ReplyOutcome ==
    ASSUME EngineInv, NEW i \in DOMAIN turns, NEW token \in Nat,
           NEW result \in Answers, ReplyTurn(i, token, result),
           supervisor = NoAgent
    PROVE  V1!Outcome(AsReplies(messages')) = status'
<1>. DEFINE h == AsReplies(messages')
            turn == turns[current]
<1>1. /\ h # <<>> /\ V1!Last(h).result = result /\ V1!Last(h).slot = turn.slot
      /\ V1!Answered(h).round =
            IF turn.slot = 0 THEN turns[proposal].round ELSE turn.round
  BY ReplyLast
<1>2. /\ status = "active" /\ status' = StatusAfter(turn, result)
      /\ Confirming(turn) <=> turn.slot = 0
      /\ turn.slot \in 0..2 /\ turn.by # supervisor
      /\ turn.slot = 0 => turns[proposal].by # turn.by
  BY ReplyEffect, Current, AgentFacts DEF EngineInv, ConfirmsLastReply
<1>3. result \in {"continue", "complete", "blocked", "error"}
  BY Limits
<1>. HIDE DEF h, turn
<1>4. CASE result \in {"blocked", "error"}
  BY <1>1, <1>2, <1>4, OutcomeCases, StatusAfterEnding DEF h
<1>5. CASE result = "complete"
  <2>1. V1!Outcome(h) = IF turn.slot = 0 THEN "completed" ELSE "active"
    BY <1>1, <1>5, OutcomeCases
  <2>2. StatusAfter(turn, result) = IF turn.slot = 0 THEN "completed" ELSE "active"
    BY <1>2, <1>5, StatusAfterComplete
  <2>. QED BY <1>2, <2>1, <2>2 DEF h
<1>6. CASE result = "continue"
  <2>. DEFINE r == IF turn.slot = 0 THEN turns[proposal].round ELSE turn.round
  <2>1. V1!Outcome(h) = IF turn.slot # 1 /\ r >= MaxRounds THEN "blocked" ELSE "active"
    BY <1>1, <1>6, OutcomeCases
  <2>2. StatusAfter(turn, result) =
            IF turn.slot # 1 /\ r >= MaxRounds THEN "blocked" ELSE "active"
    BY <1>2, <1>6, StatusAfterContinue
  <2>. QED BY <1>2, <2>1, <2>2 DEF h
<1>. QED BY <1>3, <1>4, <1>5, <1>6

LEMMA ReplyConfirms ==
    ASSUME EngineInv, NEW i \in DOMAIN turns, NEW token \in Nat,
           NEW result \in Answers, ReplyTurn(i, token, result)
    PROVE  ConfirmsLastReply' /\ CompletionIsConsented'
<1>. DEFINE turn == turns[current]
<1>1. /\ status = "active" /\ status' = StatusAfter(turn, result)
      /\ supervisor' = supervisor
      /\ Confirming(turn) <=> turn.slot = 0
      /\ turn \in TurnRecord
      /\ current \in Nat /\ current = Len(messages) + 1 /\ Len(messages) \in Nat
      /\ Len(messages') = current
      /\ turn.slot = 0 => /\ proposal = current - 1 /\ proposal \in 1..Len(messages)
                          /\ turns[proposal].by # turn.by
                          /\ messages[proposal].result = "complete"
                          /\ supervisor # NoAgent => turn.by = supervisor
  <2>1. status = "active"
    BY ReplyEffect
  <2>2. messages \in Seq(Message)
    BY DEF EngineInv, Tables
  <2>. QED BY <2>1, <2>2, ReplyEffect, ReplyRows, Current
           DEF EngineInv, ConfirmsLastReply
<1>2. messages'[current].result = result /\ messages'[current].by = turn.by
  <2>1. messages'[current] = Reply(current, token, result)
    BY ReplyRows
  <2>. QED BY <2>1 DEF Reply
<1>3. result \in {"continue", "complete", "blocked", "error"}
  BY Limits
<1>4. ConfirmsLastReply'
  <2>. SUFFICES ASSUME status' = "active"
                PROVE  ConfirmsLastReply'
    BY DEF ConfirmsLastReply
  <2>. DEFINE next == turns'[current + 1]
  <2>1. next \in NextTurn(turn, result)
    BY ReplyRows
  <2>2. /\ result \in {"continue", "complete"}
        /\ result = "complete" => /\ turn.slot # 0 /\ next.slot = 0
                                  /\ next.round = turn.round /\ next.by # turn.by
                                  /\ supervisor # NoAgent => next.by = supervisor
        /\ result = "continue" => next.slot # 0
    <3>. HIDE DEF next
    <3>. QED BY <1>1, <2>1, NextTurnFacts
  <2>3. current' = current + 1 /\ proposal' = IF result = "complete" THEN current ELSE 0
    <3>1. status' # "completed" /\ status' \notin Terminal
      BY DEF Terminal
    <3>2. current' = Len(turns) + 1 /\ Len(turns) = current
      BY <1>1, <3>1, ReplyEffect, Current
    <3>. QED BY <3>1, <3>2, ReplyEffect
  <2>4. /\ turns'[current].slot = turn.slot /\ turns'[current].round = turn.round
        /\ turns'[current].by = turn.by
    BY <1>1, ReplyRows, StatusChanged
  <2>. HIDE DEF next, turn
  <2>5. CASE result = "complete"
    BY <1>1, <1>2, <2>2, <2>3, <2>4, <2>5 DEF ConfirmsLastReply, next
  <2>6. CASE result = "continue"
    BY <1>1, <2>2, <2>3, <2>6 DEF ConfirmsLastReply, next
  <2>. QED BY <2>2, <2>5, <2>6
<1>5. CompletionIsConsented'
  <2>. SUFFICES ASSUME status' = "completed"
                PROVE  CompletionIsConsented'
    BY DEF CompletionIsConsented
  <2>. HIDE DEF turn
  <2>1. /\ result = "complete"
        /\ turn.by = supervisor \/ turn.slot = 0
    BY <1>1, <1>3, StatusAfterEnding, StatusAfterComplete, StatusAfterContinue
  <2>2. CASE turn.by = supervisor
    BY <1>1, <1>2, <2>1, <2>2 DEF CompletionIsConsented
  <2>3. CASE turn.by # supervisor
    <3>1. turn.slot = 0 /\ supervisor = NoAgent
      BY <1>1, <2>1, <2>3
    <3>2. messages'[proposal] = messages[proposal] /\ proposal = current - 1
          /\ proposal \in 1..Len(messages)
      BY <1>1, <3>1, ReplyRows
    <3>3. messages[proposal].by = turns[proposal].by
      BY <3>2 DEF EngineInv, Recorded
    <3>. QED BY <1>1, <1>2, <2>1, <3>1, <3>2, <3>3 DEF CompletionIsConsented
  <2>. QED BY <2>2, <2>3
<1>. QED BY <1>4, <1>5

\* The turn that a reply opens is the protocol's.
LEMMA ReplyFollows ==
    ASSUME EngineInv, NEW i \in DOMAIN turns, NEW token \in Nat,
           NEW result \in Answers, ReplyTurn(i, token, result)
    PROVE  TablesFollowReplies'
<1>. DEFINE h == AsReplies(messages')
            turn == turns[current]
            next == turns'[current + 1]
<1>1. Replies' = h
  BY DEF Replies, AsReplies
<1>2. supervisor' = supervisor /\ status = "active"
  BY ReplyEffect
<1>3. supervisor = NoAgent => V1!Outcome(h) = status'
  BY ReplyOutcome
<1>4. status' = "active" =>
          /\ current' = current + 1
          /\ next \in NextTurn(turn, result) /\ StatusAfter(turn, result) = "active"
  BY <1>2, ReplyEffect, ReplyRows, Current DEF Terminal
<1>5. ASSUME supervisor = NoAgent, status' = "active"
      PROVE  [by |-> next.by, round |-> next.round, slot |-> next.slot]
                 = V1!TurnAfter(h)
  <2>1. /\ turn.by \in Agent /\ turn.slot \in 0..2
        /\ turn.slot = 0 => turns[proposal].slot \in {1, 2}
    BY <1>2, Current
  <2>2. /\ h # <<>> /\ V1!Last(h).result = result /\ V1!Last(h).by = turn.by
        /\ V1!Last(h).slot = turn.slot /\ V1!Last(h).round = turn.round
        /\ IF turn.slot = 0
           THEN /\ V1!Answered(h).round = turns[proposal].round
                /\ V1!Answered(h).slot = turns[proposal].slot
           ELSE V1!Answered(h).round = turn.round
    BY ReplyLast
  <2>. HIDE DEF h, next
  <2>3. next \in NextTurn(turn, result)
    BY <1>4, <1>5
  <2>4. /\ next \in TurnRecord
        /\ result \in {"continue", "complete"}
        /\ result = "complete" =>
              /\ turn.slot # 0 /\ next.slot = 0
              /\ next.round = turn.round /\ next.by # turn.by
    BY <1>2, <1>4, <1>5, <2>3, NextTurnFacts
  <2>5. CASE result = "complete"
    <3>1. next.by = Other(turn.by) /\ V1!Other(turn.by) = Other(turn.by)
      <4>1. next.by \in Agent
        BY <2>4 DEF TurnRecord
      <4>. QED BY <2>1, <2>4, <2>5, <4>1, AgentFacts
    <3>2. V1!TurnAfter(h) = V1!Turn(Other(turn.by), turn.round, 0)
      BY <2>2, <2>4, <2>5, <3>1, TurnAfterCases
    <3>. QED BY <2>4, <2>5, <3>1, <3>2 DEF V1!Turn
  <2>6. CASE result = "continue"
    <3>1. CASE turn.slot = 1 \/ (turn.slot = 0 /\ turns[proposal].slot = 2)
      <4>. DEFINE r == IF turn.slot = 1 THEN turn.round ELSE turns[proposal].round + 1
      <4>1. next.by = Second /\ next.slot = 2 /\ next.round = r
        BY <1>2, <1>4, <1>5, <2>3, <2>6, <3>1, NextTurnFacts
      <4>2. V1!TurnAfter(h) = V1!Turn(Second, r, 2)
        BY <2>2, <2>6, <3>1, TurnAfterCases
      <4>. QED BY <4>1, <4>2 DEF V1!Turn
    <3>2. CASE turn.slot = 2 \/ (turn.slot = 0 /\ turns[proposal].slot = 1)
      <4>. DEFINE r == (IF turn.slot = 2 THEN turn.round ELSE turns[proposal].round) + 1
      <4>1. next.by = First /\ next.slot = 1 /\ next.round = r
        BY <1>2, <1>4, <1>5, <2>3, <2>6, <3>2, NextTurnFacts
      <4>2. V1!TurnAfter(h) = V1!Turn(First, r, 1)
        BY <2>2, <2>6, <3>2, TurnAfterCases
      <4>. QED BY <4>1, <4>2 DEF V1!Turn
    <3>. QED BY <2>1, <3>1, <3>2
  <2>. QED BY <2>4, <2>5, <2>6
<1>6. supervisor # NoAgent =>
          \A j \in DOMAIN turns' : turns'[j].slot = 0 => turns'[j].by = supervisor
  <2>. SUFFICES ASSUME supervisor # NoAgent, NEW j \in DOMAIN turns',
                       turns'[j].slot = 0
                PROVE  turns'[j].by = supervisor
    OBVIOUS
  <2>1. j \in 1..Len(turns') /\ current = Len(turns) /\ current \in 1..Len(turns)
        /\ DOMAIN turns = 1..Len(turns) /\ turns[current] \in TurnRecord
    BY <1>2, ReplyRows, Current DEF EngineInv, Tables
  <2>2. CASE j \in 1..(current - 1)
    <3>1. turns'[j] = turns[j] /\ j \in DOMAIN turns
      BY <2>1, <2>2, ReplyRows
    <3>. QED BY <3>1 DEF EngineInv, TablesFollowReplies
  <2>3. CASE j = current
    <3>1. turns'[j].slot = turns[current].slot /\ turns'[j].by = turns[current].by
      BY <2>1, <2>3, ReplyRows, StatusChanged
    <3>. QED BY <2>1, <3>1 DEF EngineInv, TablesFollowReplies
  <2>4. CASE j \notin 1..current
    <3>1. status' = "active" /\ j = current + 1
      BY <2>1, <2>4, ReplyRows
    <3>2. next \in NextTurn(turn, result) /\ StatusAfter(turn, result) = "active"
      BY <1>4, <3>1
    <3>. HIDE DEF next
    <3>3. /\ result \in {"continue", "complete"}
          /\ result = "complete" => next.by = supervisor
          /\ result = "continue" => next.slot # 0
      BY <1>2, <3>2, NextTurnFacts
    <3>. QED BY <3>1, <3>3 DEF next
  <2>. QED BY <2>1, <2>2, <2>3, <2>4
<1>. HIDE DEF h, turn, next
<1>7. status' = "active" => turns'[current'] = next
  BY <1>4 DEF next
<1>. QED BY <1>1, <1>2, <1>3, <1>5, <1>6, <1>7, Zenon DEF TablesFollowReplies

LEMMA ReplyStep ==
    ASSUME EngineInv, NEW i \in DOMAIN turns, NEW result \in Answers,
           NEW token \in 1..turns[i].claims, ReplyTurn(i, token, result)
    PROVE  EngineInv'
<1>1. token \in Nat
  OBVIOUS
<1>. QED BY <1>1, ReplyTables, ReplyConfirms, ReplyFollows DEF EngineInv

-----------------------------------------------------------------------------
(* The other operations.                                                    *)

LEMMA OpenIsCurrent ==
    ASSUME EngineInv, NEW i \in DOMAIN turns, turns[i].status \in {"ready", "claimed"}
    PROVE  status = "active" /\ i = current
<1>1. /\ DOMAIN turns = 1..Len(turns) /\ Len(turns) \in Nat /\ Len(messages) \in Nat
      /\ i \in 1..Len(turns)
  <2>1. turns \in Seq(TurnRecord) /\ messages \in Seq(Message)
    BY DEF EngineInv, Tables
  <2>. QED BY <2>1
<1>2. i \notin 1..Len(messages)
  BY DEF EngineInv, Recorded
<1>3. i = Len(turns) /\ Len(turns) # Len(messages)
  <2>1. Len(turns) <= Len(messages) + 1
    BY DEF EngineInv, AtMostOneOpen
  <2>. QED BY <1>1, <1>2, <2>1
<1>. QED BY <1>3 DEF EngineInv, AtMostOneOpen

\* The current turn changes hands: its place in the schedule stays.
LEMMA SameSchedule ==
    ASSUME EngineInv, status = "active", NEW claimed \in TurnRecord,
           claimed.by = turns[current].by, claimed.round = turns[current].round,
           claimed.slot = turns[current].slot, claimed.status = "claimed",
           turns' = [turns EXCEPT ![current] = claimed],
           UNCHANGED <<status, supervisor, current, proposal, messages>>
    PROVE  EngineInv'
<1>1. /\ current = Len(turns) /\ current = Len(messages) + 1
      /\ Len(messages) \in Nat /\ turns \in Seq(TurnRecord)
      /\ current \in 1..Len(turns)
      /\ turns[current].slot = 0 => proposal = current - 1
  BY Current DEF EngineInv, Tables
<1>2. /\ turns' \in Seq(TurnRecord) /\ Len(turns') = Len(turns)
      /\ \A j \in 1..Len(turns) :
            turns'[j] = IF j = current THEN claimed ELSE turns[j]
  <2>1. current \in 1..Len(turns) /\ turns \in Seq(TurnRecord)
    BY <1>1
  <2>. QED BY <2>1, ExceptSeq
<1>3. Tables'
  BY <1>2 DEF EngineInv, Tables
<1>4. Recorded'
  <2>1. \A m \in 1..Len(messages) : turns'[m] = turns[m]
    BY <1>1, <1>2
  <2>. QED BY <1>2, <2>1 DEF EngineInv, Recorded
<1>5. AtMostOneOpen'
  BY <1>1, <1>2 DEF EngineInv, AtMostOneOpen
<1>6. turns'[current] = claimed /\ (turns[current].slot = 0 => turns'[proposal] = turns[proposal])
  <2>1. turns[current].slot = 0 => proposal \in 1..Len(turns) /\ proposal # current
    BY <1>1, Current
  <2>. QED BY <1>1, <1>2, <2>1
<1>7. ConfirmsLastReply'
  BY <1>6 DEF EngineInv, ConfirmsLastReply
<1>8. Schedule'
  BY <1>1, <1>2 DEF EngineInv, Schedule, LatestPosition
<1>9. TablesFollowReplies'
  <2>1. Replies' = Replies
    BY DEF Replies
  <2>2. \A j \in DOMAIN turns' : j \in DOMAIN turns /\ turns'[j].by = turns[j].by
                                 /\ turns'[j].slot = turns[j].slot
    BY <1>1, <1>2
  <2>. QED BY <1>6, <2>1, <2>2, Zenon DEF EngineInv, TablesFollowReplies
<1>10. CompletionIsConsented'
  BY DEF EngineInv, CompletionIsConsented
<1>. QED BY <1>3, <1>4, <1>5, <1>7, <1>8, <1>9, <1>10 DEF EngineInv

\* A row that is claimed, and one whose lease runs out.
LEMMA TurnClaimed ==
    ASSUME NEW turn \in TurnRecord, turn.claims < MaxClaims
    PROVE  /\ Claimed(turn) \in TurnRecord /\ Claimed(turn).by = turn.by
           /\ Claimed(turn).round = turn.round /\ Claimed(turn).slot = turn.slot
           /\ Claimed(turn).status = "claimed"
BY Limits DEF Claimed, TurnRecord

LEMMA TurnLapsed ==
    ASSUME NEW turn \in TurnRecord, turn.status = "claimed"
    PROVE  LET claimed == [turn EXCEPT !.lapsed = TRUE] IN
           /\ claimed \in TurnRecord /\ claimed.by = turn.by
           /\ claimed.round = turn.round /\ claimed.slot = turn.slot
           /\ claimed.status = "claimed"
BY DEF TurnRecord

LEMMA ClaimStep ==
    ASSUME EngineInv, NEW i \in DOMAIN turns, ClaimTurn(i) \/ LapseLease(i)
    PROVE  EngineInv'
<1>1. turns[i].status \in {"ready", "claimed"}
  BY DEF ClaimTurn, Claimable, LapseLease
<1>2. i = current /\ status = "active"
  BY <1>1, OpenIsCurrent
<1>3. turns[current] \in TurnRecord
  BY <1>2, Current
<1>. DEFINE turn == turns[current]
<1>4. CASE ClaimTurn(i)
  <2>1. turns' = [turns EXCEPT ![current] = Claimed(turn)] /\ turn.claims < MaxClaims
        /\ UNCHANGED <<status, supervisor, current, proposal, messages>>
    BY <1>2, <1>4, Zenon DEF ClaimTurn
  <2>. QED BY <1>2, <1>3, <2>1, TurnClaimed, SameSchedule
<1>5. CASE LapseLease(i)
  <2>. DEFINE claimed == [turn EXCEPT !.lapsed = TRUE]
  <2>1. turns' = [turns EXCEPT ![current] = claimed] /\ turn.status = "claimed"
        /\ UNCHANGED <<status, supervisor, current, proposal, messages>>
    BY <1>2, <1>5, Zenon DEF LapseLease
  <2>2. /\ claimed \in TurnRecord /\ claimed.by = turn.by
        /\ claimed.round = turn.round /\ claimed.slot = turn.slot
        /\ claimed.status = "claimed"
    BY <1>3, <2>1, TurnLapsed
  <2>. HIDE DEF claimed
  <2>. QED BY <1>2, <2>1, <2>2, SameSchedule
<1>. QED BY <1>4, <1>5

LEMMA CreateStep ==
    ASSUME EngineInv, CreateConversation
    PROVE  EngineInv'
<1>1. /\ status = "absent" /\ status' = "draft" /\ supervisor' \in Agent \cup {NoAgent}
      /\ UNCHANGED <<current, proposal, turns, messages>> /\ turns = <<>>
  BY DEF CreateConversation, EngineInv, AtMostOneOpen
<1>2. Tables' /\ Recorded' /\ AtMostOneOpen' /\ Schedule' /\ ConfirmsLastReply'
  BY <1>1 DEF EngineInv, Tables, Recorded, AtMostOneOpen, Schedule, LatestPosition,
              ConfirmsLastReply
<1>3. TablesFollowReplies' /\ CompletionIsConsented'
  BY <1>1 DEF TablesFollowReplies, CompletionIsConsented, Terminal
<1>. QED BY <1>2, <1>3 DEF EngineInv

LEMMA StartStep ==
    ASSUME EngineInv, StartConversation
    PROVE  EngineInv'
<1>. DEFINE first == ReadyTurn(First, 1, 1)
<1>1. /\ status' = "active" /\ turns = <<>> /\ messages = <<>> /\ proposal = 0
      /\ UNCHANGED <<supervisor, proposal, messages>>
      /\ turns' = Append(turns, first) /\ current' = 1
  BY DEF StartConversation, EngineInv, AtMostOneOpen, Recorded, Tables
<1>2. /\ first \in TurnRecord /\ first.by = First /\ first.round = 1 /\ first.slot = 1
      /\ first.status = "ready"
  BY Limits, AgentFacts, ReadyTurnType
<1>. HIDE DEF first
<1>3. turns' \in Seq(TurnRecord) /\ Len(turns') = 1 /\ turns'[1] = first
  BY <1>1, <1>2
<1>4. Tables' /\ Recorded' /\ AtMostOneOpen' /\ ConfirmsLastReply'
  BY <1>1, <1>2, <1>3 DEF EngineInv, Tables, Recorded, AtMostOneOpen, ConfirmsLastReply
<1>5. Schedule'
  BY <1>2, <1>3 DEF Schedule, LatestPosition
<1>6. TablesFollowReplies'
  <2>1. Replies' = <<>>
    BY <1>1 DEF Replies
  <2>2. V1!Outcome(<<>>) = "active" /\ V1!TurnAfter(<<>>) = V1!Turn(First, 1, 1)
    BY Zenon DEF V1!Outcome, V1!TurnAfter
  <2>3. [by |-> first.by, round |-> first.round, slot |-> first.slot]
            = V1!TurnAfter(<<>>)
    BY <1>2, <2>2 DEF V1!Turn
  <2>4. \A j \in DOMAIN turns' : turns'[j].slot # 0
    BY <1>2, <1>3
  <2>5. status' \notin Terminal
    BY <1>1 DEF Terminal
  <2>. QED BY <1>1, <1>3, <2>1, <2>2, <2>3, <2>4, <2>5, Zenon DEF TablesFollowReplies
<1>7. CompletionIsConsented'
  BY <1>1 DEF CompletionIsConsented
<1>. QED BY <1>4, <1>5, <1>6, <1>7 DEF EngineInv

LEMMA CancelStep ==
    ASSUME EngineInv, CancelConversation
    PROVE  EngineInv'
<1>1. /\ status' = "cancelled" /\ current' = 0
      /\ UNCHANGED <<supervisor, proposal, messages>>
      /\ turns' = [i \in DOMAIN turns |->
                       IF i = current THEN WithStatus(turns[i], "cancelled")
                       ELSE turns[i]]
  BY Zenon DEF CancelConversation, WithStatus
<1>2. /\ turns \in Seq(TurnRecord) /\ Len(turns) \in Nat
      /\ DOMAIN turns = 1..Len(turns) /\ Len(messages) \in Nat
  BY DEF EngineInv, Tables
<1>3. ASSUME NEW i \in 1..Len(turns)
      PROVE  /\ turns'[i] \in TurnRecord
             /\ turns'[i].by = turns[i].by /\ turns'[i].round = turns[i].round
             /\ turns'[i].slot = turns[i].slot /\ turns'[i].claims = turns[i].claims
             /\ turns'[i].status = IF i = current THEN "cancelled" ELSE turns[i].status
  <2>1. turns[i] \in TurnRecord
    BY <1>2, ElementOfSeq
  <2>2. turns'[i] = IF i = current THEN WithStatus(turns[i], "cancelled") ELSE turns[i]
    BY <1>1, <1>2
  <2>. QED BY <2>1, <2>2, StatusChanged
<1>4. turns' \in Seq(TurnRecord) /\ Len(turns') = Len(turns)
  <2>1. turns' \in [1..Len(turns) -> TurnRecord]
    BY <1>1, <1>2, <1>3
  <2>. QED BY <1>2, <2>1
<1>5. Tables'
  BY <1>1, <1>4 DEF EngineInv, Tables, Terminal
<1>6. current = 0 \/ current = Len(messages) + 1
  BY <1>2 DEF EngineInv, AtMostOneOpen
<1>7. Recorded'
  <2>1. \A m \in 1..Len(messages) : m \in 1..Len(turns) /\ m # current
    BY <1>2, <1>6 DEF EngineInv, Recorded
  <2>. QED BY <1>1, <1>3, <1>4, <2>1 DEF EngineInv, Recorded
<1>8. AtMostOneOpen'
  <2>1. Len(turns) # Len(messages) => Len(turns) \in 1..Len(turns)
    BY <1>2 DEF EngineInv, Recorded
  <2>2. Len(turns) # Len(messages) => turns'[Len(turns)].status = "cancelled"
    BY <1>2, <1>3, <2>1 DEF EngineInv, AtMostOneOpen
  <2>. QED BY <1>1, <1>4, <2>2 DEF EngineInv, AtMostOneOpen, Terminal
<1>9. ConfirmsLastReply' /\ CompletionIsConsented'
  BY <1>1 DEF ConfirmsLastReply, CompletionIsConsented
<1>10. Schedule'
  BY <1>3, <1>4 DEF EngineInv, Schedule, LatestPosition
<1>11. TablesFollowReplies'
  <2>1. \A j \in DOMAIN turns' : j \in DOMAIN turns /\ turns'[j].by = turns[j].by
                                 /\ turns'[j].slot = turns[j].slot
    BY <1>2, <1>3, <1>4
  <2>. QED BY <1>1, <2>1, Zenon DEF EngineInv, TablesFollowReplies
<1>. QED BY <1>5, <1>7, <1>8, <1>9, <1>10, <1>11 DEF EngineInv

LEMMA EngineUnchanged ==
    ASSUME EngineInv, UNCHANGED conversationVars
    PROVE  EngineInv'
<1>1. Replies' = Replies
  BY DEF Replies, conversationVars
<1>2. TablesFollowReplies'
  BY <1>1, Zenon DEF EngineInv, TablesFollowReplies, conversationVars
<1>. QED
  BY <1>2 DEF EngineInv, conversationVars, Tables, Recorded, AtMostOneOpen,
              ConfirmsLastReply, Schedule, LatestPosition, CompletionIsConsented

LEMMA EngineSteps ==
    ASSUME EngineInv, EngineNext
    PROVE  EngineInv'
BY CreateStep, StartStep, ClaimStep, ReplyStep, CancelStep DEF EngineNext

-----------------------------------------------------------------------------
(* The summary.                                                             *)

OutboxTypes ==
    /\ outbox \in [status : {"none", "pending", "failed", "stored"},
                   says : {"none"} \cup Ended, attempts : 0..MaxAttempts]
    /\ pass \in [stage : {"idle", "calling", "stored", "failed"},
                 says : {"none"} \cup Ended, status : {"none"} \cup Terminal]
    /\ delivered \in Seq([says : Ended, status : Terminal])
    /\ crashes \in 0..MaxCrashes

\* A row is queued with the end of the dialogue, and says how it ended.
Queued ==
    IF outbox.status = "none"
    THEN status \notin Ended /\ pass.stage = "idle" /\ delivered = <<>>
    ELSE /\ outbox.says \in Ended /\ status \in {outbox.says, "cancelled"}
         /\ messages # <<>>
         /\ messages[Len(messages)].result \in {"blocked", "error"} =>
               outbox.says = messages[Len(messages)].result

\* What a pass works on is a row with an attempt left.
Passing ==
    pass.stage # "idle" =>
        /\ outbox.status \in {"pending", "failed"} /\ outbox.attempts < MaxAttempts
        /\ pass.says = outbox.says /\ pass.status \in {outbox.says, status}
        /\ pass.status \in Terminal
        /\ pass.stage = "stored" => delivered # <<>>

Told ==
    \A d \in 1..Len(delivered) :
        /\ delivered[d].says = outbox.says
        /\ delivered[d].status \in {outbox.says, status}

OutboxInv == OutboxTypes /\ Queued /\ Passing /\ Told /\ DeliveryAccounted

LEMMA ReplyOutbox ==
    ASSUME EngineInv, OutboxInv, NEW i \in DOMAIN turns, NEW result \in Answers,
           NEW token \in 1..turns[i].claims, ReplyTurn(i, token, result),
           UNCHANGED dispatchVars
    PROVE  OutboxInv'
<1>1. token \in Nat
  OBVIOUS
<1>2. /\ status = "active" /\ status' = StatusAfter(turns[current], result)
      /\ messages' \in Seq(Message) /\ Len(messages') = current
      /\ messages'[current] = Reply(current, token, result)
      /\ current \in Nat \ {0}
  BY <1>1, ReplyEffect, ReplyRows, Current
<1>3. messages' # <<>> /\ messages'[Len(messages')].result = result
  BY <1>2 DEF Reply
<1>4. /\ outbox.status = "none" /\ pass.stage = "idle" /\ delivered = <<>>
      /\ outbox \in [status : {"none", "pending", "failed", "stored"},
                     says : {"none"} \cup Ended, attempts : 0..MaxAttempts]
  BY <1>2 DEF OutboxInv, Queued, OutboxTypes, Ended
<1>5. CASE status' = "active"
  <2>1. outbox' = outbox
    BY <1>5, ReplyEffect DEF Terminal
  <2>. QED BY <1>4, <1>5, <2>1 DEF OutboxInv, OutboxTypes, Queued, Passing, Told,
              DeliveryAccounted, Ended, dispatchVars
<1>6. CASE status' # "active"
  <2>1. /\ status' \in Ended
        /\ result \in {"blocked", "error"} => status' = result
    <3>1. result \in {"continue", "complete", "blocked", "error"}
      BY Limits
    <3>. QED BY <1>2, <1>6, <3>1, StatusAfterEnding, StatusAfterComplete,
                StatusAfterContinue DEF Ended
  <2>2. outbox' = [status |-> "pending", says |-> status',
                   attempts |-> outbox.attempts]
    BY <1>6, ReplyEffect DEF QueueSummary
  <2>. QED BY <1>3, <1>4, <2>1, <2>2 DEF OutboxInv, OutboxTypes, Queued, Passing, Told,
              DeliveryAccounted, dispatchVars
<1>. QED BY <1>5, <1>6

LEMMA CancelOutbox ==
    ASSUME OutboxInv, CancelConversation, UNCHANGED dispatchVars
    PROVE  OutboxInv'
<1>1. /\ status' = "cancelled" /\ status # "cancelled"
      /\ UNCHANGED <<messages, outbox, pass, delivered, crashes>>
  BY DEF CancelConversation, dispatchVars
<1>2. Queued' /\ Passing' /\ Told'
  BY <1>1 DEF OutboxInv, Queued, Passing, Told, Ended
<1>. QED BY <1>1, <1>2 DEF OutboxInv, OutboxTypes, DeliveryAccounted

LEMMA EngineOutbox ==
    ASSUME EngineInv, OutboxInv, EngineNext, UNCHANGED dispatchVars
    PROVE  OutboxInv'
<1>1. CASE CreateConversation \/ StartConversation
           \/ \E i \in DOMAIN turns : ClaimTurn(i) \/ LapseLease(i)
  <2>1. /\ status \notin Terminal /\ status' \notin Terminal
        /\ UNCHANGED <<messages, outbox, pass, delivered, crashes>>
    BY <1>1, OpenIsCurrent DEF CreateConversation, StartConversation, ClaimTurn,
       LapseLease, dispatchVars, Terminal
  <2>2. outbox.status = "none"
    BY <2>1 DEF OutboxInv, Queued, Terminal, Ended
  <2>. QED BY <2>1, <2>2 DEF OutboxInv, OutboxTypes, Queued, Passing, Told,
              DeliveryAccounted, Terminal, Ended
<1>2. CASE CancelConversation
  BY <1>2, CancelOutbox
<1>3. ASSUME NEW i \in DOMAIN turns, NEW result \in Answers,
             NEW token \in 1..turns[i].claims, ReplyTurn(i, token, result)
      PROVE  OutboxInv'
  BY <1>3, ReplyOutbox
<1>. QED BY <1>1, <1>2, <1>3 DEF EngineNext

LEMMA DispatchOutbox ==
    ASSUME EngineInv, OutboxInv,
           ReadRow \/ ProviderStores \/ ProviderFails \/ RecordResult \/ FailToRecord \/ Restart
    PROVE  /\ OutboxInv' /\ UNCHANGED conversationVars
           /\ outbox.status = "stored" => UNCHANGED <<outbox, delivered>>
<1>. USE DispatcherBounds
<1>1. CASE ReadRow
  <2>1. /\ outbox.status \in {"pending", "failed"} /\ outbox.attempts < MaxAttempts
        /\ status \in Terminal
        /\ pass' = [stage |-> "calling", says |-> outbox.says, status |-> status]
        /\ UNCHANGED <<conversationVars, outbox, delivered, crashes>>
        /\ pass.stage = "idle"
    BY <1>1 DEF ReadRow, Due, engineVars, conversationVars
  <2>. QED BY <2>1 DEF OutboxInv, OutboxTypes, Queued, Passing, Told,
              DeliveryAccounted, conversationVars
<1>2. CASE ProviderStores
  <2>. DEFINE told == [says |-> pass.says, status |-> pass.status]
  <2>1. /\ pass.stage = "calling" /\ delivered' = Append(delivered, told)
        /\ UNCHANGED <<conversationVars, outbox, crashes>>
    BY <1>2 DEF ProviderStores, engineVars, conversationVars
  <2>2. /\ pass' \in [stage : {"idle", "calling", "stored", "failed"},
                      says : {"none"} \cup Ended, status : {"none"} \cup Terminal]
        /\ pass'.stage \in {"stored", "failed"}
        /\ pass'.says = pass.says /\ pass'.status = pass.status
    BY <1>2 DEF ProviderStores, OutboxInv, OutboxTypes
  <2>3. /\ outbox.status \in {"pending", "failed"} /\ outbox.attempts < MaxAttempts
        /\ pass.says = outbox.says /\ pass.status \in {outbox.says, status}
        /\ outbox.says \in Ended /\ pass.status \in Terminal
    BY <2>1 DEF OutboxInv, Passing, Queued
  <2>4. /\ delivered' \in Seq([says : Ended, status : Terminal])
        /\ Len(delivered') = Len(delivered) + 1 /\ delivered' # <<>>
        /\ \A d \in 1..Len(delivered) : delivered'[d] = delivered[d]
        /\ delivered'[Len(delivered) + 1] = told
        /\ Len(delivered) \in Nat
    BY <2>1, <2>3, AppendProperties DEF OutboxInv, OutboxTypes
  <2>5. Told'
    BY <2>1, <2>3, <2>4 DEF OutboxInv, Told, conversationVars
  <2>6. DeliveryAccounted'
    BY <2>1, <2>2, <2>3, <2>4 DEF OutboxInv, OutboxTypes, DeliveryAccounted
  <2>. QED BY <2>1, <2>2, <2>3, <2>4, <2>5, <2>6
           DEF OutboxInv, OutboxTypes, Queued, Passing, conversationVars
<1>3. CASE ProviderFails
  <2>1. /\ pass.stage = "calling"
        /\ UNCHANGED <<conversationVars, outbox, delivered, crashes>>
    BY <1>3 DEF ProviderFails, engineVars, conversationVars
  <2>2. /\ pass' \in [stage : {"idle", "calling", "stored", "failed"},
                      says : {"none"} \cup Ended, status : {"none"} \cup Terminal]
        /\ pass'.stage = "failed"
        /\ pass'.says = pass.says /\ pass'.status = pass.status
    BY <1>3 DEF ProviderFails, OutboxInv, OutboxTypes
  <2>. QED BY <2>1, <2>2 DEF OutboxInv, OutboxTypes, Queued, Passing, Told,
              DeliveryAccounted, conversationVars
<1>4. CASE RecordResult
  <2>1. /\ pass.stage \in {"stored", "failed"} /\ pass' = Idle
        /\ outbox' = [status |-> pass.stage, says |-> outbox.says,
                      attempts |-> outbox.attempts + 1]
        /\ UNCHANGED <<conversationVars, delivered, crashes>>
    BY <1>4 DEF RecordResult, conversationVars
  <2>2. /\ outbox.status \in {"pending", "failed"} /\ outbox.attempts < MaxAttempts
        /\ outbox.attempts \in Nat /\ outbox.says \in Ended
        /\ pass.stage = "stored" => delivered # <<>>
    BY <2>1 DEF OutboxInv, OutboxTypes, Passing, Queued
  <2>. QED BY <2>1, <2>2 DEF OutboxInv, OutboxTypes, Queued, Passing, Told,
              DeliveryAccounted, Idle, conversationVars
<1>5. CASE Restart \/ FailToRecord
  <2>1. /\ pass.stage # "idle" /\ pass' = Idle /\ crashes < MaxCrashes
        /\ crashes' = crashes + 1
        /\ UNCHANGED <<conversationVars, outbox, delivered>>
    BY <1>5 DEF Restart, FailToRecord, engineVars, conversationVars
  <2>. QED BY <2>1 DEF OutboxInv, OutboxTypes, Queued, Passing, Told,
              DeliveryAccounted, Idle, conversationVars
<1>. QED BY <1>1, <1>2, <1>3, <1>4, <1>5

-----------------------------------------------------------------------------
(* The theorems.                                                            *)

FullInv == EngineInv /\ OutboxInv

LEMMA FullInit ==
    OutboxInit => FullInv
<1>. SUFFICES ASSUME OutboxInit
              PROVE  FullInv
  OBVIOUS
<1>1. /\ status = "absent" /\ supervisor = NoAgent /\ current = 0 /\ proposal = 0
      /\ turns = <<>> /\ messages = <<>> /\ outbox = NoRow
      /\ pass = Idle /\ delivered = <<>> /\ crashes = 0
  BY DEF OutboxInit, Init
<1>2. TablesFollowReplies
  BY <1>1, Zenon DEF TablesFollowReplies, Terminal
<1>3. Tables /\ Recorded /\ AtMostOneOpen /\ ConfirmsLastReply /\ Schedule
      /\ CompletionIsConsented
  BY <1>1 DEF Tables, Recorded, AtMostOneOpen, ConfirmsLastReply, Schedule,
              CompletionIsConsented
<1>4. OutboxInv
  BY <1>1, DispatcherBounds DEF OutboxInv, OutboxTypes, Queued, Passing, Told,
     DeliveryAccounted, NoRow, Idle, Ended
<1>. QED BY <1>2, <1>3, <1>4 DEF FullInv, EngineInv

LEMMA FullStep ==
    FullInv /\ [OutboxNext]_vars => FullInv'
<1>. SUFFICES ASSUME FullInv, [OutboxNext]_vars
              PROVE  FullInv'
  OBVIOUS
<1>1. CASE EngineNext /\ UNCHANGED dispatchVars
  BY <1>1, EngineSteps, EngineOutbox DEF FullInv
<1>2. CASE ReadRow \/ ProviderStores \/ ProviderFails \/ RecordResult \/ FailToRecord \/ Restart
  BY <1>2, DispatchOutbox, EngineUnchanged DEF FullInv
<1>3. CASE UNCHANGED vars
  <2>1. UNCHANGED conversationVars /\ UNCHANGED <<outbox, pass, delivered, crashes>>
    BY <1>3 DEF vars, engineVars, dispatchVars, conversationVars
  <2>2. EngineInv'
    BY <2>1, EngineUnchanged DEF FullInv
  <2>3. OutboxInv'
    BY <2>1 DEF FullInv, OutboxInv, OutboxTypes, Queued, Passing, Told,
                DeliveryAccounted, conversationVars
  <2>. QED BY <2>2, <2>3 DEF FullInv
<1>. QED BY <1>1, <1>2, <1>3 DEF OutboxNext

\* The tables of a conversation and of its summary agree in every state: turns
\* and messages run in parallel, a confirmation is asked about the last reply,
\* and the row, the pass and what was delivered speak of one ending.
THEOREM EngineInvariant == OutboxSpec => []FullInv
BY FullInit, FullStep, PTL DEF OutboxSpec

\* Tables, rows and counters have their types: no order of proposals, refusals
\* and claims opens more than two turns a round and one more.
THEOREM EngineTypeCorrect == OutboxSpec => []OutboxTypeOK
<1>1. FullInv => OutboxTypeOK
  <2>. SUFFICES ASSUME FullInv
                PROVE  OutboxTypeOK
    OBVIOUS
  <2>1. /\ turns \in Seq(TurnRecord) /\ messages \in Seq(Message)
        /\ Len(turns) \in Nat /\ Len(messages) \in Nat /\ DOMAIN turns = 1..Len(turns)
        /\ Len(messages) <= Len(turns)
        /\ current \in Nat /\ proposal \in Nat /\ proposal <= Len(turns)
    BY DEF FullInv, EngineInv, Tables, Recorded
  <2>2. current <= Len(turns)
    <3>1. current = Len(turns) \/ current = 0
      BY Zenon DEF FullInv, EngineInv, AtMostOneOpen
    <3>2. 0 <= Len(turns) /\ Len(turns) <= Len(turns)
      BY <2>1
    <3>. QED BY <3>1, <3>2, Zenon
  <2>3. \A i \in DOMAIN turns : turns[i] \in TurnRecord
    BY <2>1, ElementOfSeq
  <2>4. Len(turns) <= 2 * MaxRounds + 1
    <3>1. CASE Len(turns) = 0
      BY <3>1, Limits
    <3>2. CASE Len(turns) # 0
      <4>. DEFINE last == turns[Len(turns)]
      <4>1. Len(turns) \in DOMAIN turns /\ Len(turns) <= LatestPosition(last)
        BY <2>1, <3>2 DEF FullInv, EngineInv, Schedule
      <4>2. last.round \in 1..MaxRounds /\ last.slot \in 0..2
        BY <2>3, <4>1 DEF TurnRecord
      <4>. HIDE DEF last
      <4>. QED BY <2>1, <4>1, <4>2, Limits DEF LatestPosition
    <3>. QED BY <3>1, <3>2
  <2>5. /\ current \in Position /\ proposal \in Position /\ Len(turns) \in Position
    BY <2>1, <2>2, <2>4, Limits DEF Position
  <2>6. /\ status \in {"absent", "draft", "active"} \cup Terminal
        /\ supervisor \in Agent \cup {NoAgent}
    BY DEF FullInv, EngineInv, Tables
  <2>7. /\ outbox.status \in {"none", "pending", "failed", "stored"}
        /\ pass.stage \in {"idle", "calling", "stored", "failed"}
        /\ outbox.attempts \in 0..MaxAttempts
        /\ crashes \in 0..MaxCrashes
    BY DEF FullInv, OutboxInv, OutboxTypes
  <2>. QED BY <2>1, <2>2, <2>3, <2>5, <2>6, <2>7, Zenon DEF OutboxTypeOK, EngineTypeOK
<1>. QED BY <1>1, EngineInvariant, PTL

\* However claims, expiries, replies and cancellations interleave, the current
\* turn of an active conversation is the only one that is open.
THEOREM OneTurnOpen == OutboxSpec => []OneOpenTurn
<1>1. FullInv => OneOpenTurn
  <2>. SUFFICES ASSUME FullInv
                PROVE  OneOpenTurn
    OBVIOUS
  <2>. DEFINE open == {i \in DOMAIN turns : turns[i].status \in {"ready", "claimed"}}
  <2>1. \A i \in open : status = "active" /\ i = current
    BY OpenIsCurrent DEF FullInv
  <2>2. status = "active" => current \in open
    <3>1. status = "active" => current \in DOMAIN turns
      BY Current DEF FullInv, EngineInv, Tables
    <3>. QED BY <3>1 DEF FullInv, EngineInv, AtMostOneOpen
  <2>3. open = IF status = "active" THEN {current} ELSE {}
    <3>. HIDE DEF open
    <3>. QED BY <2>1, <2>2
  <2>. QED BY <2>3, Zenon DEF OneOpenTurn
<1>. QED BY <1>1, EngineInvariant, PTL

\* A completed turn has one message, of the token handed out last: a late or a
\* repeated reply never gets into the tables.
THEOREM LastClaimAnswers == OutboxSpec => []AnsweredByLastClaim
<1>1. FullInv => AnsweredByLastClaim
  <2>. SUFFICES ASSUME FullInv
                PROVE  AnsweredByLastClaim
    OBVIOUS
  <2>1. /\ DOMAIN turns = 1..Len(turns) /\ DOMAIN messages = 1..Len(messages)
        /\ Len(turns) \in Nat /\ Len(messages) \in Nat
    <3>1. turns \in Seq(TurnRecord) /\ messages \in Seq(Message)
      BY DEF FullInv, EngineInv, Tables
    <3>. QED BY <3>1
  <2>2. \A m \in DOMAIN messages :
            /\ messages[m].turn = m /\ turns[m].status = "completed"
            /\ messages[m].token = turns[m].claims
    BY <2>1 DEF FullInv, EngineInv, Recorded
  <2>3. ASSUME NEW i \in DOMAIN turns, turns[i].status = "completed"
        PROVE  i \in DOMAIN messages
    <3>. SUFFICES ASSUME i \notin DOMAIN messages
                  PROVE  FALSE
      OBVIOUS
    <3>1. i = Len(turns) /\ Len(turns) # Len(messages)
      <4>1. Len(turns) <= Len(messages) + 1
        BY DEF FullInv, EngineInv, AtMostOneOpen
      <4>2. i \in 1..Len(turns) /\ i \notin 1..Len(messages)
        BY <2>1, <2>3, Zenon
      <4>3. Len(turns) \in Nat /\ Len(messages) \in Nat
        BY <2>1
      <4>. QED BY <4>1, <4>2, <4>3
    <3>2. CASE status = "active"
      <4>1. turns[current].status \in {"ready", "claimed"} /\ current = Len(turns)
        BY <3>2 DEF FullInv, EngineInv, AtMostOneOpen
      <4>. QED BY <2>3, <3>1, <4>1
    <3>3. CASE status # "active"
      <4>1. turns[Len(turns)].status = "cancelled"
        BY <3>1, <3>3 DEF FullInv, EngineInv, AtMostOneOpen
      <4>. QED BY <2>3, <3>1, <4>1
    <3>. QED BY <3>2, <3>3
  <2>. QED BY <2>2, <2>3, Zenon DEF AnsweredByLastClaim
<1>. QED BY <1>1, EngineInvariant, PTL

\* The tables always say what the protocol makes of the replies: whose turn it
\* is, or how the conversation ended.
THEOREM TablesAgree == OutboxSpec => []TablesFollowReplies
BY EngineInvariant, PTL DEF FullInv, EngineInv

\* Nobody completes a conversation alone: its supervisor does, or an agent that
\* confirms what the other has just proposed.
THEOREM Consent == OutboxSpec => []CompletionIsConsented
BY EngineInvariant, PTL DEF FullInv, EngineInv

\* The provider is given a summary at most once for each attempt and each
\* pass that a restart or a failing UPDATE cut short, and what is
\* marked as stored it has.
THEOREM DeliveriesCounted == OutboxSpec => []DeliveryAccounted
BY EngineInvariant, PTL DEF FullInv, OutboxInv

\* What the provider is told is how the dialogue ended, whenever it is cancelled.
THEOREM SummaryTrue == OutboxSpec => []SummarySaysOutcome
<1>1. FullInv => SummarySaysOutcome
  <2>. SUFFICES ASSUME FullInv, NEW d \in DOMAIN delivered
                PROVE  /\ delivered[d].says = outbox.says
                       /\ delivered[d].status \in {outbox.says, status}
                       /\ messages # <<>>
                       /\ messages[Len(messages)].result \in {"blocked", "error"} =>
                             delivered[d].says = messages[Len(messages)].result
    BY Zenon DEF SummarySaysOutcome
  <2>1. d \in 1..Len(delivered) /\ delivered # <<>>
    BY DEF FullInv, OutboxInv, OutboxTypes
  <2>. QED BY <2>1 DEF FullInv, OutboxInv, Told, Queued
<1>. QED BY <1>1, EngineInvariant, PTL

\* An ended conversation stays as it ended, but for a cancellation after a
\* failure, and a summary that is stored is not sent again.
THEOREM EndingStays == OutboxSpec => EndingIsFinal
<1>. DEFINE A == /\ status \in Terminal =>
                       /\ \/ status' = status
                          \/ status \in {"blocked", "error"} /\ status' = "cancelled"
                       /\ UNCHANGED <<turns, messages>>
                 /\ outbox.status = "stored" => UNCHANGED <<outbox, delivered>>
<1>1. FullInv /\ [OutboxNext]_vars => [A]_vars
  <2>. SUFFICES ASSUME FullInv, OutboxNext
                PROVE  A
    OBVIOUS
  <2>1. ASSUME EngineNext, UNCHANGED dispatchVars
        PROVE  A
    <3>1. CASE CreateConversation \/ StartConversation
               \/ \E i \in DOMAIN turns : ClaimTurn(i) \/ LapseLease(i)
      BY <2>1, <3>1, OpenIsCurrent DEF CreateConversation, StartConversation,
         ClaimTurn, LapseLease, dispatchVars, Terminal, FullInv
    <3>2. CASE CancelConversation
      <4>1. /\ status \notin {"absent", "completed", "cancelled"}
            /\ status' = "cancelled"
            /\ UNCHANGED <<messages, outbox, delivered>>
        BY <2>1, <3>2 DEF CancelConversation, dispatchVars
      <4>2. status \in Terminal => turns' = turns
        <5>. SUFFICES ASSUME status \in Terminal
                      PROVE  turns' = turns
          OBVIOUS
        <5>1. turns \in Seq(TurnRecord) /\ current = 0
          BY DEF Terminal, FullInv, EngineInv, Tables, AtMostOneOpen
        <5>2. turns' = [i \in DOMAIN turns |->
                            IF i = current THEN WithStatus(turns[i], "cancelled")
                            ELSE turns[i]]
          BY <3>2, Zenon DEF CancelConversation, WithStatus
        <5>. QED BY <5>1, <5>2
      <4>. QED BY <4>1, <4>2 DEF Terminal
    <3>3. ASSUME NEW i \in DOMAIN turns, NEW result \in Answers,
                 NEW token \in 1..turns[i].claims, ReplyTurn(i, token, result)
          PROVE  A
      <4>1. status = "active"
        BY <3>3, Zenon DEF ReplyTurn
      <4>. QED BY <4>1 DEF FullInv, OutboxInv, Queued, Terminal, Ended
    <3>. QED BY <2>1, <3>1, <3>2, <3>3 DEF EngineNext
  <2>2. ASSUME ReadRow \/ ProviderStores \/ ProviderFails \/ RecordResult \/ FailToRecord \/ Restart
        PROVE  A
    BY <2>2, DispatchOutbox DEF FullInv, conversationVars
  <2>. QED BY <2>1, <2>2 DEF OutboxNext
<1>2. EndingIsFinal <=> [][A]_vars
  BY PTL DEF EndingIsFinal
<1>. QED BY <1>1, <1>2, EngineInvariant, PTL DEF OutboxSpec

-----------------------------------------------------------------------------
(* The engine implements the protocol.                                      *)

LEMMA ReplyIsProtocolStep ==
    ASSUME EngineInv, supervisor = NoAgent, NEW i \in DOMAIN turns,
           NEW result \in Answers, NEW token \in Nat, ReplyTurn(i, token, result)
    PROVE  V1!Next
<1>. DEFINE turn == turns[current]
<1>1. /\ status = "active" /\ supervisor' = NoAgent
      /\ messages' = Append(messages, Reply(current, token, result))
      /\ messages \in Seq(Message) /\ messages' \in Seq(Message)
      /\ Len(messages') = Len(messages) + 1
  BY ReplyEffect, ReplyRows, Current DEF EngineInv, Tables
<1>2. /\ V1!Outcome(Replies) = "active"
      /\ [by |-> turn.by, round |-> turn.round, slot |-> turn.slot]
             = V1!TurnAfter(Replies)
  BY <1>1, Zenon DEF EngineInv, TablesFollowReplies
<1>3. Replies = AsReplies(messages) /\ Replies' = AsReplies(messages')
  BY DEF Replies, AsReplies
<1>4. V1!Answer(V1!TurnAfter(Replies), result) =
          [by |-> turn.by, round |-> turn.round, slot |-> turn.slot,
           result |-> result]
  <2>. DEFINE t == [by |-> turn.by, round |-> turn.round, slot |-> turn.slot]
  <2>1. V1!Answer(t, result) = [by |-> turn.by, round |-> turn.round,
                                slot |-> turn.slot, result |-> result]
    BY DEF V1!Answer
  <2>. QED BY <1>2, <2>1
<1>5. Replies' = Append(Replies, V1!Answer(V1!TurnAfter(Replies), result))
  <2>. DEFINE answer == [by |-> turn.by, round |-> turn.round, slot |-> turn.slot,
                         result |-> result]
  <2>1. \A m \in 1..Len(messages) : messages'[m] = messages[m]
    BY ReplyRows
  <2>2. messages'[Len(messages) + 1] = Reply(current, token, result)
    BY <1>1
  <2>3. /\ DOMAIN messages = 1..Len(messages) /\ Len(messages) \in Nat
        /\ DOMAIN messages' = 1..(Len(messages) + 1)
    BY <1>1
  <2>4. AsReplies(messages')[Len(messages) + 1] = answer
    BY <2>2, <2>3 DEF AsReplies, Reply
  <2>5. \A m \in 1..Len(messages) :
            AsReplies(messages')[m] = AsReplies(messages)[m]
    BY <2>1, <2>3 DEF AsReplies
  <2>6. /\ AsReplies(messages) \in Seq(ProtocolReply)
        /\ AsReplies(messages') \in Seq(ProtocolReply)
        /\ Len(AsReplies(messages)) = Len(messages)
        /\ Len(AsReplies(messages')) = Len(messages) + 1
    BY <1>1, RepliesOfRows
  <2>. HIDE DEF answer
  <2>7. AsReplies(messages') = Append(AsReplies(messages), answer)
    BY <2>3, <2>4, <2>5, <2>6
  <2>. QED BY <1>3, <1>4, <2>7 DEF answer
<1>6. Replies' # Replies
  <2>1. Len(messages) \in Nat /\ Len(messages') # Len(messages)
    BY <1>1
  <2>2. Len(Replies') = Len(messages') /\ Len(Replies) = Len(messages)
    BY <1>1, <1>3, RepliesOfRows, Zenon
  <2>. QED BY <2>1, <2>2, Zenon
<1>7. result \in V1!Result
  BY Limits DEF V1!Result
<1>. QED BY <1>1, <1>2, <1>5, <1>6, <1>7, Zenon DEF V1!Next

\* With alternating turns the conversation is, for any number of rounds, one
\* that the dialogue-v1 protocol admits: each recorded reply is a step of it, and
\* nothing else is.
THEOREM EngineImplementsV1 == OutboxSpec => ImplementsV1
<1>. DEFINE seen == IF supervisor = NoAgent THEN Replies ELSE <<>>
<1>1. OutboxInit => V1!Init
  BY DEF OutboxInit, Init, V1!Init, Replies
<1>2. FullInv /\ [OutboxNext]_vars => [V1!Next]_seen
  <2>. SUFFICES ASSUME FullInv, [OutboxNext]_vars
                PROVE  V1!Next \/ UNCHANGED seen
    OBVIOUS
  <2>1. UNCHANGED <<supervisor, messages>> => UNCHANGED seen
    BY DEF Replies
  <2>2. CASE CreateConversation
    <3>1. messages = <<>> /\ messages' = <<>>
      BY <2>2 DEF CreateConversation, FullInv, EngineInv, AtMostOneOpen, Recorded, Tables
    <3>2. Replies = <<>> /\ Replies' = <<>>
      BY <3>1 DEF Replies
    <3>. QED BY <3>2
  <2>3. CASE StartConversation \/ CancelConversation
             \/ \E i \in DOMAIN turns : ClaimTurn(i) \/ LapseLease(i)
    BY <2>1, <2>3 DEF StartConversation, CancelConversation, ClaimTurn, LapseLease
  <2>4. ASSUME NEW i \in DOMAIN turns, NEW result \in Answers,
               NEW token \in 1..turns[i].claims, ReplyTurn(i, token, result)
        PROVE  V1!Next \/ UNCHANGED seen
    <3>1. token \in Nat
      OBVIOUS
    <3>2. CASE supervisor = NoAgent
      BY <2>4, <3>1, <3>2, ReplyIsProtocolStep DEF FullInv
    <3>3. CASE supervisor # NoAgent
      <4>1. supervisor' = supervisor
        BY <2>4, Zenon DEF ReplyTurn
      <4>. QED BY <3>3, <4>1
    <3>. QED BY <3>2, <3>3
  <2>5. CASE ReadRow \/ ProviderStores \/ ProviderFails \/ RecordResult \/ FailToRecord \/ Restart
    BY <2>1, <2>5, DispatchOutbox DEF FullInv, conversationVars
  <2>6. CASE UNCHANGED vars
    BY <2>1, <2>6 DEF vars, engineVars
  <2>. QED BY <2>2, <2>3, <2>4, <2>5, <2>6 DEF OutboxNext, EngineNext
<1>3. ImplementsV1 <=> V1!Init /\ [][V1!Next]_seen
  BY DEF ImplementsV1, V1!Spec
<1>. QED BY <1>1, <1>2, <1>3, EngineInvariant, PTL DEF OutboxSpec
=============================================================================
