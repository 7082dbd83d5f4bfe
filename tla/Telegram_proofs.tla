--------------------------- MODULE Telegram_proofs ---------------------------
(***************************************************************************)
(* The Telegram process and its wizard, for any steps, peers, batches,     *)
(* windows and failures.  The wizard's part is that every button in the    *)
(* chat is one of the session rendered last, so that whatever is pressed,  *)
(* in whatever order, one session moves through its states by the table.   *)
(* The runner's part is that at most one update has been run and not       *)
(* passed, the one after the offset, and that the dispatcher claimed       *)
(* nothing after it: it is in the window, whatever the window's size.      *)
(***************************************************************************)
EXTENDS Telegram, SequenceTheorems, FiniteSetTheorems, TLAPS

\* What holds of a session whatever is done to it.
SessionOK(session) ==
    /\ session \in Session
    /\ session.state \in {"CONFIRM", "STARTED"} => session.summary = session.choice
    /\ session.answered =
           IF session.state = "STARTED" THEN {session.conversation} ELSE {}
    /\ session.state = "STARTED" <=> session.conversation # "none"
    /\ session.answered \subseteq conversations

SessionsOK == \A id \in DOMAIN sessions : SessionOK(sessions[id])
WizardInv ==
    /\ sessions \in [DOMAIN sessions -> Session]
    /\ WizardTypeOK /\ SessionsOK /\ OneSessionOfButtons

UpdateRecord == [content : Contents, runs : Nat, ran : BOOLEAN, made : Nat]

Runner ==
    /\ updates \in Seq(UpdateRecord) /\ Len(updates) <= MaxBatch
    /\ offset \in 0..Len(updates) /\ durable \in 0..Len(updates)
    /\ next \in 0..Len(updates)
    /\ next # 0 => next = offset + 1
    /\ running \in BOOLEAN /\ handed \in BOOLEAN /\ failures \in 0..MaxFailures
    /\ handed => next # 0
    /\ seen \in Seq(Nat) /\ Len(seen) <= MaxSeen
    /\ \A k \in 1..Len(seen) : seen[k] <= Len(updates)

\* The last claim is that of the one update that was run and not passed.
ClaimedLast(i) == seen # <<>> /\ seen[Len(seen)] = i
Runs ==
    \A i \in 1..Len(updates) :
        /\ updates[i].runs <= 1
        /\ updates[i].runs = 0 \/ i <= offset \/ (i = offset + 1 /\ ClaimedLast(i))

Accounted ==
    /\ \A i \in 1..Len(updates) : i <= offset \/ i <= durable => updates[i].ran
    /\ \A k \in 1..Len(seen) : seen[k] # 0 => updates[seen[k]].ran
    /\ handed => updates[next].ran

\* A button that still means something has been run by this process or never.
Made ==
    \A i \in 1..Len(updates) :
        /\ updates[i].made <= Cardinality(conversations)
        /\ updates[i].content[1] = "press" =>
              /\ updates[i].made <= 1
              /\ updates[i].runs = 0 /\ updates[i].content # Pressed(StaleButton)
                    => updates[i].made = 0

RunnerInv == Runner /\ Runs /\ Accounted /\ Made

-----------------------------------------------------------------------------
(* Steps, screens and moves.                                                *)

LEMMA StepFacts ==
    /\ ToSet(Steps) \subseteq {"SELECT_PEER", "SELECT_DIALOGUE_TYPE",
           "ENTER_OBJECTIVE", "SELECT_ROLE_A", "SELECT_ROLE_B", "SELECT_ROUNDS",
           "SELECT_OUTPUT_MODE"}
    /\ RoleSteps \subseteq ToSet(Steps)
    /\ ToSet(Browsing) =
           {"CONVERSATION_LIST", "CONVERSATION_DETAIL", "CONVERSATION_MODE"}
<1>1. ToSet(SelectionScreens) \subseteq {"SELECT_PEER", "SELECT_DIALOGUE_TYPE",
          "ENTER_OBJECTIVE", "SELECT_ROLE_A", "SELECT_ROLE_B", "SELECT_ROUNDS",
          "SELECT_OUTPUT_MODE"}
  BY DEF ToSet, SelectionScreens
<1>2. ToSet(Steps) \subseteq ToSet(SelectionScreens)
  BY WizardConstants DEF ToSet
<1>3. RoleSteps \subseteq ToSet(Steps)
  BY DEF RoleSteps
<1>4. ToSet(Browsing) =
          {"CONVERSATION_LIST", "CONVERSATION_DETAIL", "CONVERSATION_MODE"}
  BY DEF ToSet, Browsing
<1>. QED BY <1>1, <1>2, <1>3, <1>4

\* A move leads to a screen of the wizard, never to an end.
LEMMA MoveFacts ==
    ASSUME NEW state, NEW target, <<state, target>> \in Transitions
    PROVE  target \in States \ {"STARTED", "CANCELLED"}
<1>. DEFINE Places == {"ROOT", "CONFIRM"} \cup ToSet(Steps) \cup ToSet(Browsing)
<1>1. Steps \in Seq(Places)
  BY WizardConstants DEF ToSet
<1>2. Line \in Seq(Places) /\ <<"ROOT">> \o Browsing \in Seq(Places)
  <2>1. <<"ROOT">> \in Seq(Places) /\ <<"CONFIRM">> \in Seq(Places)
    OBVIOUS
  <2>2. Browsing \in Seq(Places)
    BY StepFacts DEF Browsing
  <2>. HIDE DEF Places
  <2>3. <<"ROOT">> \o Steps \in Seq(Places)
    BY <1>1, <2>1, ConcatProperties
  <2>. QED BY <2>1, <2>2, <2>3, ConcatProperties DEF Line
<1>3. ASSUME NEW line \in Seq(Places), NEW move \in Adjacent(line)
      PROVE  move[1] \in Places /\ move[2] \in Places
  <2>1. PICK i \in 1..Len(line) - 1 : move = <<line[i], line[i + 1]>>
    BY <1>3 DEF Adjacent
  <2>2. i \in 1..Len(line) /\ i + 1 \in 1..Len(line)
    BY <1>3
  <2>. QED BY <1>3, <2>1, <2>2
<1>4. \A move \in Forward : move[1] \in Places /\ move[2] \in Places
  BY <1>2, <1>3 DEF Forward
<1>5. target \in Places
  BY <1>4 DEF Transitions
<1>. QED BY <1>5, StepFacts DEF States

\* The buttons of a screen, one kind of screen at a time.
LEMMA ScreenActions ==
    ASSUME NEW state \in States, NEW trusted \in SUBSET Peers
    PROVE  Screen(state, trusted) \subseteq Actions
<1>1. CASE state = "ROOT"
  <2>1. Screen("ROOT", trusted) = {"ROOT"} \X {"new", "conversations"}
    BY Zenon DEF Screen, RoleSteps
  <2>. QED BY <1>1, <2>1 DEF Actions
<1>2. CASE state = "SELECT_PEER"
  <2>1. Screen("SELECT_PEER", trusted) = {Back} \cup ({"SELECT_PEER"} \X trusted)
    BY Zenon DEF Screen, RoleSteps
  <2>. QED BY <1>2, <2>1, StepFacts DEF Actions, States
<1>3. CASE state = "SELECT_DIALOGUE_TYPE"
  <2>1. Screen("SELECT_DIALOGUE_TYPE", trusted) =
            {<<"SELECT_DIALOGUE_TYPE", "listed">>, Back}
    BY Zenon DEF Screen, RoleSteps
  <2>. QED BY <1>3, <2>1, StepFacts DEF Actions, States
<1>4. CASE state = "ENTER_OBJECTIVE"
  <2>1. Screen("ENTER_OBJECTIVE", trusted) = {Back}
    BY Zenon DEF Screen, RoleSteps
  <2>. QED BY <1>4, <2>1 DEF Actions
<1>5. CASE state \in RoleSteps
  <2>1. Screen(state, trusted) =
            {<<state, "listed">>, <<state, "custom_input">>, Back}
    BY <1>5, Zenon DEF Screen, RoleSteps
  <2>. QED BY <1>5, <2>1, StepFacts DEF Actions
<1>6. CASE state \in {"SELECT_ROUNDS", "SELECT_OUTPUT_MODE"}
  <2>1. Screen(state, trusted) = {<<state, "listed">>}
    BY <1>6, Zenon DEF Screen, RoleSteps
  <2>. QED BY <1>6, <2>1, StepFacts DEF Actions, States
<1>7. CASE state = "CONFIRM"
  <2>1. Screen("CONFIRM", trusted) = {Confirm, Back, Cancel}
    BY Zenon DEF Screen, RoleSteps
  <2>. QED BY <1>7, <2>1 DEF Actions
<1>8. CASE state = "CONVERSATION_LIST"
  <2>1. Screen("CONVERSATION_LIST", trusted) =
            {Back} \cup {<<"CONVERSATION_LIST", "open">> : c \in conversations}
    BY Zenon DEF Screen, RoleSteps
  <2>. QED BY <1>8, <2>1 DEF Actions
<1>9. CASE state = "CONVERSATION_DETAIL"
  <2>1. Screen("CONVERSATION_DETAIL", trusted) =
            {<<"CONVERSATION_DETAIL", "mode">>, Back}
    BY Zenon DEF Screen, RoleSteps
  <2>. QED BY <1>9, <2>1 DEF Actions
<1>10. CASE state = "CONVERSATION_MODE"
  <2>1. Screen("CONVERSATION_MODE", trusted) = {Back}
    BY Zenon DEF Screen, RoleSteps
  <2>. QED BY <1>10, <2>1 DEF Actions
<1>11. CASE state \in {"STARTED", "CANCELLED"}
  <2>1. Screen(state, trusted) = {}
    BY <1>11, Zenon DEF Screen, RoleSteps
  <2>. QED BY <2>1
<1>. QED BY <1>1, <1>2, <1>3, <1>4, <1>5, <1>6, <1>7, <1>8, <1>9, <1>10, <1>11,
            StepFacts DEF States, RoleSteps

-----------------------------------------------------------------------------
(* What the handlers do to a session.                                       *)

NothingNew == conversations' = conversations

\* The chat's session is replaced by another state of it, and rendered.
LEMMA SessionUpdated ==
    ASSUME WizardInv, NEW id \in DOMAIN sessions, id = bridgeSession,
           NEW session, SessionOK(session), NEW extra \in SUBSET Actions,
           Update(id, session, extra)
    PROVE  WizardInv' /\ NothingNew
<1>1. /\ sessions' = [sessions EXCEPT ![id] = session]
      /\ bridgeSession' = id
      /\ UNCHANGED <<callerSession, conversations>>
  BY DEF Update, Render
<1>2. PICK trusted \in SUBSET Peers :
          buttons' = buttons \cup ({id} \X (Screen(session.state, trusted) \cup extra))
  BY DEF Update, Render
<1>3. Screen(session.state, trusted) \subseteq Actions
  BY ScreenActions DEF SessionOK, Session
<1>4. /\ sessions \in [DOMAIN sessions -> Session] /\ session \in Session
      /\ DOMAIN sessions \subseteq SessionIds
  BY DEF WizardInv, WizardTypeOK, SessionOK
<1>5. /\ DOMAIN sessions' = DOMAIN sessions /\ sessions' \in [DOMAIN sessions -> Session]
      /\ \A other \in DOMAIN sessions :
            sessions'[other] = IF other = id THEN session ELSE sessions[other]
  BY <1>1, <1>4
<1>6. SessionsOK'
  <2>1. \A other \in DOMAIN sessions : SessionOK(sessions[other])
    BY DEF WizardInv, SessionsOK
  <2>2. \A other \in DOMAIN sessions : SessionOK(sessions[other])'
    BY <1>1, <1>5, <2>1 DEF SessionOK
  <2>. QED BY <1>5, <2>2 DEF SessionsOK
<1>7. buttons' \subseteq SessionIds \X Actions /\ \A b \in buttons' : b[1] = id
  BY <1>2, <1>3, <1>4 DEF WizardInv, WizardTypeOK, OneSessionOfButtons
<1>8. WizardTypeOK'
  BY <1>1, <1>4, <1>5, <1>7 DEF WizardInv, WizardTypeOK
<1>9. OneSessionOfButtons'
  BY <1>1, <1>7 DEF WizardInv, OneSessionOfButtons
<1>. QED BY <1>1, <1>5, <1>6, <1>8, <1>9 DEF WizardInv, NothingNew

\* A session whose data alone change, on a screen that stays.
LEMMA SessionStored ==
    ASSUME WizardInv, NEW id \in DOMAIN sessions, NEW session, SessionOK(session),
           sessions' = [sessions EXCEPT ![id] = session],
           UNCHANGED <<callerSession, bridgeSession, buttons, conversations>>
    PROVE  WizardInv' /\ NothingNew
<1>1. /\ sessions \in [DOMAIN sessions -> Session] /\ session \in Session
      /\ DOMAIN sessions \subseteq SessionIds
  BY DEF WizardInv, WizardTypeOK, SessionOK
<1>2. /\ DOMAIN sessions' = DOMAIN sessions /\ sessions' \in [DOMAIN sessions -> Session]
      /\ \A other \in DOMAIN sessions :
            sessions'[other] = IF other = id THEN session ELSE sessions[other]
  BY <1>1
<1>3. SessionsOK'
  BY <1>2 DEF WizardInv, SessionsOK, SessionOK
<1>4. WizardTypeOK' /\ OneSessionOfButtons'
  BY <1>1, <1>2 DEF WizardInv, WizardTypeOK, OneSessionOfButtons
<1>. QED BY <1>2, <1>3, <1>4 DEF WizardInv, NothingNew

\* A move shows on CONFIRM what it leaves chosen.
LEMMA SessionMoved ==
    ASSUME WizardInv, NEW id \in DOMAIN sessions, id = bridgeSession,
           NEW session, SessionOK(session), session.state # "STARTED",
           NEW target, Transition(id, session, target)
    PROVE  WizardInv' /\ NothingNew
<1>1. CASE <<session.state, target>> \in Transitions
  <2>. DEFINE shown == IF target = "CONFIRM" THEN session.choice ELSE NoChoice
              moved == [session EXCEPT !.state = target]
              next_ == [moved EXCEPT !.summary = shown]
              extra == IF Cancellable(target) THEN {Cancel} ELSE {}
  <2>1. Update(id, next_, extra)
    BY <1>1, Zenon DEF Transition
  <2>2. target \in States /\ target # "STARTED"
    BY <1>1, MoveFacts
  <2>3. session \in Session /\ session.choice \in Choice /\ shown \in Choice
    BY DEF SessionOK, Session, NoChoice, Choice
  <2>. HIDE DEF shown
  <2>4. /\ moved \in Session /\ moved.state = target /\ moved.choice = session.choice
        /\ moved.answered = session.answered
        /\ moved.conversation = session.conversation
    BY <2>2, <2>3 DEF Session
  <2>. HIDE DEF moved
  <2>5. /\ next_ \in Session /\ next_.state = target /\ next_.choice = session.choice
        /\ next_.answered = session.answered /\ next_.summary = shown
        /\ next_.conversation = session.conversation
    BY <2>3, <2>4 DEF Session
  <2>. HIDE DEF next_
  <2>6. SessionOK(next_)
    BY <2>2, <2>5 DEF SessionOK, shown
  <2>7. extra \in SUBSET Actions
    BY DEF Actions
  <2>. HIDE DEF extra
  <2>. QED BY <2>1, <2>6, <2>7, SessionUpdated
<1>2. CASE <<session.state, target>> \notin Transitions
  <2>1. /\ sessions' = [sessions EXCEPT ![id] = session]
        /\ UNCHANGED <<callerSession, bridgeSession, buttons, conversations>>
    BY <1>2, Zenon DEF Transition
  <2>. QED BY <2>1, SessionStored
<1>. QED BY <1>1, <1>2

\* A choice changes what is chosen, away from the confirmation.
LEMMA ChoiceMade ==
    ASSUME NEW session, SessionOK(session), NEW step \in ToSet(Steps),
           session.state = step, NEW option \in Options
    PROVE  /\ SessionOK(WithChoice(session, step, option))
           /\ WithChoice(session, step, option).state = session.state
<1>. DEFINE answered == [session EXCEPT !.asked = @ \ {step}]
            choice == [session.choice EXCEPT ![step] = option]
            made == [answered EXCEPT !.choice = choice]
<1>1. session \in Session /\ session.choice \in Choice
  BY DEF SessionOK, Session
<1>2. /\ answered \in Session /\ answered.state = session.state
      /\ answered.answered = session.answered
      /\ answered.conversation = session.conversation
  BY <1>1 DEF Session
<1>3. choice \in Choice
  BY <1>1 DEF Choice
<1>. HIDE DEF answered, choice
<1>4. /\ made \in Session /\ made.state = session.state
      /\ made.answered = session.answered
      /\ made.conversation = session.conversation
  BY <1>2, <1>3 DEF Session
<1>5. WithChoice(session, step, option) = made
  BY Zenon DEF WithChoice, answered, choice
<1>. HIDE DEF made
<1>6. session.state \notin {"CONFIRM", "STARTED"}
  BY StepFacts
<1>. QED BY <1>4, <1>5, <1>6 DEF SessionOK

LEMMA UnchangedWizard ==
    ASSUME WizardInv, UNCHANGED wizardVars
    PROVE  WizardInv' /\ NothingNew
BY DEF WizardInv, WizardTypeOK, OneSessionOfButtons, SessionsOK, SessionOK, wizardVars, memory,
       NothingNew

LEMMA ChooseStep ==
    ASSUME WizardInv, NEW id \in DOMAIN sessions, id = bridgeSession,
           NEW option, <<sessions[id].state, option>> \in Actions,
           sessions[id].state \in ToSet(Steps),
           Choose(id, sessions[id].state, option)
    PROVE  WizardInv' /\ NothingNew
<1>. DEFINE session == sessions[id]
            step == session.state
<1>1. SessionOK(session) /\ step # "STARTED"
  BY StepFacts DEF WizardInv, SessionsOK
<1>2. CASE option = "custom_input"
  <2>. DEFINE asking == [session EXCEPT !.asked = @ \cup {step}]
  <2>1. step \in RoleSteps
    BY <1>2, StepFacts, WizardConstants DEF Actions, Back, Cancel, Confirm
  <2>2. session \in Session
    BY <1>1 DEF SessionOK
  <2>3. /\ asking \in Session /\ asking.state = step
        /\ asking.answered = session.answered /\ asking.choice = session.choice
        /\ asking.conversation = session.conversation
        /\ asking.summary = session.summary
    BY <2>1, <2>2 DEF Session
  <2>4. Transition(id, asking, step)
    BY <1>2, Zenon DEF Choose
  <2>. HIDE DEF asking
  <2>5. SessionOK(asking)
    BY <1>1, <2>3 DEF SessionOK
  <2>. QED BY <1>1, <2>3, <2>4, <2>5, SessionMoved
<1>3. CASE option # "custom_input"
  <2>1. option \in Options
    BY <1>3, StepFacts DEF Actions, Back, Cancel, Confirm, Options
  <2>2. \/ Transition(id, WithChoice(session, step, option), Following(step))
        \/ Rejected
    BY <1>3, Zenon DEF Choose
  <2>3. /\ SessionOK(WithChoice(session, step, option))
        /\ WithChoice(session, step, option).state = step
    BY <1>1, <2>1, ChoiceMade
  <2>4. CASE Rejected
    BY <2>4, UnchangedWizard DEF Rejected
  <2>5. CASE Transition(id, WithChoice(session, step, option), Following(step))
    BY <1>1, <2>3, <2>5, SessionMoved
  <2>. QED BY <2>2, <2>4, <2>5
<1>. QED BY <1>2, <1>3

Created ==
    /\ NewConversation \in Conversations \ conversations
    /\ conversations' = conversations \cup {NewConversation}

LEMMA CreatesOne ==
    ASSUME WizardInv, Creates
    PROVE  Created
<1>1. \E c \in Conversations : c \notin conversations
  BY DEF Creates, WizardInv, WizardTypeOK
<1>2. NewConversation \in Conversations /\ NewConversation \notin conversations
  BY <1>1, Zenon DEF NewConversation
<1>. QED BY <1>2 DEF Creates, Created

\* A conversation whose answer is lost: the wizard does not know of it.
LEMMA CreatedUnanswered ==
    ASSUME WizardInv, Creates, UNCHANGED memory
    PROVE  WizardInv' /\ Created
<1>1. Created
  BY CreatesOne
<1>. QED BY <1>1 DEF WizardInv, WizardTypeOK, OneSessionOfButtons, SessionsOK,
                     SessionOK, memory, Created

LEMMA AnsweredStep ==
    ASSUME WizardInv, NEW id \in DOMAIN sessions, id = bridgeSession,
           sessions[id].state = "CONFIRM", Answered(id)
    PROVE  WizardInv' /\ Created
<1>. DEFINE session == sessions[id]
            started == Started(session, NewConversation)
<1>1. Created
  BY CreatesOne DEF Answered
<1>2. /\ SessionOK(session) /\ session \in Session /\ session.state = "CONFIRM"
      /\ sessions \in [DOMAIN sessions -> Session] /\ DOMAIN sessions \subseteq SessionIds
  BY DEF WizardInv, SessionsOK, SessionOK, WizardTypeOK
<1>3. /\ session.choice \in Choice /\ session.asked \in SUBSET RoleSteps
      /\ session.summary = session.choice /\ session.answered = {}
  BY <1>2 DEF SessionOK, Session
<1>. HIDE DEF session
<1>4. /\ started \in Session /\ started.state = "STARTED"
      /\ started.summary = started.choice
      /\ started.answered = {NewConversation}
      /\ started.conversation = NewConversation /\ NewConversation # "none"
  BY <1>1, <1>3, WizardConstants DEF Started, Session, Created, States
<1>5. /\ sessions' = [sessions EXCEPT ![id] = started]
      /\ bridgeSession' = id /\ callerSession' = callerSession
  BY Zenon DEF Answered, Render, session
<1>. HIDE DEF started
<1>6. PICK trusted \in SUBSET Peers :
          buttons' = buttons \cup ({id} \X (Screen("STARTED", trusted) \cup {}))
  BY DEF Answered, Render
<1>7. Screen("STARTED", trusted) \subseteq Actions
  BY ScreenActions DEF States
<1>8. /\ DOMAIN sessions' = DOMAIN sessions /\ sessions' \in [DOMAIN sessions -> Session]
      /\ \A other \in DOMAIN sessions :
            sessions'[other] = IF other = id THEN started ELSE sessions[other]
  BY <1>2, <1>4, <1>5
<1>9. SessionsOK'
  <2>. SUFFICES ASSUME NEW other \in DOMAIN sessions
                PROVE  SessionOK(sessions[other])'
    BY <1>8 DEF SessionsOK
  <2>1. CASE other = id
    BY <1>1, <1>4, <1>8, <2>1 DEF SessionOK, Created
  <2>2. CASE other # id
    <3>1. SessionOK(sessions[other]) /\ sessions'[other] = sessions[other]
      BY <1>8, <2>2 DEF WizardInv, SessionsOK
    <3>. QED BY <1>1, <3>1 DEF SessionOK, Created
  <2>. QED BY <2>1, <2>2
<1>10. buttons' \subseteq SessionIds \X Actions /\ \A b \in buttons' : b[1] = id
  BY <1>2, <1>6, <1>7 DEF WizardInv, WizardTypeOK, OneSessionOfButtons
<1>11. WizardTypeOK'
  BY <1>1, <1>2, <1>5, <1>8, <1>10 DEF WizardInv, WizardTypeOK, Created
<1>12. OneSessionOfButtons'
  BY <1>5, <1>10 DEF WizardInv, OneSessionOfButtons
<1>. QED BY <1>1, <1>8, <1>9, <1>11, <1>12 DEF WizardInv

LEMMA StartStep ==
    ASSUME WizardInv, NEW id \in DOMAIN sessions, id = bridgeSession,
           sessions[id].state \in {"CONFIRM", "STARTED"}, Start(id)
    PROVE  WizardInv' /\ (NothingNew \/ Created)
<1>1. SessionOK(sessions[id])
  BY DEF WizardInv, SessionsOK
<1>2. CASE sessions[id].conversation # "none"
  <2>1. Update(id, sessions[id], {})
    BY <1>2, Zenon DEF Start
  <2>. QED BY <1>1, <2>1, SessionUpdated
<1>3. CASE sessions[id].conversation = "none"
  <2>1. sessions[id].state = "CONFIRM"
    BY <1>1, <1>3 DEF SessionOK
  <2>2. Rejected \/ (Creates /\ UNCHANGED memory) \/ Answered(id)
    BY <1>3, Zenon DEF Start
  <2>. QED BY <2>1, <2>2, UnchangedWizard, CreatedUnanswered, AnsweredStep DEF Rejected
<1>. QED BY <1>2, <1>3

LEMMA ActionStep ==
    ASSUME WizardInv, NEW id \in DOMAIN sessions, id = bridgeSession,
           NEW action \in Actions, HandleAction(id, action)
    PROVE  WizardInv' /\ (NothingNew \/ Created)
<1>. DEFINE session == sessions[id]
            state == session.state
<1>1. SessionOK(session)
  BY DEF WizardInv, SessionsOK
<1>2. CASE Rejected
  BY <1>2, UnchangedWizard DEF Rejected
<1>3. CASE state \in {"CONFIRM", "STARTED"} /\ Start(id)
  BY <1>3, StartStep
<1>4. CASE state \notin {"CANCELLED", "STARTED"} /\ GoBack(id)
  <2>1. Update(id, session, {}) \/ Transition(id, session, Preceding(state))
    BY <1>4, Zenon DEF GoBack
  <2>. QED BY <1>1, <1>4, <2>1, SessionUpdated, SessionMoved
<1>5. CASE state \notin {"CANCELLED", "STARTED"} /\ GoCancel(id)
  <2>. DEFINE cancelled == [session EXCEPT !.state = "CANCELLED"]
  <2>1. Update(id, cancelled, {})
    BY <1>5, Zenon DEF GoCancel
  <2>2. session \in Session
    BY <1>1 DEF SessionOK
  <2>3. /\ cancelled \in Session /\ cancelled.state = "CANCELLED"
        /\ cancelled.answered = session.answered
        /\ cancelled.conversation = session.conversation
    BY <2>2 DEF Session, States
  <2>. HIDE DEF cancelled
  <2>4. SessionOK(cancelled)
    BY <1>1, <1>5, <2>3 DEF SessionOK
  <2>. QED BY <2>1, <2>4, SessionUpdated
<1>6. CASE state = "ROOT" /\ Root(id, action[2])
  <2>1. \E target : Transition(id, session, target)
    BY <1>6, Zenon DEF Root
  <2>. QED BY <1>1, <1>6, <2>1, SessionMoved
<1>7. CASE state \in ToSet(Browsing) /\ Browse(id, action[2])
  <2>1. Rejected \/ \E target : Transition(id, session, target)
    BY <1>7, Zenon DEF Browse
  <2>2. state # "STARTED"
    BY <1>7, StepFacts
  <2>. QED BY <1>1, <2>1, <2>2, SessionMoved, UnchangedWizard DEF Rejected
<1>8. CASE /\ state \in ToSet(Steps) /\ action[1] = state
           /\ Choose(id, state, action[2])
  <2>1. action = <<state, action[2]>>
    BY <1>8 DEF Actions, Back, Cancel, Confirm
  <2>. QED BY <1>8, <2>1, ChooseStep
<1>. QED
  BY <1>2, <1>3, <1>4, <1>5, <1>6, <1>7, <1>8, Zenon DEF HandleAction, OnScreen

-----------------------------------------------------------------------------
(* What the chat sends, and what time and the process do.                   *)

LEMMA PressStep ==
    ASSUME WizardInv, NEW button, Press(button)
    PROVE  WizardInv' /\ (NothingNew \/ Created)
<1>1. CASE Rejected
  BY <1>1, UnchangedWizard DEF Rejected
<1>2. CASE /\ button \in buttons /\ button[1] \in DOMAIN sessions
           /\ HandleAction(button[1], button[2])
  <2>1. button[1] = bridgeSession /\ button[2] \in Actions
    BY <1>2 DEF WizardInv, WizardTypeOK, OneSessionOfButtons
  <2>. QED BY <1>2, <2>1, ActionStep
<1>. QED BY <1>1, <1>2 DEF Press

LEMMA OpenStep ==
    ASSUME WizardInv, Open
    PROVE  WizardInv' /\ NothingNew
<1>1. CASE Resumable
  <2>1. /\ callerSession \in DOMAIN sessions /\ callerSession = bridgeSession
    BY <1>1, WizardConstants DEF Resumable, WizardInv, WizardTypeOK, OneSessionOfButtons
  <2>2. SessionOK(sessions[callerSession])
    BY <2>1 DEF WizardInv, SessionsOK
  <2>3. Update(callerSession, sessions[callerSession], {})
    BY <1>1, Zenon DEF Open
  <2>. QED BY <2>1, <2>2, <2>3, SessionUpdated
<1>2. CASE ~Resumable
  <2>. DEFINE id == CHOOSE other \in SessionIds : other # bridgeSession
  <2>1. \E other \in SessionIds : other # bridgeSession
    BY WizardConstants
  <2>2. id \in SessionIds /\ id # bridgeSession
    BY <2>1, Zenon
  <2>3. /\ sessions' = [new \in {id} |-> NewSession]
        /\ callerSession' = id
        /\ Render(id, "ROOT", {}, {b \in buttons : b[1] # bridgeSession})
        /\ UNCHANGED conversations
    BY <1>2, Zenon DEF Open
  <2>. HIDE DEF id
  <2>4. PICK trusted \in SUBSET Peers :
            /\ bridgeSession' = id
            /\ buttons' = {b \in buttons : b[1] # bridgeSession}
                              \cup ({id} \X (Screen("ROOT", trusted) \cup {}))
    BY <2>3 DEF Render
  <2>5. Screen("ROOT", trusted) \subseteq Actions
    BY ScreenActions DEF States
  <2>6. buttons' \subseteq SessionIds \X Actions /\ \A b \in buttons' : b[1] = id
    BY <2>2, <2>4, <2>5 DEF WizardInv, WizardTypeOK, OneSessionOfButtons
  <2>7. /\ NewSession \in Session /\ NewSession.state = "ROOT"
        /\ NewSession.answered = {} /\ NewSession.conversation = "none"
    BY DEF NewSession, Session, States, NoChoice, Choice
  <2>8. /\ DOMAIN sessions' = {id} /\ sessions'[id] = NewSession
        /\ sessions' \in [DOMAIN sessions' -> Session]
    BY <2>3, <2>7
  <2>9. SessionsOK'
    BY <2>7, <2>8 DEF SessionsOK, SessionOK
  <2>10. WizardTypeOK'
    BY <2>2, <2>3, <2>4, <2>6, <2>7, <2>8 DEF WizardInv, WizardTypeOK
  <2>11. OneSessionOfButtons'
    BY <2>3, <2>4, <2>6 DEF OneSessionOfButtons
  <2>. QED BY <2>3, <2>8, <2>9, <2>10, <2>11 DEF WizardInv, NothingNew
<1>. QED BY <1>1, <1>2

LEMMA TextStep ==
    ASSUME WizardInv, NEW command \in BOOLEAN, Text(command)
    PROVE  WizardInv' /\ (NothingNew \/ Created)
<1>1. CASE /\ Awaited # "none"
           /\ Transition(bridgeSession,
                  WithChoice(sessions[bridgeSession], Awaited, "typed"),
                  Following(Awaited))
  <2>. DEFINE session == sessions[bridgeSession]
  <2>1. /\ bridgeSession \in DOMAIN sessions /\ Awaited = session.state
        /\ session.state \in {"ENTER_OBJECTIVE"} \cup session.asked
    BY <1>1, Zenon DEF Awaited
  <2>2. SessionOK(session)
    BY <2>1 DEF WizardInv, SessionsOK
  <2>3. session.state \in ToSet(Steps) /\ session.state # "STARTED"
    BY <2>1, <2>2, StepFacts DEF SessionOK, Session, States
  <2>4. "typed" \in Options
    BY DEF Options
  <2>5. /\ SessionOK(WithChoice(session, session.state, "typed"))
        /\ WithChoice(session, session.state, "typed").state = session.state
    BY <2>2, <2>3, <2>4, ChoiceMade
  <2>. QED BY <1>1, <2>1, <2>3, <2>5, SessionMoved
<1>2. CASE Rejected
  BY <1>2, UnchangedWizard DEF Rejected
<1>3. CASE Creates /\ UNCHANGED memory
  BY <1>3, CreatedUnanswered
<1>. QED BY <1>1, <1>2, <1>3, Zenon DEF Text, StartCommand

LEMMA ExpireStep ==
    ASSUME WizardInv, NEW id \in DOMAIN sessions, Expire(id)
    PROVE  WizardInv' /\ NothingNew
<1>1. /\ sessions' = [other \in DOMAIN sessions \ {id} |-> sessions[other]]
      /\ callerSession' \in {callerSession, "none"}
      /\ UNCHANGED <<bridgeSession, buttons, conversations>>
  BY DEF Expire
<1>2. /\ DOMAIN sessions' = DOMAIN sessions \ {id}
      /\ \A other \in DOMAIN sessions' : sessions'[other] = sessions[other]
      /\ sessions' \in [DOMAIN sessions' -> Session]
  BY <1>1 DEF WizardInv
<1>3. SessionsOK'
  BY <1>1, <1>2 DEF WizardInv, SessionsOK, SessionOK
<1>. QED BY <1>1, <1>2, <1>3 DEF WizardInv, WizardTypeOK, OneSessionOfButtons, NothingNew

LEMMA ForgetStep ==
    ASSUME WizardInv, Forget
    PROVE  WizardInv' /\ NothingNew
<1>1. /\ DOMAIN sessions' = {} /\ sessions' \in [DOMAIN sessions' -> Session]
      /\ callerSession' = "none" /\ bridgeSession' = "none" /\ buttons' = {}
      /\ conversations' = conversations
  BY DEF Forget
<1>. QED BY <1>1 DEF WizardInv, WizardTypeOK, OneSessionOfButtons, SessionsOK, NothingNew

\* An update of any content, run by the adapter.
LEMMA RouteStep ==
    ASSUME WizardInv, NEW content, Route(content)
    PROVE  WizardInv' /\ (NothingNew \/ Created)
BY OpenStep, TextStep, PressStep, Zenon DEF Route

\* A button of a process that is gone does nothing.
LEMMA StaleStep ==
    ASSUME WizardInv, Route(Pressed(StaleButton))
    PROVE  NothingNew
<1>1. Pressed(StaleButton)[1] = "press" /\ Pressed(StaleButton)[2] = StaleButton
      /\ \A text : Pressed(StaleButton) # Message(text)
  BY DEF Pressed, Message
<1>2. Press(StaleButton)
  BY <1>1 DEF Route
<1>3. StaleButton \notin buttons
  BY WizardConstants DEF StaleButton, WizardInv, WizardTypeOK
<1>. QED BY <1>2, <1>3 DEF Press, Rejected, wizardVars, NothingNew

-----------------------------------------------------------------------------
(* The records of updates.                                                  *)

LEMMA RanFacts ==
    ASSUME NEW update \in UpdateRecord, NEW created \in Nat
    PROVE  /\ Ran(update, created) \in UpdateRecord
           /\ Ran(update, created).content = update.content
           /\ Ran(update, created).ran = TRUE
           /\ Ran(update, created).runs = update.runs + 1
           /\ Ran(update, created).made = update.made + created
BY DEF Ran, UpdateRecord

LEMMA StaleFacts ==
    ASSUME NEW content \in Contents
    PROVE  /\ Stale(content) \in Contents /\ Stale(content)[1] = content[1]
           /\ content[1] = "press" => Stale(content) = Pressed(StaleButton)
<1>1. Pressed(StaleButton) \in Contents /\ Pressed(StaleButton)[1] = "press"
  BY DEF Contents, Pressed
<1>. QED BY <1>1 DEF Stale

LEMMA SettledFacts ==
    ASSUME NEW update \in UpdateRecord
    PROVE  /\ Settled(update) \in UpdateRecord
           /\ Settled(update).content = Stale(update.content)
           /\ Settled(update).ran = update.ran
           /\ Settled(update).runs = update.runs
           /\ Settled(update).made = update.made
<1>1. Stale(update.content) \in Contents
  BY StaleFacts DEF UpdateRecord
<1>. QED BY <1>1 DEF Settled, UpdateRecord

LEMMA ForgottenFacts ==
    ASSUME NEW update \in UpdateRecord
    PROVE  LET forgotten == [Settled(update) EXCEPT !.runs = 0] IN
           /\ forgotten \in UpdateRecord
           /\ forgotten.content = Stale(update.content)
           /\ forgotten.ran = update.ran
           /\ forgotten.runs = 0
           /\ forgotten.made = update.made
<1>. DEFINE settled == Settled(update)
            forgotten == [settled EXCEPT !.runs = 0]
<1>1. /\ settled \in UpdateRecord
      /\ settled.content = Stale(update.content)
      /\ settled.ran = update.ran /\ settled.made = update.made
  BY SettledFacts
<1>. HIDE DEF settled
<1>2. /\ forgotten \in UpdateRecord /\ forgotten.content = settled.content
      /\ forgotten.ran = settled.ran /\ forgotten.runs = 0
      /\ forgotten.made = settled.made
  BY <1>1 DEF UpdateRecord
<1>. QED BY <1>1, <1>2 DEF settled

LEMMA ArrivingFacts ==
    ASSUME NEW content \in Contents
    PROVE  /\ Arriving(content) \in UpdateRecord
           /\ Arriving(content).content = content
           /\ Arriving(content).runs = 0 /\ Arriving(content).made = 0
BY DEF Arriving, UpdateRecord

\* The window keeps the claim that is made last, whatever its size.
LEMMA ClaimFacts ==
    ASSUME seen \in Seq(Nat), Len(seen) <= MaxSeen, NEW position \in Nat,
           Claim(position)
    PROVE  /\ seen' \in Seq(Nat) /\ Len(seen') <= MaxSeen
           /\ seen' # <<>> /\ seen'[Len(seen')] = position
           /\ \A k \in 1..Len(seen') :
                 seen'[k] = position \/ \E l \in 1..Len(seen) : seen'[k] = seen[l]
<1>. DEFINE window == Append(seen, position)
<1>1. /\ window \in Seq(Nat) /\ Len(window) = Len(seen) + 1 /\ window # <<>>
      /\ \A k \in 1..Len(seen) : window[k] = seen[k]
      /\ window[Len(seen) + 1] = position
      /\ Len(seen) \in Nat
  BY AppendProperties
<1>2. seen' = IF Len(window) > MaxSeen THEN Tail(window) ELSE window
  BY DEF Claim
<1>3. MaxSeen \in Nat \ {0}
  BY TelegramConstants
<1>. HIDE DEF window
<1>4. CASE Len(window) > MaxSeen
  <2>1. /\ seen' \in Seq(Nat) /\ Len(seen') = Len(seen)
        /\ \A k \in 1..Len(seen) : seen'[k] = window[k + 1]
    BY <1>1, <1>2, <1>4, HeadTailProperties
  <2>2. Len(seen) \in 1..Len(seen)
    BY <1>1, <1>3, <1>4
  <2>3. seen' # <<>> /\ seen'[Len(seen')] = position
    BY <1>1, <2>1, <2>2
  <2>4. ASSUME NEW k \in 1..Len(seen')
        PROVE  seen'[k] = position \/ \E l \in 1..Len(seen) : seen'[k] = seen[l]
    <3>1. CASE k = Len(seen)
      BY <1>1, <2>1, <3>1
    <3>2. CASE k # Len(seen)
      <4>1. k + 1 \in 1..Len(seen) /\ k \in 1..Len(seen)
        BY <1>1, <2>1, <3>2
      <4>. QED BY <1>1, <2>1, <4>1
    <3>. QED BY <3>1, <3>2
  <2>. QED BY <2>1, <2>3, <2>4
<1>5. CASE ~ (Len(window) > MaxSeen)
  <2>1. seen' = window
    BY <1>2, <1>5
  <2>2. \A k \in 1..Len(seen') : k \in 1..Len(seen) \/ k = Len(seen) + 1
    BY <1>1, <2>1
  <2>. QED BY <1>1, <1>3, <1>5, <2>1, <2>2
<1>. QED BY <1>4, <1>5

-----------------------------------------------------------------------------
(* The steps of the runner.                                                 *)

LEMMA RunnerTypes ==
    ASSUME RunnerInv
    PROVE  /\ Len(updates) \in Nat /\ DOMAIN updates = 1..Len(updates)
           /\ offset \in Nat /\ durable \in Nat /\ Len(seen) \in Nat
           /\ DOMAIN seen = 1..Len(seen)
           /\ next # 0 => next \in 1..Len(updates)
<1>1. updates \in Seq(UpdateRecord) /\ seen \in Seq(Nat)
  BY DEF RunnerInv, Runner
<1>2. /\ Len(updates) \in Nat /\ DOMAIN updates = 1..Len(updates)
      /\ Len(seen) \in Nat /\ DOMAIN seen = 1..Len(seen)
  BY <1>1
<1>3. offset \in 0..Len(updates) /\ durable \in 0..Len(updates) /\ next \in 0..Len(updates)
  BY Zenon DEF RunnerInv, Runner
<1>. QED BY <1>2, <1>3

LEMMA UpdateTypes ==
    ASSUME RunnerInv, NEW j \in 1..Len(updates)
    PROVE  /\ updates[j] \in UpdateRecord
           /\ updates[j].content \in Contents /\ updates[j].ran \in BOOLEAN
           /\ updates[j].runs \in Nat /\ updates[j].made \in Nat
<1>1. updates[j] \in UpdateRecord
  BY ElementOfSeq DEF RunnerInv, Runner
<1>. QED BY <1>1 DEF UpdateRecord

LEMMA CreatedCount ==
    ASSUME WizardInv, NothingNew \/ Created
    PROVE  /\ Cardinality(conversations' \ conversations) \in {0, 1}
           /\ NothingNew => Cardinality(conversations' \ conversations) = 0
           /\ Cardinality(conversations) \in Nat
           /\ Cardinality(conversations') =
                  Cardinality(conversations)
                      + Cardinality(conversations' \ conversations)
<1>1. IsFiniteSet(conversations) /\ Cardinality(conversations) \in Nat
  BY WizardConstants, FS_Subset, FS_CardinalityType DEF WizardInv, WizardTypeOK
<1>2. CASE NothingNew
  <2>1. conversations' \ conversations = {}
    BY <1>2 DEF NothingNew
  <2>. QED BY <1>1, <1>2, <2>1, FS_EmptySet DEF NothingNew
<1>3. CASE Created
  <2>1. conversations' \ conversations = {NewConversation}
    BY <1>3 DEF Created
  <2>2. Cardinality({NewConversation}) = 1
    BY FS_Singleton
  <2>3. Cardinality(conversations') = Cardinality(conversations) + 1
    BY <1>1, <1>3, FS_AddElement DEF Created
  <2>4. ~NothingNew
    BY <1>3 DEF Created, NothingNew
  <2>. QED BY <1>1, <2>1, <2>2, <2>3, <2>4
<1>. QED BY <1>2, <1>3

LEMMA RunStep ==
    ASSUME WizardInv, RunnerInv, running, next # 0, ~handed, ~Claimed(next),
           Run(next), handed' = TRUE,
           UNCHANGED <<running, offset, durable, next, failures>>
    PROVE  WizardInv' /\ RunnerInv'
<1>. PICK update : update = updates[next]
  OBVIOUS
<1>. PICK created : created = Cardinality(conversations' \ conversations)
  OBVIOUS
<1>1. /\ updates \in Seq(UpdateRecord) /\ Len(updates) \in Nat
      /\ next \in 1..Len(updates) /\ next = offset + 1 /\ offset \in Nat
      /\ seen \in Seq(Nat) /\ Len(seen) <= MaxSeen /\ Len(seen) \in Nat
      /\ update \in UpdateRecord
  <2>1. next \in 1..Len(updates)
    BY RunnerTypes
  <2>2. update \in UpdateRecord
    BY <2>1, UpdateTypes
  <2>. QED BY <2>1, <2>2, RunnerTypes DEF RunnerInv, Runner
<1>2. WizardInv' /\ (NothingNew \/ Created)
  BY RouteStep DEF Run
<1>3. /\ created \in {0, 1} /\ (NothingNew => created = 0)
      /\ Cardinality(conversations) \in Nat
      /\ Cardinality(conversations') = Cardinality(conversations) + created
  BY <1>2, CreatedCount
<1>4. /\ seen' \in Seq(Nat) /\ Len(seen') <= MaxSeen
      /\ seen' # <<>> /\ seen'[Len(seen')] = next
      /\ \A k \in 1..Len(seen') :
            seen'[k] = next \/ \E l \in 1..Len(seen) : seen'[k] = seen[l]
  BY <1>1, ClaimFacts DEF Run
<1>5. updates' = [updates EXCEPT ![next] = Ran(update, created)]
  BY DEF Run
<1>6. update.content = Pressed(StaleButton) => NothingNew
  BY StaleStep DEF Run
<1>7. /\ Ran(update, created) \in UpdateRecord
      /\ Ran(update, created).content = update.content
      /\ Ran(update, created).ran = TRUE
      /\ Ran(update, created).runs = update.runs + 1
      /\ Ran(update, created).made = update.made + created
  <2>1. update \in UpdateRecord
    BY <1>1, Zenon
  <2>2. created \in Nat
    BY <1>3
  <2>. QED BY <2>1, <2>2, RanFacts, Zenon
<1>8. /\ updates' \in Seq(UpdateRecord) /\ Len(updates') = Len(updates)
      /\ \A j \in 1..Len(updates) :
            updates'[j] = IF j = next THEN Ran(update, created) ELSE updates[j]
  <2>1. next \in 1..Len(updates) /\ updates \in Seq(UpdateRecord)
        /\ Ran(update, created) \in UpdateRecord
    BY <1>1, <1>7
  <2>. QED BY <1>5, <2>1, ExceptSeq
<1>9. ~ClaimedLast(next)
  <2>1. seen # <<>> => Len(seen) \in DOMAIN seen
    BY <1>1
  <2>. QED BY <2>1 DEF ClaimedLast, Claimed, ToSet
<1>10. update.runs = 0
  <2>1. next \in 1..Len(updates) /\ ~ (next <= offset)
    BY <1>1
  <2>2. updates[next].runs = 0 \/ next <= offset \/ ClaimedLast(next)
    BY <2>1, Zenon DEF RunnerInv, Runs
  <2>. QED BY <1>9, <2>1, <2>2
<1>11. /\ updates'[next].runs = 1 /\ updates'[next].content = update.content
       /\ updates'[next].made = update.made + created
       /\ updates[next] = update
  <2>1. updates'[next] = Ran(update, created)
    BY <1>1, <1>8, Zenon
  <2>2. update.runs + 1 = 1
    BY <1>10
  <2>. QED BY <1>7, <2>1, <2>2, Zenon
<1>12. Runner'
  <2>1. \A k \in 1..Len(seen') : seen'[k] <= Len(updates')
    <3>1. \A l \in 1..Len(seen) : seen[l] <= Len(updates)
      BY Zenon DEF RunnerInv, Runner
    <3>2. next <= Len(updates) /\ Len(updates') = Len(updates)
      BY <1>1, <1>8
    <3>. TAKE k \in 1..Len(seen')
    <3>3. CASE seen'[k] = next
      BY <3>2, <3>3
    <3>4. CASE seen'[k] # next
      BY <1>4, <3>1, <3>2, <3>4, Zenon
    <3>. QED BY <3>3, <3>4
  <2>2. /\ Len(updates') = Len(updates) /\ updates' \in Seq(UpdateRecord)
        /\ seen' \in Seq(Nat) /\ Len(seen') <= MaxSeen
    BY <1>4, <1>8, Zenon
  <2>3. handed' = TRUE /\ UNCHANGED <<running, offset, durable, next, failures>>
        /\ next # 0
    OBVIOUS
  <2>. QED BY <2>1, <2>2, <2>3 DEF RunnerInv, Runner
<1>13. Runs'
  <2>. SUFFICES ASSUME NEW j \in 1..Len(updates')
                PROVE  /\ updates'[j].runs <= 1
                       /\ \/ updates'[j].runs = 0 \/ j <= offset
                          \/ j = offset + 1 /\ seen' # <<>> /\ seen'[Len(seen')] = j
    BY DEF Runs, ClaimedLast
  <2>1. CASE j = next
    <3>1. j = offset + 1
      BY <1>1, <2>1, Zenon
    <3>2. updates'[j].runs = 1
      BY <1>11, <2>1, Zenon
    <3>. QED BY <1>4, <2>1, <3>1, <3>2
  <2>2. CASE j # next
    <3>1. updates'[j] = updates[j] /\ j # offset + 1 /\ j \in 1..Len(updates)
      BY <1>1, <1>8, <2>2
    <3>. QED BY <3>1 DEF RunnerInv, Runs
  <2>. QED BY <2>1, <2>2
<1>14. Accounted'
  <2>1. \A j \in 1..Len(updates) : updates[j].ran => updates'[j].ran
    BY <1>7, <1>8
  <2>2. updates'[next].ran
    BY <1>1, <1>7, <1>8
  <2>3. \A j \in 1..Len(updates') : j <= offset' \/ j <= durable' => updates'[j].ran
    BY <1>8, <2>1 DEF RunnerInv, Accounted
  <2>4. ASSUME NEW k \in 1..Len(seen'), seen'[k] # 0
        PROVE  updates'[seen'[k]].ran
    <3>1. CASE seen'[k] = next
      BY <2>2, <3>1
    <3>2. CASE seen'[k] # next
      <4>1. PICK l \in 1..Len(seen) : seen'[k] = seen[l]
        BY <1>4, <3>2
      <4>2. seen[l] \in 1..Len(updates) /\ updates[seen[l]].ran
        <5>1. seen[l] \in Nat
          BY <1>1
        <5>2. seen[l] <= Len(updates)
          BY Zenon DEF RunnerInv, Runner
        <5>3. seen[l] # 0 => updates[seen[l]].ran
          BY Zenon DEF RunnerInv, Accounted
        <5>4. seen[l] # 0 /\ Len(updates) \in Nat
          BY <1>1, <2>4, <4>1, Zenon
        <5>. QED BY <5>1, <5>2, <5>3, <5>4
      <4>. QED BY <2>1, <4>1, <4>2
    <3>. QED BY <3>1, <3>2
  <2>. QED BY <2>2, <2>3, <2>4 DEF Accounted
<1>15. Made'
  <2>. SUFFICES ASSUME NEW j \in 1..Len(updates')
                PROVE  /\ updates'[j].made <= Cardinality(conversations')
                       /\ updates'[j].content[1] = "press" =>
                             /\ updates'[j].made <= 1
                             /\ updates'[j].runs = 0
                                /\ updates'[j].content # Pressed(StaleButton)
                                   => updates'[j].made = 0
    BY DEF Made
  <2>1. j \in 1..Len(updates)
    BY <1>8
  <2>2. /\ updates[j].made \in Nat /\ updates[j].made <= Cardinality(conversations)
        /\ updates[j].content[1] = "press" =>
              /\ updates[j].made <= 1
              /\ updates[j].runs = 0 /\ updates[j].content # Pressed(StaleButton)
                    => updates[j].made = 0
    BY <2>1, UpdateTypes DEF RunnerInv, Made
  <2>3. CASE j # next
    <3>1. updates'[j] = updates[j]
      BY <1>8, <2>1, <2>3
    <3>. QED BY <1>3, <2>2, <3>1
  <2>4. CASE j = next
    <3>1. /\ updates'[j].made = updates[j].made + created
          /\ updates'[j].runs # 0 /\ updates'[j].content = updates[j].content
      BY <1>11, <2>4
    <3>2. updates[j].content[1] = "press" => updates[j].made + created <= 1
      BY <1>3, <1>6, <1>10, <1>11, <2>2, <2>4
    <3>. QED BY <1>3, <2>2, <3>1, <3>2
  <2>. QED BY <2>3, <2>4
<1>. QED BY <1>2, <1>12, <1>13, <1>14, <1>15 DEF RunnerInv

LEMMA DeliverStep ==
    ASSUME WizardInv, RunnerInv, Deliver
    PROVE  WizardInv' /\ RunnerInv'
<1>1. CASE ~Claimed(next)
  BY <1>1, RunStep DEF Deliver, Dispatch
<1>2. CASE Claimed(next)
  <2>1. /\ next # 0 /\ handed' = TRUE
        /\ UNCHANGED <<running, offset, durable, next, failures, seen, updates>>
        /\ UNCHANGED wizardVars
    BY <1>2 DEF Deliver, Dispatch
  <2>2. updates[next].ran
    <3>1. PICK k \in 1..Len(seen) : seen[k] = next
      BY <1>2 DEF Claimed, ToSet, RunnerInv, Runner
    <3>. QED BY <2>1, <3>1 DEF RunnerInv, Accounted
  <2>3. conversations' = conversations
    BY <2>1 DEF wizardVars
  <2>4. Runner' /\ Runs' /\ Accounted' /\ Made'
    BY <2>1, <2>2, <2>3 DEF RunnerInv, Runner, Runs, Accounted, Made, ClaimedLast
  <2>. QED BY <2>1, <2>4, UnchangedWizard DEF RunnerInv
<1>. QED BY <1>1, <1>2

LEMMA AdvanceStep ==
    ASSUME WizardInv, RunnerInv, Advance
    PROVE  WizardInv' /\ RunnerInv'
<1>1. /\ updates \in Seq(UpdateRecord) /\ Len(updates) \in Nat
      /\ next \in 1..Len(updates) /\ next = offset + 1 /\ offset \in Nat
      /\ updates[next] \in UpdateRecord /\ updates[next].ran
  <2>1. next \in 1..Len(updates) /\ handed
    BY RunnerTypes DEF Advance
  <2>2. updates[next] \in UpdateRecord
    BY <2>1, UpdateTypes
  <2>. QED BY <2>1, <2>2, RunnerTypes DEF RunnerInv, Runner, Accounted
<1>2. /\ offset' = next /\ durable' = next /\ handed' = FALSE
      /\ next' = IF next = Len(updates) THEN 0 ELSE next + 1
      /\ UNCHANGED <<running, seen, failures>> /\ UNCHANGED wizardVars
      /\ updates' = [updates EXCEPT ![next] = Settled(updates[next])]
  BY <1>1 DEF Advance, Passed
<1>3. /\ updates' \in Seq(UpdateRecord) /\ Len(updates') = Len(updates)
      /\ \A j \in 1..Len(updates) :
            updates'[j] = IF j = next THEN Settled(updates[next]) ELSE updates[j]
  <2>1. next \in 1..Len(updates) /\ updates \in Seq(UpdateRecord)
        /\ Settled(updates[next]) \in UpdateRecord
    BY <1>1, SettledFacts
  <2>. QED BY <1>2, <2>1, ExceptSeq
<1>4. \A j \in 1..Len(updates) :
          /\ updates'[j].ran = updates[j].ran /\ updates'[j].runs = updates[j].runs
          /\ updates'[j].made = updates[j].made
          /\ updates'[j].content \in {updates[j].content, Stale(updates[j].content)}
  BY <1>1, <1>3, SettledFacts
<1>5. Runner'
  <2>1. /\ offset' \in 0..Len(updates) /\ durable' \in 0..Len(updates)
        /\ next' \in 0..Len(updates) /\ (next' # 0 => next' = offset' + 1)
    BY <1>1, <1>2
  <2>2. Len(updates') = Len(updates) /\ updates' \in Seq(UpdateRecord)
        /\ handed' = FALSE /\ UNCHANGED <<running, seen, failures>>
    BY <1>2, <1>3, Zenon
  <2>. QED BY <2>1, <2>2 DEF RunnerInv, Runner
<1>6. Runs'
  <2>1. \A j \in 1..Len(updates) :
            updates'[j].runs <= 1 /\ (updates'[j].runs = 0 \/ j <= offset')
    <3>. TAKE j \in 1..Len(updates)
    <3>1. updates[j].runs <= 1 /\ (updates[j].runs = 0 \/ j <= offset \/ j = offset + 1)
      BY DEF RunnerInv, Runs
    <3>2. updates'[j].runs = updates[j].runs
      BY <1>4
    <3>3. offset' = offset + 1
      BY <1>1, <1>2
    <3>. QED BY <1>1, <3>1, <3>2, <3>3
  <2>2. Len(updates') = Len(updates)
    BY <1>3
  <2>. QED BY <2>1, <2>2 DEF Runs
<1>7. Accounted'
  <2>1. \A j \in 1..Len(updates') : j <= offset' \/ j <= durable' => updates'[j].ran
    <3>1. \A j \in 1..Len(updates) : j <= next => j = next \/ j <= offset
      BY <1>1
    <3>2. \A j \in 1..Len(updates) : j <= next => updates'[j].ran
      BY <1>1, <1>4, <3>1 DEF RunnerInv, Accounted
    <3>3. Len(updates') = Len(updates) /\ offset' = next /\ durable' = next
      BY <1>2, <1>3
    <3>. QED BY <3>2, <3>3
  <2>2. \A k \in 1..Len(seen) : seen[k] # 0 => seen[k] \in 1..Len(updates)
    BY <1>1 DEF RunnerInv, Runner
  <2>. QED BY <1>2, <1>4, <2>1, <2>2 DEF RunnerInv, Accounted
<1>8. Made'
  <2>1. conversations' = conversations
    BY <1>2 DEF wizardVars
  <2>2. \A j \in 1..Len(updates) : updates[j].content \in Contents
    BY UpdateTypes
  <2>. SUFFICES ASSUME NEW j \in 1..Len(updates)
                PROVE  /\ updates'[j].made <= Cardinality(conversations)
                       /\ updates'[j].content[1] = "press" =>
                             /\ updates'[j].made <= 1
                             /\ updates'[j].runs = 0
                                /\ updates'[j].content # Pressed(StaleButton)
                                   => updates'[j].made = 0
    BY <1>3, <2>1 DEF Made
  <2>3. updates'[j].content[1] = "press" =>
            /\ updates[j].content[1] = "press"
            /\ updates'[j].content # Pressed(StaleButton) =>
                  updates[j].content # Pressed(StaleButton)
    BY <1>4, <2>2, StaleFacts
  <2>. QED BY <1>4, <2>3 DEF RunnerInv, Made
<1>. QED BY <1>2, <1>5, <1>6, <1>7, <1>8, UnchangedWizard DEF RunnerInv

LEMMA StopStep ==
    ASSUME WizardInv, RunnerInv, Stop
    PROVE  WizardInv' /\ RunnerInv'
<1>1. /\ running' = FALSE /\ failures' \in 0..MaxFailures
      /\ offset' = 0 /\ next' = 0 /\ handed' = FALSE /\ seen' = <<>>
      /\ durable' = durable
      /\ updates' = [i \in DOMAIN updates |-> [Settled(updates[i]) EXCEPT !.runs = 0]]
  BY TelegramConstants DEF Stop, RunnerInv, Runner
<1>2. WizardInv' /\ conversations' = conversations
  BY ForgetStep DEF Stop, NothingNew
<1>3. /\ updates \in Seq(UpdateRecord) /\ Len(updates) \in Nat
      /\ DOMAIN updates = 1..Len(updates)
  BY DEF RunnerInv, Runner
<1>4. \A j \in 1..Len(updates) :
          /\ updates'[j] \in UpdateRecord
          /\ updates'[j].ran = updates[j].ran /\ updates'[j].runs = 0
          /\ updates'[j].made = updates[j].made
          /\ updates'[j].content = Stale(updates[j].content)
  <2>. SUFFICES ASSUME NEW j \in 1..Len(updates)
                PROVE  /\ updates'[j] \in UpdateRecord
                       /\ updates'[j].ran = updates[j].ran /\ updates'[j].runs = 0
                       /\ updates'[j].made = updates[j].made
                       /\ updates'[j].content = Stale(updates[j].content)
    OBVIOUS
  <2>1. updates[j] \in UpdateRecord
    BY <1>3, ElementOfSeq
  <2>2. updates'[j] = [Settled(updates[j]) EXCEPT !.runs = 0]
    BY <1>1, <1>3, Zenon
  <2>. QED BY <2>1, <2>2, ForgottenFacts
<1>5. updates' \in Seq(UpdateRecord) /\ Len(updates') = Len(updates)
  <2>1. DOMAIN updates' = 1..Len(updates) /\ updates' = [j \in 1..Len(updates) |-> updates'[j]]
    BY <1>1, <1>3, Zenon
  <2>2. updates' \in [1..Len(updates) -> UpdateRecord]
    BY <1>4, <2>1
  <2>. QED BY <1>3, <2>2
<1>6. Runner'
  <2>1. /\ seen' \in Seq(Nat) /\ Len(seen') = 0 /\ offset' \in 0..Len(updates')
        /\ next' \in 0..Len(updates') /\ durable' \in 0..Len(updates')
    BY <1>1, <1>3, <1>5 DEF RunnerInv, Runner
  <2>2. running' \in BOOLEAN /\ handed' = FALSE /\ next' = 0 /\ failures' \in 0..MaxFailures
    BY <1>1
  <2>3. updates' \in Seq(UpdateRecord) /\ Len(updates') <= MaxBatch
    BY <1>5 DEF RunnerInv, Runner
  <2>4. Len(seen') <= MaxSeen /\ \A k \in 1..Len(seen') : seen'[k] <= Len(updates')
    BY <2>1, TelegramConstants
  <2>. QED BY <2>1, <2>2, <2>3, <2>4 DEF Runner
<1>7. Runs'
  BY <1>1, <1>4, <1>5 DEF Runs
<1>8. Accounted'
  <2>1. \A j \in 1..Len(updates) : ~ (j <= 0)
    OBVIOUS
  <2>2. \A j \in 1..Len(updates) : j <= durable => updates[j].ran
    BY DEF RunnerInv, Accounted
  <2>3. 1..Len(seen') = {}
    BY <1>1
  <2>4. \A j \in 1..Len(updates') : j <= offset' \/ j <= durable' => updates'[j].ran
    <3>1. Len(updates') = Len(updates) /\ offset' = 0 /\ durable' = durable
      BY <1>1, <1>5, Zenon
    <3>2. \A j \in 1..Len(updates) : updates'[j].ran = updates[j].ran
      BY <1>4
    <3>. QED BY <2>1, <2>2, <3>1, <3>2
  <2>. QED BY <1>1, <2>3, <2>4 DEF Accounted
<1>9. Made'
  <2>1. \A j \in 1..Len(updates) : updates[j].content \in Contents
    BY UpdateTypes
  <2>. SUFFICES ASSUME NEW j \in 1..Len(updates)
                PROVE  /\ updates'[j].made <= Cardinality(conversations)
                       /\ updates'[j].content[1] = "press" =>
                             /\ updates'[j].made <= 1
                             /\ updates'[j].runs = 0
                                /\ updates'[j].content # Pressed(StaleButton)
                                   => updates'[j].made = 0
    BY <1>2, <1>5 DEF Made
  <2>. QED BY <1>4, <2>1, StaleFacts DEF RunnerInv, Made
<1>. QED BY <1>2, <1>6, <1>7, <1>8, <1>9 DEF RunnerInv

\* A poll renumbers: update j is the one that was j + offset, or a new one.
LEMMA PolledUpdates ==
    ASSUME WizardInv, RunnerInv, Poll
    PROVE  /\ updates' \in Seq(UpdateRecord) /\ Len(updates') <= MaxBatch
           /\ Len(updates') \in Nat /\ Len(updates) - offset <= Len(updates')
           /\ \A j \in 1..Len(updates') :
                 IF j <= Len(updates) - offset
                 THEN updates'[j] = updates[j + offset]
                 ELSE updates'[j].runs = 0 /\ updates'[j].made = 0
<1>1. /\ updates \in Seq(UpdateRecord) /\ Len(updates) \in Nat
      /\ DOMAIN updates = 1..Len(updates)
      /\ offset \in 0..Len(updates)
  <2>1. offset \in 0..Len(updates) /\ updates \in Seq(UpdateRecord)
    BY Zenon DEF RunnerInv, Runner
  <2>. QED BY <2>1, RunnerTypes
<1>. DEFINE kept == SubSeq(updates, offset + 1, Len(updates))
<1>2. PICK sent \in BoundedSeq(Sendable, MaxBatch) :
          /\ Len(kept) + Len(sent) <= MaxBatch
          /\ updates' = kept \o [i \in DOMAIN sent |-> Arriving(sent[i])]
  BY Zenon DEF Poll
<1>. DEFINE new == [i \in DOMAIN sent |-> Arriving(sent[i])]
<1>3. /\ kept \in Seq(UpdateRecord) /\ Len(kept) = Len(updates) - offset
      /\ \A j \in 1..(Len(updates) - offset) : kept[j] = updates[j + offset]
  <2>1. offset + 1 \in Int /\ Len(updates) \in Int
    BY <1>1
  <2>2. \A j \in (offset + 1)..Len(updates) : updates[j] \in UpdateRecord
    <3>. TAKE j \in (offset + 1)..Len(updates)
    <3>1. j \in 1..Len(updates)
      BY <1>1
    <3>. QED BY <3>1, UpdateTypes
  <2>3. /\ kept \in Seq(UpdateRecord)
        /\ Len(kept) = IF offset + 1 <= Len(updates)
                       THEN Len(updates) - (offset + 1) + 1 ELSE 0
        /\ \A j \in 1..(Len(updates) - (offset + 1) + 1) :
              kept[j] = updates[offset + 1 + j - 1]
    BY <2>1, <2>2, SubSeqProperties
  <2>. HIDE DEF kept
  <2>4. Len(kept) = Len(updates) - offset
    <3>1. ASSUME NEW l \in Nat, NEW o \in 0..l
          PROVE  (IF o + 1 <= l THEN l - (o + 1) + 1 ELSE 0) = l - o
      OBVIOUS
    <3>2. Len(kept) = IF offset + 1 <= Len(updates)
                      THEN Len(updates) - (offset + 1) + 1 ELSE 0
      BY <2>3, Zenon
    <3>. QED BY <1>1, <3>1, <3>2, Zenon
  <2>5. ASSUME NEW j \in 1..(Len(updates) - offset)
        PROVE  kept[j] = updates[j + offset]
    <3>1. j \in 1..(Len(updates) - (offset + 1) + 1) /\ offset + 1 + j - 1 = j + offset
      BY <1>1
    <3>. QED BY <2>3, <3>1
  <2>. QED BY <2>3, <2>4, <2>5
<1>4. Sendable \subseteq Contents
  BY DEF Sendable, Contents, WizardInv, WizardTypeOK
<1>5. PICK n \in 0..MaxBatch : sent \in [1..n -> Sendable]
  BY <1>2 DEF BoundedSeq, SeqOf
<1>6. n \in Nat /\ DOMAIN sent = 1..n
  BY <1>5, TelegramConstants
<1>7. \A j \in 1..n : /\ new[j] \in UpdateRecord
                      /\ new[j].runs = 0 /\ new[j].made = 0
  <2>. TAKE j \in 1..n
  <2>1. sent[j] \in Contents
    BY <1>4, <1>5
  <2>2. new[j] = Arriving(sent[j])
    BY <1>6, Zenon
  <2>. QED BY <2>1, <2>2, ArrivingFacts
<1>8. new \in Seq(UpdateRecord) /\ Len(new) = n
  <2>1. DOMAIN new = 1..n /\ new = [j \in 1..n |-> new[j]]
    BY <1>6, Zenon
  <2>. HIDE DEF new
  <2>2. new \in [1..n -> UpdateRecord]
    BY <1>7, <2>1
  <2>. QED BY <1>6, <2>2
<1>9. updates' = kept \o new
  BY <1>2
<1>10. Len(kept) + Len(sent) <= MaxBatch /\ Len(sent) = n
  <2>1. Len(sent) = n
    BY <1>5, <1>6
  <2>. QED BY <1>2, <2>1, Zenon
<1>. HIDE DEF kept, new
<1>11. /\ updates' \in Seq(UpdateRecord) /\ Len(updates') = Len(kept) + Len(new)
       /\ \A j \in 1..Len(kept) + Len(new) : updates'[j] =
             IF j <= Len(kept) THEN kept[j] ELSE new[j - Len(kept)]
  BY <1>3, <1>8, <1>9, ConcatProperties
<1>12. Len(updates') = Len(updates) - offset + n
  BY <1>3, <1>8, <1>11
<1>13. ASSUME NEW j \in 1..Len(updates')
       PROVE  IF j <= Len(updates) - offset
              THEN updates'[j] = updates[j + offset]
              ELSE updates'[j].runs = 0 /\ updates'[j].made = 0
  <2>1. updates'[j] = IF j <= Len(kept) THEN kept[j] ELSE new[j - Len(kept)]
    BY <1>11, <1>13
  <2>2. CASE j <= Len(updates) - offset
    <3>1. j \in 1..(Len(updates) - offset)
      BY <1>1, <1>6, <1>12, <2>2
    <3>. QED BY <1>3, <2>1, <2>2, <3>1
  <2>3. CASE ~ (j <= Len(updates) - offset)
    <3>1. j - (Len(updates) - offset) \in 1..n
      BY <1>1, <1>6, <1>12, <2>3
    <3>. QED BY <1>3, <1>7, <2>1, <2>3, <3>1
  <2>. QED BY <2>2, <2>3
<1>14. /\ Len(updates') \in Nat /\ Len(updates) - offset <= Len(updates')
       /\ Len(updates') <= MaxBatch
  BY <1>1, <1>3, <1>6, <1>10, <1>12, TelegramConstants
<1>. QED BY <1>11, <1>13, <1>14

LEMMA MinusFacts ==
    ASSUME NEW n \in Nat, NEW m \in Nat
    PROVE  /\ Minus(n, m) \in Nat
           /\ Minus(n, m) # 0 => n > m /\ Minus(n, m) = n - m
           /\ \A l \in Nat : m <= l /\ n <= l => Minus(n, m) <= l - m
           /\ n = m + 1 => Minus(n, m) = 1
BY DEF Minus

LEMMA PollStep ==
    ASSUME WizardInv, RunnerInv, Poll
    PROVE  WizardInv' /\ RunnerInv'
<1>1. /\ offset \in 0..Len(updates) /\ durable \in 0..Len(updates)
      /\ Len(updates) \in Nat /\ seen \in Seq(Nat) /\ Len(seen) \in Nat
      /\ DOMAIN seen = 1..Len(seen) /\ Len(seen) <= MaxSeen
      /\ handed = FALSE /\ offset \in Nat /\ durable \in Nat
  <2>1. /\ offset \in 0..Len(updates) /\ durable \in 0..Len(updates)
        /\ seen \in Seq(Nat) /\ Len(seen) <= MaxSeen
        /\ handed \in BOOLEAN /\ (handed => next # 0)
    BY Zenon DEF RunnerInv, Runner
  <2>2. next = 0
    BY DEF Poll
  <2>. QED BY <2>1, <2>2, RunnerTypes
<1>2. /\ offset' = 0 /\ durable' = Minus(durable, offset)
      /\ seen' = [k \in DOMAIN seen |-> Minus(seen[k], offset)]
      /\ next' = IF updates' = <<>> THEN 0 ELSE 1
      /\ UNCHANGED <<running, handed, failures>> /\ UNCHANGED wizardVars
  BY DEF Poll
<1>3. /\ updates' \in Seq(UpdateRecord) /\ Len(updates') <= MaxBatch
      /\ Len(updates') \in Nat /\ Len(updates) - offset <= Len(updates')
      /\ \A j \in 1..Len(updates') :
            IF j <= Len(updates) - offset
            THEN updates'[j] = updates[j + offset]
            ELSE updates'[j].runs = 0 /\ updates'[j].made = 0
  BY PolledUpdates
<1>4. /\ seen' \in Seq(Nat) /\ Len(seen') = Len(seen)
      /\ \A k \in 1..Len(seen) : seen'[k] = Minus(seen[k], offset) /\ seen[k] \in Nat
  <2>1. \A k \in 1..Len(seen) : seen'[k] = Minus(seen[k], offset)
    BY <1>1, <1>2, Zenon
  <2>2. \A k \in 1..Len(seen) : seen[k] \in Nat
    BY <1>1
  <2>3. \A k \in 1..Len(seen) : seen'[k] \in Nat
    <3>1. offset \in Nat
      BY <1>1
    <3>2. \A n \in Nat : Minus(n, offset) \in Nat
      BY <3>1, MinusFacts
    <3>. QED BY <2>1, <2>2, <3>2
  <2>4. DOMAIN seen' = 1..Len(seen) /\ seen' = [k \in 1..Len(seen) |-> seen'[k]]
    BY <1>1, <1>2, Zenon
  <2>5. seen' \in [1..Len(seen) -> Nat]
    BY <2>3, <2>4
  <2>6. seen' \in Seq(Nat) /\ Len(seen') = Len(seen)
    <3>1. Len(seen) \in Nat
      BY <1>1
    <3>. QED BY <2>5, <3>1
  <2>. QED BY <2>1, <2>2, <2>6, Zenon
<1>5. \A k \in 1..Len(seen) : seen[k] <= Len(updates)
  BY Zenon DEF RunnerInv, Runner
<1>6. /\ offset \in Nat /\ durable \in Nat /\ Len(updates) \in Nat
       /\ offset <= Len(updates) /\ durable <= Len(updates)
  BY <1>1
<1>7. Runner'
  <2>1. durable' \in 0..Len(updates')
    <3>1. durable' \in Nat /\ durable' <= Len(updates) - offset
      BY <1>2, <1>6, MinusFacts
    <3>. QED BY <1>3, <1>6, <3>1
  <2>2. next' \in 0..Len(updates') /\ (next' # 0 => next' = offset' + 1)
    <3>1. updates' # <<>> => Len(updates') # 0
      BY <1>3
    <3>. QED BY <1>2, <1>3, <3>1
  <2>3. \A k \in 1..Len(seen') : seen'[k] <= Len(updates')
    <3>. TAKE k \in 1..Len(seen')
    <3>1. k \in 1..Len(seen) /\ seen'[k] = Minus(seen[k], offset) /\ seen[k] \in Nat
      BY <1>4
    <3>2. seen[k] <= Len(updates)
      BY <1>5, <3>1
    <3>3. seen'[k] \in Nat /\ seen'[k] <= Len(updates) - offset
      <4>1. ASSUME NEW n \in Nat, n <= Len(updates)
            PROVE  Minus(n, offset) \in Nat /\ Minus(n, offset) <= Len(updates) - offset
        BY <1>6, <4>1, MinusFacts
      <4>. QED BY <3>1, <3>2, <4>1, Zenon
    <3>. QED BY <1>3, <1>6, <3>3
  <2>4. /\ running' \in BOOLEAN /\ failures' \in 0..MaxFailures
        /\ handed' = FALSE /\ Len(seen') <= MaxSeen /\ offset' \in 0..Len(updates')
    <3>1. running \in BOOLEAN /\ failures \in 0..MaxFailures
      BY Zenon DEF RunnerInv, Runner
    <3>. QED BY <1>1, <1>2, <1>3, <1>4, <3>1
  <2>. QED BY <1>3, <1>4, <2>1, <2>2, <2>3, <2>4 DEF Runner
<1>8. \A j \in 1..Len(updates') :
          j <= Len(updates) - offset
              => j + offset \in 1..Len(updates) /\ ~ (j + offset <= offset)
  BY <1>1, <1>3
<1>9. Runs'
  <2>. SUFFICES ASSUME NEW j \in 1..Len(updates')
                PROVE  /\ updates'[j].runs <= 1
                       /\ \/ updates'[j].runs = 0 \/ j <= offset'
                          \/ j = offset' + 1 /\ seen' # <<>> /\ seen'[Len(seen')] = j
    BY DEF Runs, ClaimedLast
  <2>1. CASE ~ (j <= Len(updates) - offset)
    BY <1>3, <2>1
  <2>2. CASE j <= Len(updates) - offset
    <3>1. updates'[j] = updates[j + offset] /\ j + offset \in 1..Len(updates)
          /\ ~ (j + offset <= offset)
      BY <1>3, <1>8, <2>2
    <3>2. /\ updates[j + offset].runs <= 1
          /\ \/ updates[j + offset].runs = 0
             \/ j + offset = offset + 1 /\ ClaimedLast(j + offset)
      BY <3>1 DEF RunnerInv, Runs
    <3>3. CASE ~ (updates[j + offset].runs = 0)
      <4>1. j = 1 /\ seen # <<>> /\ seen[Len(seen)] = offset + 1
        BY <1>1, <3>2, <3>3 DEF ClaimedLast
      <4>2. Len(seen) \in 1..Len(seen)
        BY <1>1, <4>1
      <4>3. seen'[Len(seen')] = Minus(offset + 1, offset) /\ Len(seen') # 0
        BY <1>4, <4>1, <4>2
      <4>4. Minus(offset + 1, offset) = 1
        BY <1>1, MinusFacts
      <4>5. seen' # <<>>
        BY <4>3
      <4>. QED BY <1>2, <3>1, <3>2, <4>1, <4>3, <4>4, <4>5
    <3>. QED BY <3>1, <3>2, <3>3
  <2>. QED BY <2>1, <2>2
<1>10. Accounted'
  <2>1. ASSUME NEW j \in 1..Len(updates'), j <= offset' \/ j <= durable'
        PROVE  updates'[j].ran
    <3>1. j <= durable - offset
      <4>1. durable' # 0 /\ durable' \in Nat /\ j <= durable' /\ j \in Nat
        BY <1>2, <1>6, <2>1, MinusFacts
      <4>2. durable' = durable - offset
        BY <1>2, <1>6, <4>1, MinusFacts
      <4>. QED BY <4>1, <4>2
    <3>2. j <= Len(updates) - offset /\ j + offset <= durable
      BY <1>1, <3>1
    <3>3. updates'[j] = updates[j + offset] /\ j + offset \in 1..Len(updates)
      BY <1>3, <1>8, <3>2
    <3>. QED BY <3>2, <3>3 DEF RunnerInv, Accounted
  <2>2. ASSUME NEW k \in 1..Len(seen'), seen'[k] # 0
        PROVE  updates'[seen'[k]].ran
    <3>1. k \in 1..Len(seen) /\ seen[k] \in Nat /\ seen'[k] = Minus(seen[k], offset)
      BY <1>4
    <3>2. seen'[k] = seen[k] - offset /\ seen[k] > offset /\ seen[k] <= Len(updates)
      <4>1. seen[k] <= Len(updates)
        BY <1>5, <3>1
      <4>2. Minus(seen[k], offset) # 0
        BY <2>2, <3>1
      <4>. QED BY <1>6, <3>1, <4>1, <4>2, MinusFacts
    <3>3. seen'[k] \in 1..Len(updates') /\ seen'[k] <= Len(updates) - offset
          /\ seen'[k] + offset = seen[k]
      <4>1. Len(updates') \in Nat /\ Len(updates) - offset <= Len(updates')
        BY <1>3
      <4>2. ASSUME NEW n \in Nat, NEW l \in Nat, NEW o \in Nat, NEW q \in Nat,
                   n > o, n <= l, l - o <= q
            PROVE  n - o \in 1..q /\ n - o <= l - o /\ n - o + o = n
        BY <4>2
      <4>3. /\ seen[k] - offset \in 1..Len(updates')
            /\ seen[k] - offset <= Len(updates) - offset
            /\ seen[k] - offset + offset = seen[k]
        BY <1>6, <3>1, <3>2, <4>1, <4>2, Zenon
      <4>. QED BY <3>2, <4>3, Zenon
    <3>4. updates'[seen'[k]] = updates[seen[k]]
      BY <1>3, <3>3
    <3>5. seen[k] # 0
      BY <1>1, <3>2
    <3>. QED BY <3>1, <3>4, <3>5 DEF RunnerInv, Accounted
  <2>. QED BY <1>1, <1>2, <2>1, <2>2 DEF Accounted
<1>11. Made'
  <2>1. conversations' = conversations
    BY <1>2 DEF wizardVars
  <2>2. Cardinality(conversations) \in Nat
    BY WizardConstants, FS_Subset, FS_CardinalityType DEF WizardInv, WizardTypeOK
  <2>. SUFFICES ASSUME NEW j \in 1..Len(updates')
                PROVE  /\ updates'[j].made <= Cardinality(conversations)
                       /\ updates'[j].content[1] = "press" =>
                             /\ updates'[j].made <= 1
                             /\ updates'[j].runs = 0
                                /\ updates'[j].content # Pressed(StaleButton)
                                   => updates'[j].made = 0
    BY <2>1 DEF Made
  <2>3. CASE ~ (j <= Len(updates) - offset)
    BY <1>3, <2>2, <2>3
  <2>4. CASE j <= Len(updates) - offset
    <3>1. updates'[j] = updates[j + offset] /\ j + offset \in 1..Len(updates)
      BY <1>3, <1>8, <2>4
    <3>. QED BY <3>1 DEF RunnerInv, Made
  <2>. QED BY <2>3, <2>4
<1>. QED BY <1>2, <1>7, <1>9, <1>10, <1>11, UnchangedWizard DEF RunnerInv

LEMMA UnchangedRunner ==
    ASSUME WizardInv, RunnerInv, WizardInv', conversations' = conversations,
           UNCHANGED <<updates, runner, durable, failures>>
    PROVE  RunnerInv'
BY DEF RunnerInv, Runner, Runs, ClaimedLast, Accounted, Made, runner

LEMMA RunnerStep ==
    ASSUME WizardInv, RunnerInv, [Next]_vars
    PROVE  WizardInv' /\ RunnerInv'
<1>1. CASE Poll
  BY <1>1, PollStep
<1>2. CASE Deliver
  BY <1>2, DeliverStep
<1>3. CASE Advance
  BY <1>3, AdvanceStep
<1>4. CASE FailToSave
  <2>1. /\ next' = 0 /\ handed' = FALSE /\ failures' \in 0..MaxFailures
        /\ UNCHANGED <<updates, running, offset, durable, seen>>
        /\ UNCHANGED wizardVars
    BY <1>4, TelegramConstants DEF FailToSave, RunnerInv, Runner
  <2>2. conversations' = conversations
    BY <2>1 DEF wizardVars
  <2>3. 0 \in 0..Len(updates)
    BY RunnerTypes
  <2>4. Runner' /\ Runs' /\ Accounted' /\ Made'
    BY <2>1, <2>2, <2>3 DEF RunnerInv, Runner, Runs, ClaimedLast, Accounted, Made
  <2>. QED BY <2>1, <2>4, UnchangedWizard DEF RunnerInv
<1>5. CASE Stop
  BY <1>5, StopStep
<1>6. CASE Restart
  <2>1. /\ running' \in BOOLEAN
        /\ UNCHANGED <<updates, offset, durable, next, handed, seen, failures>>
        /\ UNCHANGED wizardVars
    BY <1>6 DEF Restart
  <2>2. conversations' = conversations
    BY <2>1 DEF wizardVars
  <2>3. Runner' /\ Runs' /\ Accounted' /\ Made'
    BY <2>1, <2>2 DEF RunnerInv, Runner, Runs, ClaimedLast, Accounted, Made
  <2>. QED BY <2>1, <2>3, UnchangedWizard DEF RunnerInv
<1>7. CASE SessionExpires
  <2>1. /\ WizardInv' /\ NothingNew
        /\ UNCHANGED <<updates, runner, durable, failures>>
    BY <1>7, ExpireStep DEF SessionExpires
  <2>. QED BY <2>1, UnchangedRunner DEF NothingNew
<1>8. CASE UNCHANGED vars
  <2>1. UNCHANGED wizardVars /\ UNCHANGED <<updates, runner, durable, failures>>
    BY <1>8 DEF vars
  <2>. QED BY <2>1, UnchangedWizard, UnchangedRunner DEF NothingNew
<1>. QED BY <1>1, <1>2, <1>3, <1>4, <1>5, <1>6, <1>7, <1>8 DEF Next

LEMMA InitInv ==
    ASSUME Init
    PROVE  WizardInv /\ RunnerInv
<1>1. /\ sessions = <<>> /\ callerSession = "none" /\ bridgeSession = "none"
      /\ buttons = {} /\ conversations = {}
  BY DEF Init, WizardInit
<1>2. DOMAIN sessions = {}
  BY <1>1
<1>3. sessions \in [DOMAIN sessions -> Session]
  BY <1>1, <1>2
<1>4. WizardInv
  BY <1>1, <1>2, <1>3
  DEF WizardInv, WizardTypeOK, SessionsOK, OneSessionOfButtons
<1>5. /\ updates = <<>> /\ seen = <<>> /\ offset = 0 /\ durable = 0 /\ next = 0
      /\ running = TRUE /\ handed = FALSE /\ failures = 0
  BY DEF Init
<1>6. Len(updates) = 0 /\ Len(seen) = 0 /\ 0..0 = {0} /\ 1..0 = {}
  BY <1>5
<1>7. /\ updates \in Seq(UpdateRecord) /\ seen \in Seq(Nat)
      /\ MaxBatch \in Nat /\ MaxSeen \in Nat /\ 0 \in 0..MaxFailures
  BY <1>5, TelegramConstants
<1>8. Runner
  <2>1. /\ offset \in 0..Len(updates) /\ durable \in 0..Len(updates)
        /\ next \in 0..Len(updates) /\ next = 0
    BY <1>5, <1>6
  <2>2. /\ running \in BOOLEAN /\ handed = FALSE /\ failures \in 0..MaxFailures
    BY <1>5, <1>7
  <2>3. Len(updates) <= MaxBatch /\ Len(seen) <= MaxSeen
    BY <1>6, <1>7
  <2>4. \A k \in 1..Len(seen) : seen[k] <= Len(updates)
    BY <1>6
  <2>. QED BY <1>7, <2>1, <2>2, <2>3, <2>4 DEF Runner
<1>9. Runs /\ Accounted /\ Made
  BY <1>5, <1>6 DEF Runs, Accounted, Made
<1>. QED BY <1>4, <1>8, <1>9 DEF RunnerInv

-----------------------------------------------------------------------------

\* The inductive invariant: the wizard's sessions and buttons, and what the
\* runner and the dispatcher have done with the updates they hold
\* (wizard.py, telegram_polling.py, telegram_updates.py).
THEOREM TelegramInvariant == Spec => [](WizardInv /\ RunnerInv)
<1>1. Init => WizardInv /\ RunnerInv
  BY InitInv
<1>2. (WizardInv /\ RunnerInv) /\ [Next]_vars => (WizardInv /\ RunnerInv)'
  BY RunnerStep
<1>. QED BY <1>1, <1>2, PTL DEF Spec

\* The state has its type whatever the user presses and writes; in particular
\* the chat shows no button of an unknown action, the offsets lie within what
\* Telegram has, and no update creates more conversations than there are.
THEOREM TelegramTypes == Spec => []TelegramTypeOK
<1>1. WizardInv /\ RunnerInv => TelegramTypeOK
  <2>. SUFFICES ASSUME WizardInv, RunnerInv PROVE TelegramTypeOK
    OBVIOUS
  <2>1. /\ updates \in Seq(UpdateRecord) /\ Len(updates) <= MaxBatch
        /\ offset \in 0..Len(updates) /\ durable \in 0..Len(updates)
        /\ next \in 0..Len(updates)
        /\ running \in BOOLEAN /\ handed \in BOOLEAN /\ failures \in 0..MaxFailures
        /\ seen \in Seq(Nat) /\ Len(seen) <= MaxSeen
        /\ \A k \in 1..Len(seen) : seen[k] <= Len(updates)
    BY Zenon DEF RunnerInv, Runner
  <2>2. /\ Cardinality(conversations) \in Nat
        /\ Cardinality(Conversations) \in Nat
        /\ Cardinality(conversations) <= Cardinality(Conversations)
    BY WizardConstants, FS_Subset, FS_CardinalityType DEF WizardInv, WizardTypeOK
  <2>. DEFINE UpdateType == [content : Contents, runs : Nat, ran : BOOLEAN,
                         made : 0..Cardinality(Conversations)]
  <2>3. ASSUME NEW j \in 1..Len(updates)
        PROVE  updates[j] \in UpdateType
    <3>1. updates[j] \in UpdateRecord /\ updates[j].made \in Nat
      BY UpdateTypes
    <3>2. updates[j].made <= Cardinality(conversations)
      BY DEF RunnerInv, Made
    <3>3. updates[j].made \in 0..Cardinality(Conversations)
      BY <2>2, <3>1, <3>2
    <3>. QED BY <3>1, <3>3 DEF UpdateRecord
  <2>. HIDE DEF UpdateType
  <2>4. updates \in Seq(UpdateType)
    <3>1. /\ Len(updates) \in Nat /\ DOMAIN updates = 1..Len(updates)
          /\ updates \in [1..Len(updates) -> UpdateRecord]
      BY <2>1
    <3>2. updates \in [1..Len(updates) -> UpdateType]
      BY <2>3, <3>1
    <3>. QED BY <3>1, <3>2
  <2>5. seen \in Seq(0..MaxBatch)
    <3>1. Len(updates) \in Nat /\ Len(seen) \in Nat
          /\ seen \in [1..Len(seen) -> Nat]
      BY <2>1
    <3>2. \A k \in 1..Len(seen) : seen[k] \in 0..MaxBatch
      BY <2>1, <3>1, TelegramConstants
    <3>3. seen \in [1..Len(seen) -> 0..MaxBatch]
      BY <3>1, <3>2
    <3>. DEFINE Position == 0..MaxBatch
    <3>4. seen \in [1..Len(seen) -> Position]
      BY <3>3
    <3>. HIDE DEF Position
    <3>5. seen \in Seq(Position)
      BY <3>1, <3>4
    <3>. QED BY <3>5 DEF Position
  <2>. QED BY <2>1, <2>4, <2>5 DEF TelegramTypeOK, WizardInv, UpdateType
<1>. QED BY <1>1, TelegramInvariant, PTL

\* INICIAR starts what the last CONFIRM screen showed, whatever buttons of
\* earlier screens are pressed in whatever order (handle_action in wizard.py).
THEOREM StartsWhatWasShown == Spec => []ConfirmShowsChoice
<1>1. WizardInv => ConfirmShowsChoice
  BY DEF WizardInv, SessionsOK, SessionOK, ConfirmShowsChoice
<1>. QED BY <1>1, TelegramInvariant, PTL

\* A start whose answer arrived is not made again (_start in wizard.py).
THEOREM AnswersOnce == Spec => []StartedOnce
<1>1. WizardInv => StartedOnce
  BY DEF WizardInv, SessionsOK, SessionOK, StartedOnce
<1>. QED BY <1>1, TelegramInvariant, PTL

\* No press reaches a session that has been replaced: the live buttons are of
\* the one that the chat shows (TelegramWizardBridge.start and
\* handle_callback).
THEOREM ButtonsOfOneSession == Spec => []OneSessionOfButtons
<1>1. WizardInv => OneSessionOfButtons
  BY DEF WizardInv
<1>. QED BY <1>1, TelegramInvariant, PTL

\* One process runs an update at most once, however often it polls it and
\* however small the dispatcher's window is (_claim and dispatch in
\* telegram_updates.py).
THEOREM RunsOnce == Spec => []OncePerProcess
<1>1. RunnerInv => OncePerProcess
  BY RunnerTypes DEF RunnerInv, Runs, OncePerProcess
<1>. QED BY <1>1, TelegramInvariant, PTL

\* Nothing is passed, in memory or in the file, that has not been run
\* (run_once and _advance_offset in telegram_polling.py).
THEOREM PassesNothing == Spec => []NothingSkipped
<1>1. RunnerInv => NothingSkipped
  BY RunnerTypes DEF RunnerInv, Accounted, NothingSkipped
<1>. QED BY <1>1, TelegramInvariant, PTL

\* A press creates at most one conversation, over redeliveries, lost answers
\* of the node and restarts of the process.
THEOREM PressesCreateOnce == Spec => []PressCreatesOnce
<1>1. RunnerInv => PressCreatesOnce
  BY RunnerTypes DEF RunnerInv, Made, PressCreatesOnce
<1>. QED BY <1>1, TelegramInvariant, PTL

=============================================================================
