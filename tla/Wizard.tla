------------------------------- MODULE Wizard -------------------------------
(***************************************************************************)
(* The conversation wizard of one chat (command/wizard.py) and the buttons *)
(* it is driven by (ui/neutral.py, ui/telegram_wizard.py).                 *)
(*                                                                         *)
(* A session walks through a line of selection screens to CONFIRM, where   *)
(* INICIAR asks the local node to create the conversation.  A screen stays *)
(* in the chat when the next one is sent, and its buttons go on working as *)
(* long as their tokens do: what a press means depends on the state of the *)
(* session, not on the screen it was made on.  Sessions and tokens are in  *)
(* memory only; the conversations are the node's.                          *)
(*                                                                         *)
(* This module has the handlers; Telegram.tla calls them.                  *)
(***************************************************************************)
EXTENDS FiniteSets, Sequences, SequencesExt

CONSTANTS
    Steps,          \* the selection screens, in the order of WIZARD_STATES
    Peers,          \* nodes that may be trusted
    SessionIds,     \* what tells a session from the one before it
    Conversations   \* conversations the node can hold

SelectionScreens == <<"SELECT_PEER", "SELECT_DIALOGUE_TYPE",
    "ENTER_OBJECTIVE", "SELECT_ROLE_A", "SELECT_ROLE_B", "SELECT_ROUNDS",
    "SELECT_OUTPUT_MODE">>

\* The code has all seven.  The peer is chosen from what is trusted at the
\* time, the objective is typed, a role is either chosen or typed, the rest
\* are chosen from fixed lists.
ASSUME StepsInOrder ==
    \E kept \in SUBSET ToSet(SelectionScreens) :
        Steps = SelectSeq(SelectionScreens, LAMBDA step : step \in kept)
ASSUME WizardConstants ==
    /\ Steps \in Seq(ToSet(SelectionScreens)) \ {<<>>}
    /\ \A id \in SessionIds : SessionIds \ {id} # {}
    /\ SessionIds # {} /\ "none" \notin SessionIds
    /\ "none" \notin Conversations /\ IsFiniteSet(Conversations)
    /\ "custom_input" \notin Peers

VARIABLES
    sessions,       \* the session of the chat while it lives, by its id
    callerSession,  \* the session the wizard resumes for this chat
    bridgeSession,  \* the session rendered last, which free text goes to
    buttons,        \* live buttons in the chat: <<session, action>>
    conversations   \* those the node has

memory == <<sessions, callerSession, bridgeSession, buttons>>
wizardVars == <<memory, conversations>>

RoleSteps == {"SELECT_ROLE_A", "SELECT_ROLE_B"} \cap ToSet(Steps)
Browsing == <<"CONVERSATION_LIST", "CONVERSATION_DETAIL", "CONVERSATION_MODE">>
States == {"ROOT", "CONFIRM", "STARTED", "CANCELLED"}
              \cup ToSet(Steps) \cup ToSet(Browsing)

\* What a session holds of its user's choices.
Options == Peers \cup {"listed", "typed"}
Choice == [ToSet(Steps) -> Options \cup {"none"}]
NoChoice == [step \in ToSet(Steps) |-> "none"]

\* "asked": the roles for which custom was chosen and no text has come.
\* For the properties: "summary" is what the screen of a session in CONFIRM
\* showed when it came to be, and "answered" are the conversations of which
\* the node said that it created them for the session.
Session == [state : States, choice : Choice, asked : SUBSET RoleSteps,
            conversation : Conversations \cup {"none"},
            summary : Choice, answered : SUBSET Conversations]
NewSession == [state |-> "ROOT", choice |-> NoChoice, asked |-> {},
               conversation |-> "none", summary |-> NoChoice, answered |-> {}]

-----------------------------------------------------------------------------
(* Screens and the moves between them.                                     *)

\* A button that belongs to a state is named after it.  Those that only show
\* a screen again (help, refresh, the local display mode) are left out.
Back == <<"nav", "back">>
Cancel == <<"wizard", "cancel">>
Confirm == <<"CONFIRM", "start">>
Actions ==
    {Back, Cancel, Confirm} \cup ({"ROOT"} \X {"new", "conversations"})
        \cup (ToSet(Steps) \X (Peers \cup {"listed"}))
        \cup (RoleSteps \X {"custom_input"})
        \cup {<<"CONVERSATION_LIST", "open">>, <<"CONVERSATION_DETAIL", "mode">>}

Line == <<"ROOT">> \o Steps \o <<"CONFIRM">>
Adjacent(line) == {<<line[i], line[i + 1]>> : i \in 1..Len(line) - 1}
Forward == Adjacent(Line) \cup Adjacent(<<"ROOT">> \o Browsing)
Transitions == Forward \cup {<<move[2], move[1]>> : move \in Forward}

Following(state) == CHOOSE next \in States : <<state, next>> \in Adjacent(Line)
Preceding(state) == CHOOSE previous \in States : <<previous, state>> \in Forward

\* The buttons of a screen, with the peers trusted when it is built.
Screen(state, trusted) ==
    CASE state = "ROOT" -> {"ROOT"} \X {"new", "conversations"}
      [] state = "SELECT_PEER" -> {Back} \cup ({state} \X trusted)
      [] state = "SELECT_DIALOGUE_TYPE" -> {<<state, "listed">>, Back}
      [] state = "ENTER_OBJECTIVE" -> {Back}
      [] state \in RoleSteps -> {<<state, "listed">>, <<state, "custom_input">>, Back}
      [] state \in {"SELECT_ROUNDS", "SELECT_OUTPUT_MODE"} -> {<<state, "listed">>}
      [] state = "CONFIRM" -> {Confirm, Back, Cancel}
      [] state = "CONVERSATION_LIST" ->
             {Back} \cup {<<state, "open">> : c \in conversations}
      [] state = "CONVERSATION_DETAIL" -> {<<state, "mode">>, Back}
      [] state = "CONVERSATION_MODE" -> {Back}
      [] OTHER -> {}

Cancellable(state) == state \notin {"ROOT", "STARTED", "CANCELLED"}

\* The screen of a state is rendered and sent, with the peers trusted then.
\* A screen that cannot be sent, and a token that expires, are buttons that
\* are not pressed any more, or in vain: Press says so.
Render(id, state, extra, live) ==
    /\ bridgeSession' = id
    /\ \E trusted \in SUBSET Peers :
           buttons' = live \cup ({id} \X (Screen(state, trusted) \cup extra))

\* The session becomes what a handler made of it and is rendered.
Update(id, session, extra) ==
    /\ sessions' = [sessions EXCEPT ![id] = session]
    /\ Render(id, session.state, extra, buttons)
    /\ UNCHANGED <<callerSession, conversations>>

Rejected == UNCHANGED wizardVars

\* A handler that has stored its data in the session moves it to its next
\* state.  A move that is not in the table raises, and the data stays.
Transition(id, session, target) ==
    IF <<session.state, target>> \in Transitions
    THEN LET shown == IF target = "CONFIRM" THEN session.choice ELSE NoChoice
             moved == [session EXCEPT !.state = target]
         IN  Update(id, [moved EXCEPT !.summary = shown],
                    IF Cancellable(target) THEN {Cancel} ELSE {})
    ELSE /\ sessions' = [sessions EXCEPT ![id] = session]
         /\ UNCHANGED <<callerSession, bridgeSession, buttons, conversations>>

-----------------------------------------------------------------------------
(* The handlers of the wizard.                                             *)

GoBack(id) ==
    LET session == sessions[id] IN
    IF session.state = "ROOT" THEN Update(id, session, {})
    ELSE Transition(id, session, Preceding(session.state))

GoCancel(id) == Update(id, [sessions[id] EXCEPT !.state = "CANCELLED"], {})

Root(id, what) ==
    Transition(id, sessions[id], IF what = "new" THEN Steps[1] ELSE Browsing[1])

\* The conversation behind a button may be gone from the last list made.
Browse(id, what) ==
    \/ Transition(id, sessions[id],
           IF what = "open" THEN "CONVERSATION_DETAIL" ELSE "CONVERSATION_MODE")
    \/ what = "open" /\ Rejected

\* A choice made.  A role ends the wait for its text.  (The defaults that the
\* type of dialogue gives the roles are replaced before CONFIRM.)
WithChoice(session, step, option) ==
    LET answered == [session EXCEPT !.asked = @ \ {step}]
    IN  [answered EXCEPT !.choice = [session.choice EXCEPT ![step] = option]]

Choose(id, step, option) ==
    LET session == sessions[id] IN
    IF option = "custom_input"
    THEN Transition(id, [session EXCEPT !.asked = @ \cup {step}], step)
    ELSE \/ Transition(id, WithChoice(session, step, option), Following(step))
         \/ step = "SELECT_PEER" /\ Rejected        \* no longer trusted

\* INICIAR.  The node may refuse, and its answer may be lost.
NewConversation == CHOOSE c \in Conversations : c \notin conversations
Creates ==
    /\ conversations # Conversations
    /\ conversations' = conversations \cup {NewConversation}

\* The node's answer arrives: the session has its conversation.
Started(session, created) ==
    [state |-> "STARTED", choice |-> session.choice, asked |-> session.asked,
     conversation |-> created, summary |-> session.summary,
     answered |-> session.answered \cup {created}]
Answered(id) ==
    /\ Creates
    /\ sessions' = [sessions EXCEPT ![id] = Started(sessions[id], NewConversation)]
    /\ Render(id, "STARTED", {}, buttons)
    /\ UNCHANGED callerSession

\* A mutant: a start asked for again goes to the node again.
StartMutant(id) == Rejected \/ Answered(id)

Start(id) ==
    IF sessions[id].conversation # "none" THEN Update(id, sessions[id], {})
    ELSE \/ Rejected
         \/ Creates /\ UNCHANGED memory         \* the answer is lost
         \/ Answered(id)

\* What a button of the screen shown does.
OnScreen(id, state, option) ==
    \/ state = "ROOT" /\ Root(id, option)
    \/ state = "CONFIRM" /\ Start(id)
    \/ state \in ToSet(Browsing) /\ Browse(id, option)
    \/ state \in ToSet(Steps) /\ Choose(id, state, option)

\* A mutant: a choice counts on whatever screen it was made.
HandleActionMutant(id, action) ==
    LET state == sessions[id].state IN
    \/ state = "CANCELLED" /\ Rejected
    \/ state = "STARTED" /\ IF action = Confirm THEN Start(id) ELSE Rejected
    \/ /\ state \notin {"CANCELLED", "STARTED"}
       /\ \/ action = Back /\ GoBack(id)
          \/ action = Cancel /\ GoCancel(id)
          \/ /\ action \notin {Back, Cancel} /\ action[1] # state
             /\ IF action[1] \in ToSet(Steps)
                THEN /\ sessions' = [sessions EXCEPT ![id].choice[action[1]] = action[2]]
                     /\ UNCHANGED <<callerSession, bridgeSession, buttons, conversations>>
                ELSE Rejected
          \/ /\ action \notin {Back, Cancel} /\ action[1] = state
             /\ OnScreen(id, state, action[2])

\* handle_action: what an action does in the state the session is in.
HandleAction(id, action) ==
    LET state == sessions[id].state IN
    \/ state = "CANCELLED" /\ Rejected
    \/ state = "STARTED" /\ IF action = Confirm THEN Start(id) ELSE Rejected
    \/ /\ state \notin {"CANCELLED", "STARTED"}
       /\ \/ action = Back /\ GoBack(id)
          \/ action = Cancel /\ GoCancel(id)
          \/ action \notin {Back, Cancel} /\ action[1] # state /\ Rejected
          \/ /\ action \notin {Back, Cancel} /\ action[1] = state
             /\ OnScreen(id, state, action[2])

-----------------------------------------------------------------------------
(* What the chat sends.                                                    *)

\* A button is pressed.  Its token may be unknown or have expired, and its
\* session may have.
Press(button) ==
    \/ Rejected
    \/ /\ button \in buttons /\ button[1] \in DOMAIN sessions
       /\ HandleAction(button[1], button[2])

Resumable ==
    /\ callerSession \in DOMAIN sessions
    /\ sessions[callerSession].state \notin {"STARTED", "CANCELLED"}

\* A mutant: the buttons of the session that is replaced go on working.
OpenMutant ==
    IF Resumable
    THEN Update(callerSession, sessions[callerSession], {})
    ELSE LET id == CHOOSE other \in SessionIds : other # bridgeSession IN
         /\ sessions' = [new \in {id} |-> NewSession]
         /\ callerSession' = id
         /\ Render(id, "ROOT", {}, buttons)
         /\ UNCHANGED conversations

\* /xerrameca: the session of the chat is shown again, or a new one replaces
\* it and takes the buttons of the last one away.  The record of the last one
\* stays in memory until its time has passed, but nothing refers to it any
\* more (OneSessionOfButtons), so it goes at once here.
Open ==
    IF Resumable
    THEN Update(callerSession, sessions[callerSession], {})
    ELSE LET id == CHOOSE other \in SessionIds : other # bridgeSession IN
         /\ sessions' = [new \in {id} |-> NewSession]
         /\ callerSession' = id
         /\ Render(id, "ROOT", {}, {b \in buttons : b[1] # bridgeSession})
         /\ UNCHANGED conversations

\* The step of the last rendered session that free text answers.
Awaited ==
    IF bridgeSession \notin DOMAIN sessions THEN "none"
    ELSE LET session == sessions[bridgeSession] IN
         IF session.state \in {"ENTER_OBJECTIVE"} \cup session.asked
         THEN session.state ELSE "none"

\* /xerrameca start: the node is asked at once.
StartCommand ==
    \/ Rejected
    \/ Creates /\ UNCHANGED memory

\* Any other text: the wizard takes what it waits for, before it is looked at
\* as a command.  A role may be too long.
Text(command) ==
    \/ /\ Awaited # "none"
       /\ Transition(bridgeSession,
              WithChoice(sessions[bridgeSession], Awaited, "typed"), Following(Awaited))
    \/ /\ Awaited \in RoleSteps \cup {"none"}
       /\ IF command THEN StartCommand ELSE Rejected

\* The time to live of a session passes.
Expire(id) ==
    /\ sessions' = [other \in DOMAIN sessions \ {id} |-> sessions[other]]
    /\ callerSession' = IF callerSession = id THEN "none" ELSE callerSession
    /\ UNCHANGED <<bridgeSession, buttons, conversations>>

\* The process ends: nothing of this is written down.
Forget ==
    /\ sessions' = <<>>
    /\ callerSession' = "none" /\ bridgeSession' = "none"
    /\ buttons' = {}
    /\ UNCHANGED conversations

WizardInit ==
    /\ sessions = <<>>
    /\ callerSession = "none" /\ bridgeSession = "none"
    /\ buttons = {}
    /\ conversations = {}

-----------------------------------------------------------------------------

WizardTypeOK ==
    /\ DOMAIN sessions \subseteq SessionIds
    /\ \A id \in DOMAIN sessions : sessions[id] \in Session
    /\ callerSession \in SessionIds \cup {"none"}
    /\ bridgeSession \in SessionIds \cup {"none"}
    /\ buttons \subseteq SessionIds \X Actions
    /\ conversations \subseteq Conversations

\* INICIAR starts what the last CONFIRM screen showed: whatever buttons of
\* earlier screens are pressed, the choices of a session do not change while
\* it waits for the confirmation, nor after it.
ConfirmShowsChoice ==
    \A id \in DOMAIN sessions :
        sessions[id].state \in {"CONFIRM", "STARTED"}
            => sessions[id].summary = sessions[id].choice

\* A session is STARTED exactly when the node has told it of a conversation,
\* it knows that one, and the node never tells it of a second: repeated,
\* cancelled or resumed, a start whose answer arrived is not made again.
StartedOnce ==
    \A id \in DOMAIN sessions :
        LET session == sessions[id] IN
        /\ session.answered =
               IF session.state = "STARTED" THEN {session.conversation} ELSE {}
        /\ session.answered \subseteq conversations

\* All live buttons of the chat are of one session, the one that free text
\* goes to, and it is the one /xerrameca resumes, if there is one to resume:
\* no press reaches a session that has been replaced.
OneSessionOfButtons ==
    /\ \A button \in buttons : button[1] = bridgeSession
    /\ callerSession \in {bridgeSession, "none"}

=============================================================================
