------------------------------ MODULE Telegram ------------------------------
(***************************************************************************)
(* The Telegram process: the polling runner (integrations/                 *)
(* telegram_polling.py), the dispatcher of updates (telegram_updates.py)   *)
(* and the adapter (telegram.py), driving the wizard of Wizard.tla.        *)
(*                                                                         *)
(* Telegram keeps every update until a poll asks for a later one.  The     *)
(* runner polls, hands the updates over one by one, and after each one     *)
(* writes the next offset to a file.  It may stop at any point; what it    *)
(* has in memory is lost then, Telegram's updates, the file and the node's *)
(* conversations are not.                                                  *)
(*                                                                         *)
(* Updates are counted from the oldest one Telegram still has: an offset   *)
(* of n means that the first n of them have been passed.                   *)
(***************************************************************************)
EXTENDS Wizard, Naturals

CONSTANTS
    MaxBatch,       \* updates of one poll: 100 in the code
    MaxSeen,        \* updates the dispatcher remembers: 1024 in the code
    MaxFailures     \* stops and failed writes of the file

ASSUME TelegramConstants ==
    MaxBatch \in Nat \ {0} /\ MaxSeen \in Nat \ {0} /\ MaxFailures \in Nat

VARIABLES
    updates,        \* what Telegram has, in order, with what came of each
    running,        \* is the process alive
    offset,         \* the next offset in memory, 0 too if there is none
    durable,        \* the next offset in telegram-offset.json
    next,           \* the update of the batch in hand, 0 between two polls
    handed,         \* has it been handed over
    seen,           \* the updates the dispatcher has claimed, oldest first
    failures

runner == <<running, offset, next, handed, seen>>
vars == <<wizardVars, updates, runner, durable, failures>>

\* An update with, for the properties, how often it was run by this process,
\* whether it was ever run, and how many conversations it has created.
Message(text) == <<"message", text>>
Pressed(button) == <<"press", button>>
StaleButton == <<"none", Back>>     \* of a process that is gone
Texts == {"/xerrameca", "words", "/xerrameca start"}
Contents == {Message(text) : text \in Texts}
    \cup {Pressed(button) : button \in (SessionIds \X Actions) \cup {StaleButton}}
Arriving(content) == [content |-> content, runs |-> 0, ran |-> FALSE, made |-> 0]

\* What the user can send: a text, or a press of a button the chat shows.
Sendable == {Message(text) : text \in Texts}
    \cup {Pressed(button) : button \in buttons \cup {StaleButton}}

\* A bound on the user: what is sent between two polls is all text, or one
\* button pressed once or more.
Burst(sent) ==
    \/ ToSet(sent) \subseteq {Message(text) : text \in Texts}
    \/ Cardinality(ToSet(sent)) = 1

-----------------------------------------------------------------------------
(* The runner.                                                             *)

\* getUpdates: Telegram drops what is before the offset and returns the rest,
\* with what the user has sent since the last poll.
Minus(n, m) == IF n > m THEN n - m ELSE 0
Poll ==
    /\ running /\ next = 0
    /\ \E kept \in {SubSeq(updates, offset + 1, Len(updates))},
          sent \in BoundedSeq(Sendable, MaxBatch) :
           /\ Len(kept) + Len(sent) <= MaxBatch /\ Burst(sent)
           /\ updates' = kept \o [i \in DOMAIN sent |-> Arriving(sent[i])]
    /\ durable' = Minus(durable, offset)
    /\ seen' = [i \in DOMAIN seen |-> Minus(seen[i], offset)]
    /\ offset' = 0
    /\ next' = IF updates' = <<>> THEN 0 ELSE 1
    /\ UNCHANGED <<wizardVars, running, handed, failures>>

\* Routing of an update to the adapter, which swallows what goes wrong.
Route(content) ==
    \/ content = Message("/xerrameca") /\ Open
    \/ content = Message("words") /\ Text(FALSE)
    \/ content = Message("/xerrameca start") /\ Text(TRUE)
    \/ content[1] = "press" /\ Press(content[2])

\* A mutant: nothing is remembered of what has been run.
ClaimedMutant(position) == FALSE

\* The dispatcher claims an update before it runs it, in a window that drops
\* the oldest claim.
Claimed(position) == position \in ToSet(seen)
\* A mutant: a full window drops the new claim.
ClaimMutant(position) ==
    seen' = IF Len(seen) < MaxSeen THEN Append(seen, position) ELSE seen
Claim(position) ==
    LET window == Append(seen, position)
    IN  seen' = IF Len(window) > MaxSeen THEN Tail(window) ELSE window

\* The update once it has been run, and created some conversations.
Ran(update, created) ==
    [content |-> update.content, ran |-> TRUE, runs |-> update.runs + 1,
     made |-> update.made + created]
Run(position) ==
    /\ Claim(position)
    /\ Route(updates[position].content)
    /\ updates' = [updates EXCEPT ![position] =
           Ran(updates[position], Cardinality(conversations' \ conversations))]

\* A mutant: a duplicate is waited for as if it were still being run.
DispatchMutant(position) == ~Claimed(position) /\ Run(position)
Dispatch(position) ==
    IF Claimed(position) THEN UNCHANGED <<wizardVars, seen, updates>>
    ELSE Run(position)

Deliver ==
    /\ running /\ next # 0 /\ ~handed
    /\ Dispatch(next)
    /\ handed' = TRUE
    /\ UNCHANGED <<running, offset, durable, next, failures>>

\* What was pressed is not kept once it does not matter any more.
Stale(content) == IF content[1] = "press" THEN Pressed(StaleButton) ELSE content
Settled(update) == [update EXCEPT !.content = Stale(@)]

\* Mutants: the whole batch is passed at once; one update too many is.
PassedMutant(position) == Len(updates)
PassedTooFarMutant(position) == IF position > offset THEN position + 1 ELSE offset

\* The offset passes the update and is written.
Passed(position) == IF position > offset THEN position ELSE offset
Advance ==
    /\ running /\ next # 0 /\ handed
    /\ offset' = Passed(next) /\ durable' = Passed(next)
    /\ next' = IF next = Len(updates) THEN 0 ELSE next + 1
    /\ handed' = FALSE
    /\ updates' = [updates EXCEPT ![next] = Settled(updates[next])]
    /\ UNCHANGED <<wizardVars, running, seen, failures>>

\* The file cannot be written: the rest of the batch is dropped, the offset
\* stays, and the runner polls again.
FailToSave ==
    /\ running /\ next # 0 /\ handed /\ failures < MaxFailures
    /\ next' = 0 /\ handed' = FALSE
    /\ failures' = failures + 1
    /\ UNCHANGED <<wizardVars, updates, running, offset, durable, seen>>

\* The process is stopped, killed, or ends by an error that is final.  Every
\* button shown before is one of a process that is gone.
Stop ==
    /\ running /\ failures < MaxFailures
    /\ running' = FALSE /\ failures' = failures + 1
    /\ Forget
    /\ updates' = [i \in DOMAIN updates |-> [Settled(updates[i]) EXCEPT !.runs = 0]]
    /\ offset' = 0 /\ next' = 0 /\ handed' = FALSE /\ seen' = <<>>
    /\ UNCHANGED durable

\* A new process: it takes the lock and polls.  The file is not read.
Restart ==
    /\ ~running /\ running' = TRUE
    /\ UNCHANGED <<wizardVars, updates, offset, durable, next, handed, seen, failures>>

\* The wizard looks at the time when it is called.
SessionExpires ==
    /\ next # 0 /\ ~handed
    /\ \E id \in DOMAIN sessions : Expire(id)
    /\ UNCHANGED <<updates, runner, durable, failures>>

Init ==
    /\ WizardInit
    /\ updates = <<>> /\ running = TRUE
    /\ offset = 0 /\ durable = 0 /\ next = 0 /\ handed = FALSE /\ seen = <<>>
    /\ failures = 0

Next == Poll \/ Deliver \/ Advance \/ FailToSave \/ Stop \/ Restart \/ SessionExpires

\* The loop goes on while the process lives, and stops and failed writes are
\* bounded; nothing makes the user act or the operator restart.
Spec ==
    /\ Init /\ [][Next]_vars
    /\ WF_vars((updates # <<>> /\ Poll) \/ Deliver \/ Advance)

-----------------------------------------------------------------------------

TelegramTypeOK ==
    /\ WizardTypeOK
    /\ updates \in Seq([content : Contents, runs : Nat, ran : BOOLEAN,
                        made : 0..Cardinality(Conversations)])
    /\ Len(updates) <= MaxBatch
    /\ running \in BOOLEAN /\ handed \in BOOLEAN
    /\ {offset, durable, next} \subseteq 0..Len(updates)
    /\ seen \in Seq(0..MaxBatch) /\ Len(seen) <= MaxSeen
    /\ failures \in 0..MaxFailures

\* One process runs an update at most once, although it polls it again when
\* the offset could not be written: the window of the dispatcher is large
\* enough, of whatever size it is.
OncePerProcess == \A i \in DOMAIN updates : updates[i].runs <= 1

\* Nothing is passed that has not been run: neither the offset that makes
\* Telegram drop an update nor the one in the file is ever ahead.
NothingSkipped ==
    \A i \in DOMAIN updates : i <= offset \/ i <= durable => updates[i].ran

\* A press creates at most one conversation, however often Telegram delivers
\* it: in one process it runs once, even if the node's answer is lost, and
\* the button means nothing to the next one.  (Not so a start command.)
PressCreatesOnce ==
    \A i \in DOMAIN updates :
        updates[i].content[1] = "press" => updates[i].made <= 1

\* What the runner has polled is run, unless the process stops first: an
\* update that is a duplicate or that fails does not hold up the next.
EveryUpdateRuns ==
    (\E i \in DOMAIN updates : ~updates[i].ran)
        ~> (~running \/ \A i \in DOMAIN updates : updates[i].ran)

=============================================================================
