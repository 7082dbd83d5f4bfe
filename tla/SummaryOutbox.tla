--------------------------- MODULE SummaryOutbox ----------------------------
(***************************************************************************)
(* The delivery of a conversation's summary to a memory provider           *)
(* (services/summary_dispatcher.py), composed with the conversation it     *)
(* reports on.  One dispatcher runs per server.  It reads the row, calls   *)
(* the provider and records the result in three steps: the conversation    *)
(* may change between them, the provider may store a summary and its       *)
(* answer be lost, and the process may stop.                               *)
(***************************************************************************)
EXTENDS Engine

CONSTANTS
    MaxAttempts,    \* max_attempts of the dispatcher
    MaxCrashes      \* bound on the passes that are cut short

ASSUME DispatcherBounds == MaxAttempts \in Nat \ {0} /\ MaxCrashes \in Nat

VARIABLES
    pass,           \* the row the dispatcher is working on
    delivered,      \* what the provider has stored, in order
    crashes         \* passes cut short, by a restart or by a failing UPDATE

dispatchVars == <<pass, delivered, crashes>>
vars == <<engineVars, dispatchVars>>

Idle == [stage |-> "idle", says |-> "none", status |-> "none"]

\* A mutant: cancelled conversations are not selected.
DueMutant ==
    /\ outbox.status \in {"pending", "failed"}
    /\ outbox.attempts < MaxAttempts
    /\ status \in Terminal \ {"cancelled"}

\* The SELECT of dispatch_pending.
Due ==
    /\ outbox.status \in {"pending", "failed"}
    /\ outbox.attempts < MaxAttempts
    /\ status \in Terminal

\* A mutant: the summary says the status of the conversation.
ReadRowMutant ==
    /\ pass.stage = "idle" /\ Due
    /\ pass' = [stage |-> "calling", says |-> status, status |-> status]
    /\ UNCHANGED <<engineVars, delivered, crashes>>

ReadRow ==
    /\ pass.stage = "idle" /\ Due
    /\ pass' = [stage |-> "calling", says |-> outbox.says, status |-> status]
    /\ UNCHANGED <<engineVars, delivered, crashes>>

\* The provider stores the summary; its answer may be lost.
ProviderStores ==
    /\ pass.stage = "calling"
    /\ delivered' = Append(delivered, [says |-> pass.says, status |-> pass.status])
    /\ pass' \in {[pass EXCEPT !.stage = s] : s \in {"stored", "failed"}}
    /\ UNCHANGED <<engineVars, crashes>>

ProviderFails ==
    /\ pass.stage = "calling"
    /\ pass' = [pass EXCEPT !.stage = "failed"]
    /\ UNCHANGED <<engineVars, delivered, crashes>>

\* A mutant: only a success counts as an attempt.
RecordResultMutant ==
    /\ pass.stage \in {"stored", "failed"}
    /\ outbox' = [outbox EXCEPT !.status = pass.stage,
                                !.attempts = IF pass.stage = "stored" THEN @ + 1 ELSE @]
    /\ pass' = Idle
    /\ UNCHANGED <<status, supervisor, current, proposal, turns, messages,
                   delivered, crashes>>

\* The result is written to the row, and counted as an attempt.
RecordResult ==
    /\ pass.stage \in {"stored", "failed"}
    /\ outbox' = [status |-> pass.stage, says |-> outbox.says,
                  attempts |-> outbox.attempts + 1]
    /\ pass' = Idle
    /\ UNCHANGED <<status, supervisor, current, proposal, turns, messages,
                   delivered, crashes>>

\* The UPDATE of the row fails.  The loop swallows the error: nothing of the pass
\* is left, and the next one reads the row as it was.
FailToRecord ==
    /\ pass.stage \in {"stored", "failed"}
    /\ crashes < MaxCrashes
    /\ crashes' = crashes + 1
    /\ pass' = Idle
    /\ UNCHANGED <<engineVars, delivered>>

\* The server stops and starts again.
Restart ==
    /\ pass.stage # "idle"
    /\ crashes < MaxCrashes
    /\ crashes' = crashes + 1
    /\ pass' = Idle
    /\ UNCHANGED <<engineVars, delivered>>

Dispatch == ReadRow \/ ProviderStores \/ ProviderFails \/ RecordResult

OutboxInit ==
    /\ Init
    /\ pass = Idle /\ delivered = <<>> /\ crashes = 0

OutboxNext ==
    \/ EngineNext /\ UNCHANGED dispatchVars
    \/ ReadRow
    \/ ProviderStores
    \/ ProviderFails
    \/ RecordResult
    \/ FailToRecord
    \/ Restart

\* loop runs dispatch_pending again and again, whatever it raises.
OutboxSpec == OutboxInit /\ [][OutboxNext]_vars /\ WF_vars(Dispatch)

-----------------------------------------------------------------------------
(* Properties.                                                              *)

OutboxTypeOK ==
    /\ EngineTypeOK
    /\ pass.stage \in {"idle", "calling", "stored", "failed"}
    /\ outbox.attempts \in 0..MaxAttempts
    /\ crashes \in 0..MaxCrashes

\* The provider may be given a summary again, after a lost answer, a restart or a
\* failed UPDATE, but never more often than there were attempts and passes cut
\* short, and a row is marked as stored only if the provider has it.
DeliveryAccounted ==
    /\ Len(delivered) <= outbox.attempts + crashes
                            + (IF pass.stage \in {"stored", "failed"} THEN 1 ELSE 0)
    /\ outbox.status = "stored" => delivered # <<>>

\* What the provider is told is how the dialogue ended, although the conversation
\* may be cancelled before, between or after the attempts; and nothing is told of
\* a conversation that was cancelled before it ended.
SummarySaysOutcome ==
    \A d \in DOMAIN delivered :
        /\ delivered[d].says = outbox.says
        /\ delivered[d].status \in {outbox.says, status}
        /\ messages # <<>>
        /\ messages[Len(messages)].result \in {"blocked", "error"} =>
              delivered[d].says = messages[Len(messages)].result

\* A conversation that has ended stays as it ended, and its tables with it;
\* the one thing that may follow is the cancellation of a blocked or failed
\* one.  A summary, once stored, is not sent again.
EndingIsFinal ==
    [][/\ status \in Terminal =>
             /\ status' = status \/ (status \in {"blocked", "error"} /\ status' = "cancelled")
             /\ UNCHANGED <<turns, messages>>
       /\ outbox.status = "stored" => UNCHANGED <<outbox, delivered>>]_vars

\* A summary that is queued is at some point stored, or its attempts are used
\* up: no cancellation, lost answer, failed UPDATE or restart leaves it pending for
\* ever.
SummarySettles ==
    outbox.status = "pending" ~>
        (outbox.status = "stored" \/ outbox.attempts = MaxAttempts)
=============================================================================
