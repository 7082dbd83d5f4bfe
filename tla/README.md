# Xerrameca in TLA+

Xerrameca lets two agents hold a bounded dialogue.  Standalone, one server keeps
the conversation in SQLite.  Federated, each agent runs a node of its own, the
conversation is a signed, append-only event log held by both nodes, and one of
them at a time is the *coordinator* that writes it.  A user of a Telegram chat may
start dialogues as well.  The modules here model that
code, TLC checks them on small instances, and TLAPS proves theorems about the
log, the leases and their exclusion, the federated and the standalone dialogue, the
trust between nodes and the Telegram process for instances of any size.

## 1. The system

| Part | Code (`src/src/xerrameca/`) | State | Operations |
|---|---|---|---|
| event store | `node/events.py` | `federated_events`, `federated_heads`, `replication_cursors` | append, open an epoch, ingest a batch, acknowledge, list |
| replication | `node/replication.py`, endpoints of `node/app.py` | requests and responses in flight | push what is not acknowledged, receive, acknowledge, catch up by range |
| failover | `node/failover.py` | lease events of the log, two clocks | grant, renew, fence, tick, take over |
| federated dialogue | `node/dialogue.py` | none: a projection of the log | create, claim, reply |
| remote actions | `node/dialogue_transport.py`, `node/app.py` | none | a participant's claim or reply, run by the coordinator, its events returned |
| local supervisor | `node/supervisor.py` | none: a process of its own on the same database | inspect, recover an expired claim |
| conversation engine | `services/engine.py`, `services/control.py` | `conversations`, `turns`, `messages`, `summary_outbox` | create, start, inbox, claim, reply, cancel |
| summary dispatcher | `services/summary_dispatcher.py` | its pass in progress | read, deliver, record |
| peer trust | `node/trust.py` | two JSON files | invite, accept, complete, revoke, verify a request |
| Telegram runner | `integrations/telegram_polling.py` | offset in memory and in a file | poll, hand over, pass, stop, restart |
| update dispatcher | `integrations/telegram_updates.py` | window of claimed updates | claim, run |
| adapter and wizard | `integrations/telegram.py`, `command/`, `ui/` | sessions, button tokens, all in memory | open, press, text, start |
| identity, gateway, REST, MCP, monitor, dashboard, CLI | the rest | none that changes after set-up | authenticate, forward, read |

How they interact.  A node process serves HTTP and runs the failover loop on one
event loop; a handler that does not `await` runs to its end.  The handlers of a
claim or reply append their events one SQLite transaction each, without an
`await` in between, then await one push to the peer.  The supervisor's command is
another process on the same database.  A participant whose turn it is sends the
claim or reply to the coordinator and ingests the events that come back.  A
lease is itself an event of the log: it counts for the coordinator when the
replication cursor shows that the peer acknowledged it, and for the participant
when it has received it.  The dialogue asks the lease before it writes.
The Telegram process is a client of the local node: its runner hands updates one
by one to the dispatcher, that to the adapter, that to the wizard of the chat,
whose last button asks the node for a conversation.

What is hard.  Requests and responses that are lost, late or overtaken; state
used after an await (the acknowledgement, the time of a loop pass); a crash
between the transactions of one handler; two processes on one database; two
clocks; a coordinator that is replaced while what it wrote is not delivered;
late or repeated replies under an expired lease; a cancelled conversation whose
summary is being delivered; updates that Telegram delivers again, and buttons
that outlive the screen and the session they were shown for.  PROJECT.json lists
each hazard at its line with the properties that cover it.

What makes each part correct.

- *Log*: no gaps, one event for each position at both nodes, what is
  acknowledged is held by the peer, nothing is rewritten, nothing is added to an
  epoch after it was left.
- *Failover*: the two nodes are never both entitled to write; a write under a
  lease never lands in an epoch that the peer replaced; a node that returns
  catches up.
- *Dialogue*: whatever fails, the replies of the log are ones the protocol
  admits, an open turn is the one they call for, a turn is answered once, and
  the log can always be projected.
- *Engine*: one open turn while active and none after; only the last claimer's
  reply counts; completion needs consent; an ending is final.
- *Trust*: a guest that trusts the host is known to it, a used invitation stays
  used by the same guest, a retry does not undo a revocation.
- *Telegram*: no update is passed that was not run, none runs twice in one
  process, a press creates one conversation at most.
- *Wizard*: what INICIAR starts is what the confirmation showed, it starts once,
  and a session that was replaced is out of reach.
- *Outbox*: a summary is delivered at least once or its attempts run out, and it
  says how the conversation ended.

## 2. The modules

```
FederatedLog            the store and its replication        MCFederatedLog
  FederatedLog_proofs   theorems about it
  Failover              leases and takeover on that log      MCFailover
    Failover_proofs     it implements the log; what follows
      Exclusion_proofs  leases exclude each other
DialogueV1              the protocol, as the replies it admits
  Dialogue              the federated dialogue, implements DialogueV1
    Dialogue_proofs     theorems about it, and the refinement
  Engine                the standalone dialogue, implements DialogueV1
    SummaryOutbox       the engine composed with the dispatcher
      Engine_proofs     theorems about both, and the refinement
Trust                   invitations and the peers they admit
  Trust_proofs          theorems about them
Wizard                  the sessions and buttons of a chat
  Telegram              the process that polls and drives it   MCTelegram
    Telegram_proofs     theorems about both
```

**FederatedLog.** `events`, `head` and `cursor` are the three tables, for one
conversation, at each node; `pushes`, `acks`, `pulls` and `ranges` are HTTP
requests and responses in flight.  A message may be received once, in any order
with others, or lost (`Lose`), which also stands for a caller that timed out or
crashed.  `Create`, `LocalAction`, `RemoteAction`, `RecoveryAction` and
`OpenEpoch` are the handlers that write: a handler appends `k` events and puts
its push or response in flight in the same step.  A crash between two
transactions of it is the same step with fewer events whose request is then
lost, so those prefixes are all covered.  `Acceptable` is the outcome of
`_insert_verified` over a batch in one transaction, `ReceiveEvents` is
`receive_events` with its acknowledgement, `ReceiveAck` the end of
`push_missing`.  Signatures are modelled by the author of an event: a node adds
events in its own name only, since nothing else verifies.  Bodies are values;
what they mean is left to the modules above.

**Failover** extends it with `clock`, one per node.  Lease bodies are records in
`Body`.  `Effective` and `InForce` are `status`; `MayWrite` is
`require_local_write_lease`; `Tick` is one conversation in a pass of the loop,
with a time read up to `MaxStale` ago, because the pass awaits the peer for each
conversation before it.  `TakeOver(n, t, d, 0)` is a crash between the two
transactions of a takeover.  `Recover` is the supervisor, which asks no lease.

**DialogueV1** is the abstract protocol.  Its only variable is the sequence of
replies; `Outcome` and `TurnAfter` are functions of the last two.

**Dialogue.** `log[n][e]` is what node `n` holds of epoch `e`.  A handler reads
the projection once (`Claim`, `Reply`), leaves its events in `pending`, and
`Write` appends them one by one; `Crash` drops the rest.  `RecoverRead` and
`RecoverWrite` are the supervisor's two halves.  From the modules below it takes
what they show: a node holds a prefix of what the author of an epoch wrote, the
author moves on when it learns of the next epoch, and a coordinator whose peer
has replaced its epoch writes no dialogue events.  The supervisor runs beside the
node, and a participant takes over with whatever part of the log it has: nothing
in the code prevents either, and nothing in the module does.  The history variable
`strayed` says that one of the two steps has been taken after which the logs no
longer follow the protocol: a *stale reopening* (`StaleReopening`: the supervisor
appends `turn.opened` for a turn that has been answered since it was read) or a
*blind takeover* (`BlindTakeOver`: the views of the two nodes differ when one takes
over).  A recovery beside the node or a takeover that is neither is followed to its
end.  Properties that these steps break have `strayed` as a disjunct; `TypeOK` and
`NobodyCompletesAlone` have not, and hold of every behaviour.

**Engine.** One row of each table.  A turn counts the tokens it handed out; a
reply may carry any of them.  `ReplyTurn` is one transaction, `NextTurn` is empty
where the code raises and rolls back.  Delays (`available_at`), permissions and
scopes are left out; `needs_human` behaves as `blocked`.

**SummaryOutbox** adds the dispatcher's `pass`, what the provider has
`delivered`, and what cuts a pass short: a restart, or an UPDATE of the row that
fails and is swallowed by the loop (`FailToRecord`).  The three steps of a pass
interleave with every operation of the engine.

**Trust.** `peers` and `invites` are the host's two files; `job` is what its
node and its command line are in the middle of, with the copies they have read.
`Load` and `Store` are the two halves of `_upsert_peer`, `CreateInvite` and
`SaveInvite` those of `create_invite`; `AcceptIncoming`, `Load`, `Store` and
`Consume` are `accept_incoming`; `HostAccepts` is the host's own `invite accept`,
which writes the same peers file.  The node runs one handler at a time, since
`accept_incoming` does not await, and the operator one command at a time; the two
processes interleave at every step, for no lock keeps them apart.  `Stop` ends a
process anywhere.  The history variable `lost` holds the guests whose row was
dropped by a process that wrote back rows it had read before there was one.  A guest is its one call under way and what it says of
the host; its own files are not followed, their updates being those of the host's.
The checks of time are one set `expired`; the limit of five minutes on an
acceptance is part of `LoseCall`.

**Wizard.** The handlers of one chat, as operators that the process calls.  A
screen's buttons stay in the chat when the next screen is sent: `buttons` are
the live tokens, as pairs of a session and an action, and `HandleAction` judges
an action by the state of its session, as the code does.  A screen that could
not be sent, a token that has expired, a role that is too long or a peer no
longer trusted are the alternatives `Rejected`.  `Text` goes to the session that
was rendered last (`bridgeSession`), `Open` resumes the one the wizard keeps for
the caller (`callerSession`): the code has both and they may differ.  `Start` may
be refused, answered, or done with its answer lost.

**Telegram** adds the process.  `updates` is what Telegram still has, counted from
the oldest; an update carries how often it was run, for the properties.  `Poll`
drops what the offset passed and takes the rest with what the user sent since;
`Deliver` is the dispatcher with its window `seen` and the handler it runs;
`Advance` passes the update and writes the file; `FailToSave`, `Stop`, `Restart` and
`SessionExpires` are the faults.  `Restart` does not read the file, because the code
does not.  The lock of the runner makes it one process.  A poll that fails
changes nothing.

## 3. The runs

| Run | Result | What it asks |
|---|---|---|
| `federated_log` | passes | the seven properties of the log |
| `failover` | passes | leases exclude each other, given the timing assumption below |
| `split_brain` | violation of `ExclusiveWriter` | the same with leases of two lengths |
| `histories` | violation of `SealedEpochsAgree` | do the histories converge after a takeover? |
| `return` | violation of `ReturningNodeCatchesUp` | does a returning node catch up by itself? |
| `dialogue` | passes | the federated dialogue implements the protocol up to a stale reopening or a blind takeover, and nobody completes it alone |
| `recovery_race` | violation of `ReopensExpiredClaim` | does a recovery reopen an expired claim only, while the node serves? |
| `lagging_takeover` | violation of `ProjectionNeverFails` | can every log be projected, after a takeover without the end of the log too? |
| `engine_outbox` | passes | the engine and the delivery of its summary |
| `trust` | passes | trust is mutual, consumption and revocation hold, but for what a stale write undoes |
| `invite_reuse` | violation of `UsedIsFinal` | does a used invitation stay used, whatever command runs while the node serves? |
| `telegram` | passes | the polling process, its duplicate filter and the wizard it drives |

### Bounds

- `federated_log`: two epochs, three events each, batches of two, two exchanges
  in flight, one body beside the two the code reads.  Two epochs are one
  takeover and a return; three events leave room for a gap, a partly known
  batch and a batch that continues another.  Two exchanges can overtake one
  another, and an acknowledgement can be overtaken by a longer one.  Symmetry
  is over the bodies the code does not read.
- `failover`: leases of length 2, clocks to 5 with skew 1, staleness 1, grace 3,
  five events an epoch.  The coordinator can create, renew, write and be
  replaced.  One exchange in flight keeps the run small; the log run has two.
- `dialogue`: two rounds, two epochs, one retry, four claims and one recovery in a
  log, and the two results that let a dialogue go on (the other two end it at once,
  and the violation runs have one of them).  Four claims reach the second round and
  the confirmation of a proposal, declined or not, with a claim that is repeated.
  The recovery may run beside the node and the takeover may be from part of the
  log.  `CONSTRAINT Straight` ends a behaviour at its first stale reopening or
  blind takeover: that step is checked, and what follows it is not explored, since
  there the properties with `strayed` hold trivially.  `TypeOK` and
  `NobodyCompletesAlone` are proved of what follows as well (section 5), and the two
  violation runs are not constrained.  `CONSTRAINT Brief` lets a recovery count as
  one of the four claims: a dialogue with a recovery has three, which is one that is
  lost, its turn reopened, and two that are answered, the second of which may be the
  confirmation.
- `engine_outbox`: two rounds, two claims for a turn, two attempts, one pass cut
  short.
- `trust`: two guests that may hold the same invitation, two invitations, so that
  a file has a row beside the one being changed; any number of retries and stops,
  one acceptance on its way at a time (`MaxCalls`; `invite_reuse` has two).  Commands
  interleave with the node's updates at every step.  Symmetry is over guests and
  invitations, which the code only compares.
- `telegram`: of the seven selection screens one of each kind, the peer that may
  lose its trust, the objective that is typed and the role that is chosen or
  typed; one peer, two sessions (a session and the one before it), two
  conversations.  Batches of two updates: a duplicate with one behind it.  A
  window of one: at most one update is run and not passed, and only that one can
  be polled again by the same process, so that the code's 1024 are as good.  One
  failure: a stop, or a write that fails.  `Burst` keeps what is sent between two
  polls to texts or presses of one button.
- The violation runs use the smallest bounds at which they show their trace.

Apart from the two constraints of `dialogue`, a bound is a conjunct of the action it
limits, and the constants are named in the
module that declares them.  `CHECK_DEADLOCK` is off everywhere: a dialogue ends,
a crashed handler may leave a conversation active with no turn, clocks stop at
`MaxTime`.

### Timing

When every lease has one length, `ExclusiveWriter` needs
`Grace >= MaxSkew + MaxStale` and `NoLateWrite` needs
`Grace >= MaxSkew + MaxStale + MaxStale`: the write that comes late may itself be a
renewal, judged by the time of its pass, so that the age of a pass counts twice.
The run takes the second bound, and both are proved (section 5).  With less grace
by one, or with leases of two lengths, there are violations; the second is the run
`split_brain`.  The code's grace is 5 seconds by default (`failover.py` 18), a pass
of the loop may be as old as the push timeouts before it (10 seconds each), and
nothing bounds the skew of the clocks: the assumption is one the operator has to
secure.  The endpoints take the length of a lease and the grace from each request
(`app.py` 474-522); the model has one grace, and the run `failover` one length, for
that is what a node's loop uses.  `DialogueWrite` judges the lease and appends at one
reading of the clock; the code checks and then appends without an `await`, so that
what lies between is the execution of a few statements, which `MaxSkew` can absorb.

One assumption about the peer: `AckEndpoint` states a position that the peer holds.
`receive_ack` does not check it (`replication.py` 105-126), and could not; that
`AckedIsHeld` is true of that endpoint is what an honest peer makes of it.

### Fairness

`FairFailoverSpec` assumes that both clocks go on, that each node's loop acts
when it continuously could (`loop` runs a pass every few seconds whatever the
last one raised), and that some message in flight is eventually received.
Agents and operators are not obliged to do anything, nor is any single message
safe from loss.  `OutboxSpec` assumes that the dispatcher goes on with its pass
(`loop`); conversations, restarts and failing updates are free.  `Telegram`'s `Spec` assumes that
the runner goes on polling while Telegram has updates, handing over and passing
while it lives (`run_forever`); the user, stops and restarts are free.

## 4. The violations

Each is a statement of the documents, quoted in PROJECT.json, that the code does
not keep.

1. *Split brain* (`split_brain`): `renew_lease` accepts a lease that ends before
   the one in force.
2. *Histories differ* (`histories`): a takeover does not need the last events of
   the old coordinator, which are refused afterwards.
3. *Both fenced* (`return`): after a takeover whose push was lost, the new
   coordinator's lease runs out and its `tick` returns before it would push.
   `POST .../sync` by hand repairs it.
4. *Recovery race* (`recovery_race`): the recovery command appends on the
   strength of a projection that another process has made old.
5. *Unreadable log* (`lagging_takeover`): the undelivered end of one epoch and
   the beginning of the next do not fit, and the old coordinator's projection
   fails from then on.
6. *Invitation used twice* (`invite_reuse`): `invite create` writes back the rows
   it read before the node marked an invitation used, which is pending again.

Where code and words differ without a property to break, or where the difference
is not in what the modules keep:

- `TelegramOffsetStore.load` is never called (`cli.py` 394-455), although its docstring
  and the comment "never move the durable offset backwards" count on it: after
  a restart the first poll has no offset, the updates since Telegram last heard one
  run again, so that a typed start command creates a second conversation, and
  the file may go backwards (`Restart`).
- `/xerrameca start ...`, typed while the wizard waits for an objective or a role,
  is taken for that text (`telegram.py` 288); the docstring of `handle_text` says
  only what is not a command is routed to the wizard (`Text`).
- Asking to type a role moves the session to the state it is in, which
  `VALID_TRANSITIONS` does not have: the user is shown an error, and the text is
  awaited all the same (`Choose`).
- INICIAR on an old confirmation starts what the last confirmation showed, which
  `ConfirmShowsChoice` says; the old screen may show something else.
- A button of an earlier list of conversations opens whatever has its index in
  the last list (`wizard.py` 314); browsing reads only and is not followed.
- The output mode that is chosen is shown and never sent to the node.

## 5. What is proved

`FederatedLog_proofs` proves, for all bounds, bodies and numbers of messages in
flight, with `A # B` and the bounds' types as the only assumptions, that the
properties of the run `federated_log` hold of every behaviour of `Spec`.

The type invariant and agreement are not inductive: a message in flight may carry
what its receiver will insert.  `LogInv` therefore adds

- that the head row names the last event of its epoch, so that positions are
  dense up to it and nothing lies beyond it;
- the authorship of epochs: odd epochs are written by `A`, even ones by `B`,
  because only the node that does not coordinate an epoch can end it.  Two
  nodes hence never sign the same position, and agreement becomes a statement
  about one author and one reader;
- that everything the reader of an epoch holds, the author holds as well
  (`CoordinatorHoldsAll`), which is what a push relies on when its sender has
  meanwhile written more;
- for each kind of message, that its events are a part of its sender's log that
  ends at the position it names, and that a position in an acknowledgement is
  held by the node that sent it.

The step theorem has one case for each action; the lemmas before it say what an
append, an ingestion and a transmission do to the invariant.  `HistoryImmutable`
and `EpochSealed` are action properties and follow from the step cases.  `NoGaps`
is inductive given `LogInv`: what is added to an epoch starts where the head
says that it ends.

`Failover_proofs` proves that every behaviour of `FailoverSpec` is one of `Spec`,
so that all of the above holds of the log as leases, loops and the supervisor
use it, whatever the clocks do.  In particular the violations above are never
disagreements about a position of the log.

`Trust_proofs` proves the four properties of the run `trust` for any guests and
invitations, with no assumption on when commands run.  What is true under every
interleaving is weaker than what the documents say, and says where the difference
comes from: a used row is changed by `create_invite` alone, when it had read the row
before its use (`OnlyCreateReopens`); a revoked peer is restored by an acceptance of
an invitation nobody had used, by its operator, or by rows read before the revocation
(`RevocationHolds`); a guest that trusts the host is known to it, unless such a write
dropped it (`TrustIsMutual`).  None is inductive.  The copies that processes have
read may be old, and the invariant says how old: only the node records uses, so that
its copy shows every use the file shows, while a use in the command's copy is still
in the file (`UsesRead`); an invitation that was not printed is in no copy
(`Unprinted`); whoever used an invitation in the file or in the node's copy, is about
to be recorded as its user or has a confirmation under way is known or was dropped
(`UsedIsKnown`), which is the order in which `accept_incoming` writes.

`Exclusion_proofs` proves `ExclusiveWriter`, `LeaseHeldByPeer` and `NoLateWrite` for any
clocks, losses and delays, under `OneLength` and the two bounds on the grace.  The
argument: what a coordinator acts on is the lease it granted with its epoch or one
whose acknowledgement it has, and such a one was held by the peer before it took
over (`AckedIsHeld`, `NoGaps`), since nothing is added to an epoch after it was left
(`EpochSealed`).  So it is no newer than the lease the takeover waited for.
`LeaseInv` carries what is needed to compare their ends:

- `Skew`: the clocks stay within `MaxSkew`;
- `LeaseEnds`: a lease ends no later than one length after its author's clock;
- `LeaseOrder`: a newer lease of an author does not end more than `MaxStale` before
  an older one, because a pass works with an old time;
- `GrantFirst`: the lease that needs no acknowledgement is the oldest of its epoch;
- `TookOver`: who coordinates a later epoch has a clock past the newest lease it
  held of the one before, plus the grace.  This is the fact that a step of the
  other node could undo, and does not, since the epoch is sealed.

`Dialogue_proofs` proves the six invariants of the run `dialogue` and the refinement of
`DialogueV1`, for any number of rounds, epochs, claims, retries and recoveries, with no
assumption on when the supervisor runs or what a participant lacks when it takes
over.  Until the first stale reopening or blind takeover all of them hold; `TypeOK`
and `NobodyCompletesAlone` hold after it too.  That these two are the only steps
which need an exception is the point of `FailsOnlyAstray`; that they cannot be left
out, `recovery_race` and `lagging_takeover` show.

None of the properties is inductive, since a handler that has appended some of its
events has left the log in between two of its states, and a crash or the peer may
take it from there.  The invariant is therefore about events.  `Legal(view, ev)`
says when the protocol lets `ev` follow a log that projects to `view`: a turn is
opened when the replies call for it (`Due`), with the id of the turn that is open if
there is one, and otherwise one of the replies so far; a claim and a reply are of the open turn; the
end is the one the replies have.  A log is `Sound` if each of its events is legal
after those before it, and what the projection of a sound log looks like follows by
induction over its length (`Good`).  `DialogueInv` says

- `Records`: the log of a node, with all that its handler has yet to append, is
  sound.  So is each prefix: a crash takes away the end, and a peer that has learnt
  only a part of an epoch holds a prefix;
- `Heads`: the nodes are at most one epoch apart, and the one behind was the
  coordinator of its epoch and appends nothing;
- `Recovering`: what the supervisor will append is a `turn.opened` of an epoch that
  its node wrote.  Whether it is still the open turn, `StaleReopening` asks at the
  moment of the append;
- `BasesAgree`: before its epoch, a coordinator holds what its peer holds, except for
  recoveries that the peer may still append to the epoch that it does not know to be
  over.  The two logs then differ in their events and agree in everything but the
  claim (`Similar`).  This is why a log stays sound when the next epoch is learnt
  after such a recovery: a claim or a reply is of the turn that is open in both
  (`SoundExtend`).

`Records` and `BasesAgree` are claimed until the first stray step only, `Heads` and
`Recovering` always.  The refinement follows from the same legality: a step that
appends a reply appends one of the open turn, which is the turn that the replies call
for, and every other step leaves the replies of the foremost log as they are, a
takeover or a recovery at the node behind included (`ProtocolStep`).

`NobodyCompletesAlone` needs an argument of its own, because after a stray step no
log need be sound.  It goes by what a node holds, not by its order (`Backed`): a
`completion.proposed` comes with the reply that makes it, in one epoch, and the peer
learns an epoch from its beginning; a completion follows a proposal that the
projection shows, of the other node, whose reply is therefore held, and its own
reply was appended just before.  What a handler has yet to append is backed by what
it appends first (`QueueBacked`), so that no crash leaves a proposal or an end
without its reply.

`Engine_proofs` proves the nine safety properties of the run `engine_outbox` for any
number of rounds, claims, attempts and passes cut short, the refinement of `DialogueV1` among
them.  `OneOpenTurn` is not inductive: that a second turn is never open follows from
turns and messages running in parallel.  The invariant says

- message `m` is the answer to turn `m`, by the token handed out last (`Recorded`),
  and at most one turn has no message: the open one, or the one a cancellation
  closed (`AtMostOneOpen`).  A reply to anything but the current turn would
  meet a completed row;
- a turn of slot 0 is open exactly while a proposal is recorded; the proposal is the
  last reply, its turn a regular one of the other agent (`ConfirmsLastReply`).
  This is what makes the two rows that the code consults, the turn and the proposed
  turn, the last two replies that the protocol consults;
- a turn is no later than its round and slot allow (`Schedule`).  A declined proposal
  takes a turn of its own but stands for the next slot, so that there are never
  more than two turns a round and one more;
- the row, the pass and the deliveries say one ending, which is that of the last
  reply (`Queued`, `Passing`, `Told`).

`NextTurnFacts` says what a reply opens, and `ReplyFollows` that it is what
`TurnAfter` calls for; the refinement then is one step for each reply.

`Telegram_proofs` proves the seven invariants of the run `telegram` for any steps of
the wizard, peers, batches, windows and failures, and any finite number of
conversations.  The invariant has two halves:

- `WizardInv`: every button of the chat is of the session rendered last, so that a
  press, of whatever screen, moves that one session.  What a session shows at
  CONFIRM is its choice, and it has a conversation exactly when it is STARTED
  (`SessionOK`).  A lost answer leaves all of it as it was: the conversation is one
  more at the node, of which no session knows.
- `RunnerInv`: at most one update has been run and not passed.  It is the one after
  the offset, and the dispatcher has claimed nothing since (`Runs`, `ClaimedLast`).
  This is why `OncePerProcess` does not depend on the size of the window: a claim
  added to a full window drops the oldest, never the last.  What is passed or
  claimed was run (`Accounted`), and a press that still means something has been run
  by this process or has created nothing (`Made`).

`NothingSkipped` and `OncePerProcess` pull on the two halves of one step: an offset
that is written before the update is run would break the first, one that waits for
more than one update the second as soon as the window is shorter.

Only model-checked: `SummarySettles` and the other liveness properties, which are out
of the prover's reach.  What the recursive functions of a log compute, `Project`,
`RepliesIn` and `Listed`, is proved by induction over sets of numbers
(`NatSetInduction`, from the library's theorem on well-founded relations), because the
induction theorems that take a predicate cannot be used.

## 6. What is not modelled

Of the chat, the help, refresh, sync and display buttons, the defaults a type of
dialogue gives the roles, other chats and malformed updates: they change
nothing that the modules keep.  Identity, gateway, REST, MCP,
monitor, dashboard and the command line keep no state that their operations
change, or only forward.  Canonical JSON, signatures and base64 are taken for
what they guarantee.  Event and turn identifiers are random in the code and
distinct here: a turn's is the node that opens it and the number of replies it has
seen.

## 7. Plan

Done: every module has theorems about the safety properties that its runs check.

Next: the hazards that no property covers yet (PROJECT.json), and the link between
the layers.  `Dialogue` takes from `FederatedLog` that a node holds a prefix of what
its peer wrote in an epoch, and from `Exclusion_proofs` that a coordinator which has
been replaced writes no more; both are theorems there, stated of the other modules'
variables, and a refinement that composes the three is not written.  What the
caller of a write is told is in no module either: a write that is committed and
reported as a conflict, or a remote action that is done and reported as failed, are
steps of `FederatedLog` whose answer is not kept (PROJECT.json names both).
