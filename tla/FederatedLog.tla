---------------------------- MODULE FederatedLog ----------------------------
(***************************************************************************)
(* The signed event log of one federated conversation, held by its two     *)
(* participants, and its replication between them:                         *)
(*   node/events.py        EventStore: append, epoch change, ingestion     *)
(*   node/replication.py   push with acknowledgement, catch-up by range    *)
(*   node/dialogue_transport.py  events returned by a remote action        *)
(* One SQLite transaction of the code is one step.  An HTTP exchange is a  *)
(* request and a response in flight: either may be delayed, overtaken or   *)
(* lost, and a caller that timed out is a response that is lost.  The      *)
(* store is durable, so a crash of a node is the loss of what it awaited.  *)
(***************************************************************************)
EXTENDS Integers, FiniteSets

CONSTANTS
    A,              \* the participant that creates the conversation
    B,              \* the other participant
    Body,           \* what an event says: its type and payload
    Created,        \* the body of conversation.created
    Changed,        \* the body of coordinator.changed
    MaxEpoch,       \* bound on coordinator epochs
    MaxSequence,    \* bound on the events of one epoch
    MaxBatch,       \* bound on the events one remote action appends
    MaxInFlight     \* bound on the exchanges in flight at one time

ASSUME Participants == A # B
ASSUME Bodies == Created \in Body /\ Changed \in Body /\ Created # Changed
ASSUME Bounds == /\ MaxEpoch \in Nat \ {0}
                 /\ MaxSequence \in Nat \ {0}
                 /\ MaxBatch \in Nat \ {0}
                 /\ MaxInFlight \in Nat

VARIABLES
    events,     \* table federated_events of each node, as a set of rows
    head,       \* row of federated_heads of each node; epoch 0 for no row
    cursor,     \* table replication_cursors: what the peer acknowledged
    pushes,     \* POST /federation/events requests in flight
    acks,       \* their responses in flight
    pulls,      \* GET .../events requests in flight
    ranges      \* events on their way back: catch-up and remote actions

store == <<events, head>>
network == <<pushes, acks, pulls, ranges>>
logVars == <<events, head, cursor, pushes, acks, pulls, ranges>>

Node == {A, B}
Peer(n) == IF n = A THEN B ELSE A
Epoch == 1..MaxEpoch
Sequence == 1..MaxSequence
Content == Body \ {Created, Changed}

\* An event; "previous" is the coordinator a coordinator.changed replaces.
Event == [epoch: Epoch, sequence: Sequence, coordinator: Node, body: Body,
          previous: Node]
Head == [coordinator: Node, epoch: 0..MaxEpoch, sequence: 0..MaxSequence]

Push == [from: Node, epoch: Epoch, last: Sequence, events: SUBSET Event]
Ack == [to: Node, epoch: Epoch, last: Sequence, acked: Sequence]
Pull == [from: Node, epoch: Epoch, after: 0..MaxSequence]
Range == [to: Node, kind: {"catch-up", "action"}, epoch: Epoch,
          last: Sequence, events: SUBSET Event]

TypeOK ==
    /\ events \in [Node -> SUBSET Event]
    /\ head \in [Node -> Head]
    /\ cursor \in [Node -> [Epoch -> 0..MaxSequence]]
    /\ pushes \subseteq Push
    /\ acks \subseteq Ack
    /\ pulls \subseteq Pull
    /\ ranges \subseteq Range

-----------------------------------------------------------------------------
(* Queries of the store.                                                    *)

NoHead == [coordinator |-> A, epoch |-> 0, sequence |-> 0]

EventsAfter(n, e, s) == {ev \in events[n] : ev.epoch = e /\ ev.sequence > s}

IsLast(S, e, s) ==
    /\ \E ev \in S : ev.epoch = e /\ ev.sequence = s
    /\ \A ev \in S : ev.epoch = e => ev.sequence <= s

\* Mutant: any participant passes for the coordinator.
CoordinatesMutant(n) == head[n].epoch > 0

Coordinates(n) == head[n].epoch > 0 /\ head[n].coordinator = n

Quiet == Cardinality(pushes) + Cardinality(acks)
            + Cardinality(pulls) + Cardinality(ranges) < MaxInFlight

\* The head row that ends in the last event written.
WrittenHead(n, e, s) == [coordinator |-> n, epoch |-> e, sequence |-> s]

NewEvent(n, e, s, body, prev) ==
    [epoch |-> e, sequence |-> s, coordinator |-> n, body |-> body,
     previous |-> prev]

Init ==
    /\ events = [n \in Node |-> {}]
    /\ head = [n \in Node |-> NoHead]
    /\ cursor = [n \in Node |-> [e \in Epoch |-> 0]]
    /\ pushes = {} /\ acks = {} /\ pulls = {} /\ ranges = {}

-----------------------------------------------------------------------------
(* Writes.  A handler appends its events one transaction each and, with no   *)
(* await in between, sends the peer all it has not acknowledged.  A crash   *)
(* between two appends is the same handler with fewer of them whose request *)
(* is then lost.                                                            *)

\* push_missing up to its await: everything after the acknowledged cursor, in
\* the epoch this node coordinates, as the step leaves the log.
Unacknowledged(n) ==
    {ev \in events'[n] : /\ ev.epoch = head'[n].epoch
                         /\ ev.sequence > cursor[n][head'[n].epoch]}

Transmit(n) ==
    pushes' = pushes \cup {[from |-> n, epoch |-> head'[n].epoch,
                            last |-> head'[n].sequence,
                            events |-> Unacknowledged(n)]}

\* Events signed by n with these bodies, at the k positions after s.
Signed(n, e, s, bodies, k) ==
    {NewEvent(n, e, s + i, bodies[i], n) : i \in 1..k}

\* append_local on an empty log: only conversation.created may come first.
Create(bodies, k) ==
    /\ head[A].epoch = 0
    /\ Quiet
    /\ k < MaxSequence
    /\ events' = [events EXCEPT ![A] = {NewEvent(A, 1, 1, Created, A)}
                                          \cup Signed(A, 1, 1, bodies, k)]
    /\ head' = [head EXCEPT ![A] = WrittenHead(A, 1, k + 1)]
    /\ Transmit(A)
    /\ UNCHANGED <<cursor, acks, pulls, ranges>>

\* append_local by the coordinator, k times.
Appended(n, bodies, k) ==
    Signed(n, head[n].epoch, head[n].sequence, bodies, k)

\* Mutant: the last of the events returned is not committed.
AppendMutant(n, bodies, k) ==
    /\ Coordinates(n)
    /\ head[n].sequence + k <= MaxSequence
    /\ events' = [events EXCEPT ![n] =
            @ \cup {ev \in Appended(n, bodies, k) : ev.sequence < head[n].sequence + k}]
    /\ head' = [head EXCEPT ![n] =
                    WrittenHead(n, head[n].epoch, head[n].sequence + k)]

Append(n, bodies, k) ==
    /\ Coordinates(n)
    /\ head[n].sequence + k <= MaxSequence
    /\ events' = [events EXCEPT ![n] = @ \cup Appended(n, bodies, k)]
    /\ head' = [head EXCEPT ![n] =
                    WrittenHead(n, head[n].epoch, head[n].sequence + k)]

\* A local claim, reply or renewal, followed by its push.
LocalAction(n, bodies, k) ==
    /\ Quiet
    /\ Append(n, bodies, k)
    /\ Transmit(n)
    /\ UNCHANGED <<cursor, acks, pulls, ranges>>

\* A participant's claim or reply executed here: the handler returns the
\* events it added after the head it had read, and pushes nothing.
RemoteAction(n, bodies, k) ==
    /\ Quiet
    /\ Append(n, bodies, k)
    /\ ranges' = ranges \cup
            {[to |-> Peer(n), kind |-> "action", epoch |-> head[n].epoch,
              last |-> head[n].sequence + k,
              events |-> Appended(n, bodies, k)]}
    /\ UNCHANGED <<cursor, pushes, acks, pulls>>

\* The supervisor's recovery command: one append by a process of its own, which
\* pushes nothing.
RecoveryAction(n, body) ==
    /\ Append(n, [i \in 1..1 |-> body], 1)
    /\ UNCHANGED <<cursor, network>>

\* advance_epoch and what FailoverManager.takeover appends after it; never by
\* the coordinator of the epoch that ends.
OpenEpoch(n, bodies, k) ==
    LET e == head[n].epoch + 1 IN
    /\ head[n].epoch > 0
    /\ head[n].coordinator # n
    /\ e <= MaxEpoch
    /\ k < MaxSequence
    /\ Quiet
    /\ events' = [events EXCEPT ![n] =
                    @ \cup {NewEvent(n, e, 1, Changed, head[n].coordinator)}
                      \cup Signed(n, e, 1, bodies, k)]
    /\ head' = [head EXCEPT ![n] = WrittenHead(n, e, k + 1)]
    /\ Transmit(n)
    /\ UNCHANGED <<cursor, acks, pulls, ranges>>

-----------------------------------------------------------------------------
(* Ingestion: ingest_many inserts a contiguous batch in sequence order, in  *)
(* one transaction that any refused event rolls back.                       *)

Fresh(n, batch) == batch \ events[n]

\* The position in the batch's epoch after which the local log is missing
\* events: the head's when the epoch is the head's, else its beginning.
KnownUpTo(n, e) == IF e = head[n].epoch THEN head[n].sequence ELSE 0

\* Mutant: newer than the log is taken for next to the log.
ContiguousMutant(n, e, last, fresh) ==
    \A ev \in fresh : ev.sequence > KnownUpTo(n, e)

Contiguous(n, e, last, fresh) ==
    {ev.sequence : ev \in fresh} = (KnownUpTo(n, e) + 1)..last

\* The epoch of the batch continues the log: it is the head's and has the
\* same coordinator, or it is the next one and its first event says so.
ContinuesEpoch(n, e, fresh) ==
    \/ /\ head[n].epoch = 0
       /\ e = 1
       /\ \A ev \in fresh : ev.sequence = 1 => ev.body = Created
    \/ /\ head[n].epoch > 0
       /\ e = head[n].epoch
       /\ \A ev \in fresh : ev.coordinator = head[n].coordinator
    \/ /\ head[n].epoch > 0
       /\ e = head[n].epoch + 1
       /\ \A ev \in fresh :
              ev.sequence = 1 => /\ ev.body = Changed
                                 /\ ev.previous = head[n].coordinator

OneCoordinator(fresh) == \A x, y \in fresh : x.coordinator = y.coordinator

\* Mutant: a batch need only continue what is held of its own epoch.
AcceptableMutant(n, e, last, batch) ==
    LET fresh == Fresh(n, batch)
        held == {ev.sequence : ev \in EventsAfter(n, e, 0)} IN
    fresh # {} => /\ {ev.sequence : ev \in fresh} = (1..last) \ held
                  /\ OneCoordinator(fresh)

Acceptable(n, e, last, batch) ==
    LET fresh == Fresh(n, batch) IN
    fresh # {} => /\ Contiguous(n, e, last, fresh)
                  /\ ContinuesEpoch(n, e, fresh)
                  /\ OneCoordinator(fresh)

\* Mutant: the head follows the batch even when all of it was already held.
IngestMutant(n, e, last, batch) ==
    /\ events' = [events EXCEPT ![n] = @ \cup batch]
    /\ \/ batch = {} /\ UNCHANGED head
       \/ \E ev \in batch :
             /\ ev.sequence = last
             /\ head' = [head EXCEPT ![n] = WrittenHead(ev.coordinator, e, last)]

\* The effect of an accepted batch on the store: the last event inserted, if
\* any, is the new head.
Ingest(n, e, last, batch) ==
    /\ events' = [events EXCEPT ![n] = @ \cup batch]
    /\ \/ Fresh(n, batch) = {} /\ UNCHANGED head
       \/ \E ev \in Fresh(n, batch) :
             /\ ev.sequence = last
             /\ head' = [head EXCEPT ![n] = WrittenHead(ev.coordinator, e, last)]

-----------------------------------------------------------------------------
(* Push replication with acknowledgement.                                   *)

\* POST .../sync at the coordinator: push_missing, when there is anything.
SyncPush(n) ==
    /\ Coordinates(n)
    /\ Quiet
    /\ EventsAfter(n, head[n].epoch, cursor[n][head[n].epoch]) # {}
    /\ UNCHANGED store
    /\ Transmit(n)
    /\ UNCHANGED <<cursor, acks, pulls, ranges>>

\* What the acknowledgement of epoch e states, from the log after ingestion.
AckedSequence(n, e, s) ==
    IF head'[n].epoch = e THEN s = head'[n].sequence
                          ELSE IsLast(events'[n], e, s)

\* receive_events: a refused batch changes nothing and its caller learns no
\* position; an accepted one is acknowledged up to what is now held.
ReceiveEvents(m) ==
    LET n == Peer(m.from) IN
    /\ m \in pushes
    /\ pushes' = pushes \ {m}
    /\ \/ /\ Acceptable(n, m.epoch, m.last, m.events)
          /\ Ingest(n, m.epoch, m.last, m.events)
          /\ \E s \in Sequence :
                /\ AckedSequence(n, m.epoch, s)
                /\ acks' = acks \cup {[to |-> m.from, epoch |-> m.epoch,
                                       last |-> m.last, acked |-> s]}
       \/ /\ ~ Acceptable(n, m.epoch, m.last, m.events)
          /\ UNCHANGED <<store, acks>>
    /\ UNCHANGED <<cursor, pulls, ranges>>

\* Mutants: the cursor is kept for the current epoch, not the acknowledged one;
\* it names the next event wanted, not the last one held.
AcknowledgeMutant(n, e, s) ==
    cursor' = [cursor EXCEPT ![n][head[n].epoch] = IF s > @ THEN s ELSE @]
AcknowledgeNextMutant(n, e, s) ==
    cursor' = [cursor EXCEPT ![n][e] = IF s > @ THEN s + 1 ELSE @]

\* EventStore.ack: the cursor never moves back.
Acknowledge(n, e, s) ==
    cursor' = [cursor EXCEPT ![n][e] = IF s > @ THEN s ELSE @]

\* push_missing after its await: a position past the last one transmitted
\* is a ConflictError and leaves the cursor alone.
ReceiveAck(r) ==
    /\ r \in acks
    /\ acks' = acks \ {r}
    /\ \/ r.acked <= r.last /\ Acknowledge(r.to, r.epoch, r.acked)
       \/ r.acked > r.last /\ UNCHANGED cursor
    /\ UNCHANGED <<store, pushes, pulls, ranges>>

\* POST /federation/ack (receive_ack): the peer states a position it holds.  An
\* endpoint of the protocol that no client of this program calls.  That the
\* position is held is what an honest peer says; the handler does not check it.
AckEndpoint(n, e, s) ==
    /\ IsLast(events[Peer(n)], e, s)
    /\ Acknowledge(n, e, s)
    /\ UNCHANGED <<store, network>>

-----------------------------------------------------------------------------
(* Catch-up: the participant asks for what follows its head.                *)

SendPull(n) ==
    /\ head[n].epoch > 0
    /\ head[n].coordinator # n
    /\ Quiet
    /\ pulls' = pulls \cup {[from |-> n, epoch |-> head[n].epoch,
                             after |-> head[n].sequence]}
    /\ UNCHANGED <<store, cursor, pushes, acks, ranges>>

\* event_range: an empty range is answered too, and then nothing is ingested.
ServePull(p) ==
    LET batch == EventsAfter(Peer(p.from), p.epoch, p.after) IN
    /\ p \in pulls
    /\ pulls' = pulls \ {p}
    /\ \/ batch = {} /\ UNCHANGED ranges
       \/ \E s \in Sequence :
             /\ IsLast(batch, p.epoch, s)
             /\ ranges' = ranges \cup
                    {[to |-> p.from, kind |-> "catch-up", epoch |-> p.epoch,
                      last |-> s, events |-> batch]}
    /\ UNCHANGED <<store, cursor, pushes, acks>>

\* A catch-up batch goes through receive_events, which checks that the sender
\* coordinated it; a remote action's events go to ingest_many directly.
AcceptsRange(r) ==
    /\ Acceptable(r.to, r.epoch, r.last, r.events)
    /\ r.kind = "catch-up" =>
            \A ev \in r.events : ev.coordinator = Peer(r.to)

ReceiveRange(r) ==
    /\ r \in ranges
    /\ ranges' = ranges \ {r}
    /\ \/ AcceptsRange(r) /\ Ingest(r.to, r.epoch, r.last, r.events)
       \/ ~ AcceptsRange(r) /\ UNCHANGED store
    /\ UNCHANGED <<cursor, pushes, acks, pulls>>

\* A request or a response is lost, or outlives the caller that awaits it.
Lose ==
    /\ \/ \E m \in pushes : pushes' = pushes \ {m} /\ UNCHANGED <<acks, pulls, ranges>>
       \/ \E r \in acks : acks' = acks \ {r} /\ UNCHANGED <<pushes, pulls, ranges>>
       \/ \E p \in pulls : pulls' = pulls \ {p} /\ UNCHANGED <<pushes, acks, ranges>>
       \/ \E r \in ranges : ranges' = ranges \ {r} /\ UNCHANGED <<pushes, acks, pulls>>
    /\ UNCHANGED <<store, cursor>>

-----------------------------------------------------------------------------
Replicate ==
    \/ \E n \in Node : SyncPush(n)
    \/ \E m \in pushes : ReceiveEvents(m)
    \/ \E r \in acks : ReceiveAck(r)
    \/ \E n \in Node : SendPull(n)
    \/ \E p \in pulls : ServePull(p)
    \/ \E r \in ranges : ReceiveRange(r)
    \/ Lose

\* The contents of k events; one function stands for "none" when k is 0.
Contents(k) == [1..k -> Content]

Next ==
    \/ \E k \in 0..2 : \E bodies \in Contents(k) : Create(bodies, k)
    \/ \E n \in Node, k \in 1..MaxBatch :
          \E bodies \in Contents(k) : LocalAction(n, bodies, k)
    \/ \E n \in Node, k \in 1..MaxBatch :
          \E bodies \in Contents(k) : RemoteAction(n, bodies, k)
    \/ \E n \in Node, body \in Content : RecoveryAction(n, body)
    \/ \E n \in Node, k \in 0..MaxBatch :
          \E bodies \in Contents(k) : OpenEpoch(n, bodies, k)
    \/ Replicate
    \/ \E n \in Node, e \in Epoch, s \in Sequence : AckEndpoint(n, e, s)

Spec == Init /\ [][Next]_logVars

-----------------------------------------------------------------------------
(* Properties.                                                              *)

\* The participant that can have opened an epoch: they alternate, since only
\* the one that does not coordinate an epoch may end it.
Owner(e) == IF e % 2 = 1 THEN A ELSE B

\* The two tables agree: the head row of each node names the last event of its
\* last epoch and that event's coordinator, through appends, epoch changes and
\* ingestion by three routes (events.py 342-378, 398-413).
HeadIsLastEvent ==
    \A n \in Node :
        /\ head[n].epoch = 0 => events[n] = {}
        /\ head[n].epoch > 0 =>
              /\ IsLast(events[n], head[n].epoch, head[n].sequence)
              /\ \A ev \in events[n] :
                    /\ ev.epoch <= head[n].epoch
                    /\ ev.epoch = head[n].epoch =>
                          ev.coordinator = head[n].coordinator

\* No holes: a node that holds an event of an epoch holds every earlier event
\* of that epoch, whatever order batches arrived in (events.py 352-378).
NoGaps ==
    \A n \in Node : \A ev \in events[n] : \A s \in 1..(ev.sequence - 1) :
        \E prior \in events[n] : prior.epoch = ev.epoch /\ prior.sequence = s

\* The two nodes never hold different events at one position of one epoch: the
\* fencing of coordinator_epoch gives each epoch one author (events.py 234-310).
LogAgreement ==
    \A m, n \in Node : \A x \in events[m], y \in events[n] :
        (x.epoch = y.epoch /\ x.sequence = y.sequence) => x = y

\* The coordinator of an epoch holds everything its peer holds of that epoch:
\* nothing is learnt before it is committed by its author.
CoordinatorHoldsAll ==
    \A n \in Node : \A ev \in events[n] : ev \in events[ev.coordinator]

\* An acknowledged position is durable at the peer: leases become effective
\* on the strength of this (failover.py 106-111, replication.py 96-103).
AckedIsHeld ==
    \A n \in Node, e \in Epoch :
        cursor[n][e] > 0 =>
            \E ev \in events[Peer(n)] : ev.epoch = e /\ ev.sequence = cursor[n][e]

\* The inductive invariant.  Each epoch has one possible author; what travels
\* is a copy of what its author holds; a position is reused by nobody.
OwnedEpochs ==
    /\ \A n \in Node : head[n].epoch > 0 => head[n].coordinator = Owner(head[n].epoch)
    /\ \A n \in Node : \A ev \in events[n] : ev.coordinator = Owner(ev.epoch)

OwnPositionsUnique ==
    \A n \in Node : \A x, y \in events[n] :
        (x.coordinator = n /\ y.coordinator = n
            /\ x.epoch = y.epoch /\ x.sequence = y.sequence) => x = y

NetworkCopies ==
    /\ \A m \in pushes :
          /\ Owner(m.epoch) = m.from
          /\ m.events \subseteq events[m.from]
          /\ \A ev \in m.events : ev.epoch = m.epoch /\ ev.sequence <= m.last
    /\ \A p \in pulls : Owner(p.epoch) = Peer(p.from)
    /\ \A r \in ranges :
          /\ Owner(r.epoch) = Peer(r.to)
          /\ r.events \subseteq events[Peer(r.to)]
          /\ \A ev \in r.events : ev.epoch = r.epoch /\ ev.sequence <= r.last
    /\ \A r \in acks :
          \E ev \in events[Peer(r.to)] : ev.epoch = r.epoch /\ ev.sequence = r.acked

LogInv ==
    /\ TypeOK
    /\ HeadIsLastEvent
    /\ OwnedEpochs
    /\ OwnPositionsUnique
    /\ CoordinatorHoldsAll
    /\ NetworkCopies
    /\ AckedIsHeld

\* A step never rewrites a log or moves a head back.
HistoryImmutable ==
    [][\A n \in Node :
          /\ events[n] \subseteq events'[n]
          /\ \/ head'[n].epoch > head[n].epoch
             \/ /\ head'[n].epoch = head[n].epoch
                /\ head'[n].sequence >= head[n].sequence
      ]_logVars

\* Once a node is in a later epoch, what it holds of an earlier one is final: a
\* late batch, response or acknowledgement of a stale epoch adds nothing to it
\* (events.py 350-351), which is what fences a deposed coordinator.
EpochSealed ==
    [][\A n \in Node : \A ev \in events'[n] :
          ev.epoch < head[n].epoch => ev \in events[n]]_logVars
=============================================================================
