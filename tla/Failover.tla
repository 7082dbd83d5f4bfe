------------------------------ MODULE Failover ------------------------------
(***************************************************************************)
(* Coordinator leases and two-node failover on top of the event log:       *)
(*   node/failover.py    FailoverManager, LeasedDialogueService            *)
(*   node/app.py         its endpoints and loop, creation, dialogue writes *)
(*   node/supervisor.py  the recovery command                              *)
(* A lease is an event of the log; whether it counts depends on who asks,  *)
(* on its own clock and, for the coordinator, on what its peer has         *)
(* acknowledged.  The clocks of the two nodes drift by at most MaxSkew; a  *)
(* pass of the failover loop works with the time it read at its start, up  *)
(* to MaxStale earlier, since it awaits its peer between conversations.    *)
(* The conversation stays active: what ends it is the dialogue's concern.  *)
(***************************************************************************)
EXTENDS FederatedLog

CONSTANTS
    Opened,         \* the body of the first turn.opened
    Turn,           \* the body of a claim or a reply
    Reopened,       \* the body of the turn.opened a recovery writes
    Durations,      \* lease lengths that callers ask for
    RenewBefore,    \* renew when no more than this is left
    Grace,          \* wait for this long after a lease before taking over
    MaxSkew,        \* bound on the difference of the two clocks
    MaxStale,       \* bound on the age of the time a loop pass works with
    MaxTime         \* bound on the clocks

VARIABLE clock      \* time.time() of each node

Time == 0..MaxTime
Lease == [until: {t + d : t \in Time, d \in Durations}, grant: BOOLEAN]

ASSUME LeaseBounds ==
    /\ Durations \subseteq Nat
    /\ {RenewBefore, Grace, MaxStale, MaxTime} \subseteq Nat
    /\ MaxSkew \in Nat \ {0}
ASSUME LeaseBodies == /\ Lease \subseteq Content
                      /\ {Opened, Turn, Reopened} \subseteq Content \ Lease

failoverVars == <<logVars, clock>>

ClockTypeOK ==
    /\ TypeOK
    /\ clock \in [Node -> Time]

\* Mutant: milliseconds for seconds.
LeaseUntilMutant(t, grant) == [until |-> 1000 * t, grant |-> grant]

LeaseUntil(t, grant) == [until |-> t, grant |-> grant]

-----------------------------------------------------------------------------
(* FailoverManager.status.                                                  *)

\* The lease events of the current epoch; with none there is no failover.
Leases(n) == {ev \in events[n] : ev.epoch = head[n].epoch /\ ev.body \in Lease}
Enabled(n) == Leases(n) # {}

\* Mutant: a coordinator takes the position acknowledged for the next one to
\* acknowledge.
EffectiveNextMutant(n) ==
    IF Coordinates(n)
    THEN {ev \in Leases(n) : \/ ev.body.grant
                             \/ ev.sequence <= cursor[n][head[n].epoch] + 1}
    ELSE Leases(n)

\* Those that count.  A participant trusts what it received, a coordinator what
\* its peer acknowledged, and the lease that a takeover grants itself.
Effective(n) ==
    IF Coordinates(n)
    THEN {ev \in Leases(n) : \/ ev.body.grant
                             \/ ev.sequence <= cursor[n][head[n].epoch]}
    ELSE Leases(n)

Newest(S) == CHOOSE ev \in S : \A other \in S : other.sequence <= ev.sequence
EffectiveUntil(n) == Newest(Effective(n)).body.until

InForce(n, t) == Effective(n) # {} /\ t < EffectiveUntil(n)

\* Mutant: an acknowledged lease is enough, expired or not.
MayWriteMutant(n, t) == Coordinates(n) /\ (Enabled(n) => Effective(n) # {})

\* require_local_write_lease: a conversation without leases is not fenced.
MayWrite(n, t) == Coordinates(n) /\ (Enabled(n) => InForce(n, t))

-----------------------------------------------------------------------------
\* create_federated_conversation: the creation, the first turn and the initial
\* lease are three transactions, of which a crash leaves the first ones.  No
\* lease is asked for, or its length is out of range: two of them.
StartConversation(d, k) ==
    /\ Create(<<Opened, LeaseUntil(clock[A] + d, FALSE)>>, k)
    /\ UNCHANGED clock

\* A claim or reply of the coordinator's own agent, or of its peer's.
DialogueWrite(n, k) ==
    LET bodies == [i \in 1..k |-> Turn] IN
    /\ MayWrite(n, clock[n])
    /\ LocalAction(n, bodies, k) \/ RemoteAction(n, bodies, k)
    /\ UNCHANGED clock

\* The supervisor's command reopens a turn whose claim has expired: it looks at
\* the turn's lease, not at the coordinator's.
Recover(n) ==
    /\ \E ev \in events[n] : ev.body = Turn
    /\ RecoveryAction(n, Reopened)
    /\ UNCHANGED clock

\* renew_lease, on the time of its caller.
Renew(n, t, d) ==
    /\ Enabled(n)
    /\ MayWrite(n, t)
    /\ LocalAction(n, <<LeaseUntil(t + d, FALSE)>>, 1)
    /\ UNCHANGED clock

\* The times a pass of the loop may be working with.
PassTimes(n) == {t \in Time : clock[n] - MaxStale <= t /\ t <= clock[n]}

\* tick at a coordinator that is not fenced; a fenced one does nothing.
TickRenew(n, t, d) ==
    /\ InForce(n, t)
    /\ EffectiveUntil(n) - t <= RenewBefore
    /\ Renew(n, t, d)

\* Mutant: a takeover does not wait for longer than the lease.
TakeOverMutant(n, t, d, k) ==
    /\ Enabled(n)
    /\ ~ Coordinates(n)
    /\ t >= EffectiveUntil(n)
    /\ OpenEpoch(n, <<LeaseUntil(t + d, TRUE)>>, k)
    /\ UNCHANGED clock

\* takeover, from tick or by hand.  A crash after advance_epoch leaves an epoch
\* without a lease.
TakeOver(n, t, d, k) ==
    /\ Enabled(n)
    /\ ~ Coordinates(n)
    /\ t >= EffectiveUntil(n) + Grace
    /\ OpenEpoch(n, <<LeaseUntil(t + d, TRUE)>>, k)
    /\ UNCHANGED clock

\* Time passes at one node.
Advance(n) ==
    /\ clock[n] < MaxTime
    /\ clock[n] + 1 <= clock[Peer(n)] + MaxSkew
    /\ clock' = [clock EXCEPT ![n] = @ + 1]
    /\ UNCHANGED logVars

Exchange == Replicate /\ UNCHANGED clock

-----------------------------------------------------------------------------
FailoverInit == Init /\ clock = [n \in Node |-> 0]

Tick(n) == \E t \in PassTimes(n), d \in Durations :
                TickRenew(n, t, d) \/ TakeOver(n, t, d, 1)

FailoverNext ==
    \/ \E d \in Durations, k \in 0..2 : StartConversation(d, k)
    \/ \E n \in Node, k \in 1..MaxBatch : DialogueWrite(n, k)
    \/ \E n \in Node : Recover(n)
    \/ \E n \in Node, d \in Durations : Renew(n, clock[n], d)
    \/ \E n \in Node : Tick(n)
    \/ \E n \in Node, t \in Time, d \in Durations :
          t \in PassTimes(n) /\ TakeOver(n, t, d, 0)
    \/ \E n \in Node : Advance(n)
    \/ Exchange

FailoverSpec == FailoverInit /\ [][FailoverNext]_failoverVars

\* The clocks, the loops and the network make progress; agents and operators
\* need not act, and any exchange may be lost.
Deliver ==
    \/ \E m \in pushes : ReceiveEvents(m)
    \/ \E r \in acks : ReceiveAck(r)
    \/ \E p \in pulls : ServePull(p)
    \/ \E r \in ranges : ReceiveRange(r)

FairFailoverSpec ==
    /\ FailoverSpec
    /\ \A n \in Node : WF_failoverVars(Advance(n))
    /\ \A n \in Node : WF_failoverVars(Tick(n))
    /\ WF_failoverVars(Deliver /\ UNCHANGED clock)

-----------------------------------------------------------------------------
(* Properties.                                                              *)

\* The two nodes are never both entitled to write: the old coordinator's lease,
\* on its own clock, is over before the participant's clock and loop pass let
\* it take over, although they disagree on the time and on which lease is the
\* newest (failover.py 102-121, 230-231).
ExclusiveWriter == ~ (MayWrite(A, clock[A]) /\ MayWrite(B, clock[B]))

\* A lease in force that was not granted by a takeover is held by the peer, and
\* the newest one the peer holds ends no earlier than what the stale time of a
\* loop pass explains: renewals may cross with their acknowledgements.
LeaseHeldByPeer ==
    \A n \in Node :
        (Coordinates(n) /\ Effective(n) # {}) =>
            LET ev == Newest(Effective(n)) IN
            \/ ev.body.grant
            \/ /\ ev \in events[Peer(n)]
               /\ head[Peer(n)].epoch = head[n].epoch =>
                     EffectiveUntil(n) <= EffectiveUntil(Peer(n)) + MaxStale

\* No write that the lease admits lands in an epoch the peer has already
\* replaced.
NoLateWrite ==
    [][\A n \in Node : \A ev \in events'[n] \ events[n] :
          (ev.coordinator = n /\ ev.body # Reopened) =>
              head[Peer(n)].epoch <= ev.epoch]_failoverVars

\* The histories converge: once both nodes are in a later epoch they hold the
\* same events of the earlier ones (docs/COORDINATOR_FAILOVER.md 59).
SealedEpochsAgree ==
    \A ev \in events[A] \cup events[B] :
        (ev.epoch < head[A].epoch /\ ev.epoch < head[B].epoch) =>
            ev \in events[A] /\ ev \in events[B]

\* A returning coordinator observes the newer epoch and catches up: when the
\* nodes are in different epochs and every lease has run out, they come to be
\* in the same epoch (docs/COORDINATOR_FAILOVER.md 16).
ReturningNodeCatchesUp ==
    (/\ head[A].epoch # head[B].epoch
     /\ \A n \in Node : Enabled(n) /\ ~ InForce(n, clock[n]))
        ~> head[A].epoch = head[B].epoch
=============================================================================
