-------------------------- MODULE Exclusion_proofs --------------------------
(***************************************************************************)
(* Coordinator leases exclude each other.  A takeover waits for the end of *)
(* the newest lease its node holds of the epoch that it replaces.  What    *)
(* the peer can act on is a lease that it granted itself, which is the     *)
(* first of its epoch, or one whose acknowledgement it has, which the node *)
(* held when it took over.  Neither is newer than the lease that was       *)
(* waited for, and a newer lease of one author does not end more than      *)
(* MaxStale before an older one.                                           *)
(***************************************************************************)
EXTENDS Failover_proofs, WellFoundedInduction

\* All callers ask for leases of one length.
OneLength == \A d1, d2 \in Durations : d1 = d2

\* The leases a node holds of an epoch, and those it wrote itself.
LeasesOf(n, e) == {ev \in events[n] : ev.epoch = e /\ ev.body \in Lease}
Authored(n) == {ev \in events[n] : ev.coordinator = n /\ ev.body \in Lease}

\* The parts of the inductive invariant.
Skew == \A n \in Node : clock[n] <= clock[Peer(n)] + MaxSkew

LeaseEnds ==
    \A n \in Node : \A ev \in Authored(n) : \A d \in Durations :
        ev.body.until <= clock[n] + d

LeaseOrder ==
    \A n \in Node : \A x, y \in Authored(n) :
        (x.epoch = y.epoch /\ x.sequence <= y.sequence)
            => x.body.until <= y.body.until + MaxStale

GrantFirst ==
    \A n \in Node : \A x, y \in Authored(n) :
        (x.epoch = y.epoch /\ x.body.grant) => x.sequence <= y.sequence

\* w is the newest lease of a set.
IsNewest(w, S) == w \in S /\ \A other \in S : other.sequence <= w.sequence

TookOver ==
    \A n \in Node :
        (Coordinates(n) /\ head[n].epoch > 1) =>
            \E w : /\ IsNewest(w, LeasesOf(n, head[n].epoch - 1))
                   /\ clock[n] >= w.body.until + Grace

LeaseInv ==
    /\ ClockInv
    /\ Skew
    /\ LeaseEnds
    /\ LeaseOrder
    /\ GrantFirst
    /\ TookOver

-----------------------------------------------------------------------------
(* Leases and the newest of them.                                           *)

LEMMA LeaseTypes ==
    ASSUME NEW body \in Lease
    PROVE  body.until \in Nat /\ body.grant \in BOOLEAN
<1>1. PICK t \in Time, d \in Durations : body.until = t + d
  BY DEF Lease
<1>. QED BY <1>1, LeaseBounds DEF Lease, Time

LEMMA ClockTypes ==
    ASSUME ClockInv
    PROVE  /\ \A n \in Node : clock[n] \in Nat
           /\ \A n \in Node : \A t \in PassTimes(n) :
                 /\ t \in Time /\ t \in Nat
                 /\ t <= clock[n] /\ clock[n] - MaxStale <= t
           /\ MaxSkew \in Nat /\ MaxStale \in Nat /\ Grace \in Nat
           /\ \A d \in Durations : d \in Nat
BY LeaseBounds DEF ClockInv, Time, PassTimes

\* A set of events that is not empty has a newest one.
LEMMA NewestExists ==
    ASSUME NEW S \in SUBSET Event, S # {}
    PROVE  IsNewest(Newest(S), S)
<1>. DEFINE T == {MaxSequence - ev.sequence : ev \in S}
            Less == {pair \in Nat \X Nat : pair[1] < pair[2]}
<1>1. \A ev \in Event : ev.sequence \in Nat /\ ev.sequence <= MaxSequence
  BY Bounds DEF Event, Sequence
<1>2. T \subseteq Nat /\ T # {}
  BY <1>1, Bounds
<1>3. PICK least \in T : \A y \in T : <<y, least>> \notin Less
  <2>. HIDE DEF T, Less
  <2>1. IsWellFoundedOn(Less, Nat)
    BY NatLessThanWellFounded, Zenon DEF Less, OpToRel
  <2>. QED BY <1>2, <2>1, WFMin
<1>4. \A y \in T : ~ (y < least)
  <2>. SUFFICES ASSUME NEW y \in T, y < least PROVE FALSE
    OBVIOUS
  <2>1. <<y, least>> \in Nat \X Nat
    BY <1>2
  <2>2. <<y, least>> \in Less
    BY <2>1
  <2>. QED BY <2>2, <1>3
<1>5. PICK ev \in S : least = MaxSequence - ev.sequence
  OBVIOUS
<1>6. \A other \in S : other.sequence <= ev.sequence
  BY <1>1, <1>4, <1>5, Bounds
<1>. QED BY <1>6 DEF Newest, IsNewest

-----------------------------------------------------------------------------
(* What an invariant of the log says of two heads.                          *)

\* A node's log belongs to its peer's current epoch at least when it is its
\* peer that owns the epoch it is in.
LEMMA FollowsOwner ==
    ASSUME LogInv, NEW n \in Node, head[n].epoch > 0, ~ Coordinates(n)
    PROVE  head[Peer(n)].epoch >= head[n].epoch
<1>1. head[n].coordinator = Peer(n) /\ Peer(n) \in Node
  <2>1. head[n].coordinator \in Node
    BY DEF LogInv, TypeOK, Head
  <2>. QED BY <2>1, PeerFacts DEF Coordinates
<1>2. PICK ev \in events[n] : ev.epoch = head[n].epoch
  BY DEF LogInv, HeadIsLastEvent, IsLast
<1>3. ev \in events[Peer(n)]
  BY <1>1, <1>2 DEF LogInv, HeadIsLastEvent, CoordinatorHoldsAll
<1>4. head[Peer(n)].epoch # 0
  BY <1>1, <1>3 DEF LogInv, HeadIsLastEvent
<1>5. head[Peer(n)].epoch > 0
  BY <1>1, <1>4, Bounds DEF LogInv, TypeOK, Head
<1>. QED BY <1>1, <1>2, <1>3, <1>5 DEF LogInv, HeadIsLastEvent

\* The peer of a node that has taken over is in the epoch before at least.
LEMMA NextAtMost ==
    ASSUME LogInv, TookOver, NEW n \in Node
    PROVE  head[n].epoch <= head[Peer(n)].epoch + 1
<1>1. head[n].epoch \in Nat /\ head[Peer(n)].epoch \in Nat /\ Peer(n) \in Node
  BY PeerFacts, Bounds DEF LogInv, TypeOK, Head
<1>2. CASE head[n].epoch > 0 /\ ~ Coordinates(n)
  BY <1>1, <1>2, FollowsOwner
<1>3. CASE Coordinates(n) /\ head[n].epoch > 1
  <2>1. PICK w \in LeasesOf(n, head[n].epoch - 1) : TRUE
    BY <1>3 DEF TookOver, IsNewest
  <2>2. w \in events[n] /\ w.epoch = head[n].epoch - 1 /\ w \in Event
    BY <2>1 DEF LeasesOf, LogInv, TypeOK
  <2>3. w.coordinator = Peer(n)
    <3>1. head[n].coordinator = n /\ head[n].epoch > 0 /\ Owner(head[n].epoch) = n
      BY <1>3 DEF Coordinates, LogInv, OwnedEpochs
    <3>2. w.epoch \in Nat /\ head[n].epoch = w.epoch + 1
      BY <1>1, <1>3, <2>2
    <3>3. Owner(w.epoch) # n
      <4>1. (w.epoch % 2 = 1) # ((w.epoch + 1) % 2 = 1)
        BY <3>2
      <4>. QED BY <3>1, <3>2, <4>1, Participants DEF Owner
    <3>4. w.coordinator = Owner(w.epoch) /\ w.coordinator \in Node
      BY <2>2 DEF LogInv, OwnedEpochs, Event
    <3>. QED BY <3>3, <3>4, PeerFacts
  <2>4. w \in events[Peer(n)]
    BY <2>2, <2>3 DEF LogInv, CoordinatorHoldsAll
  <2>5. head[Peer(n)].epoch > 0
    BY <2>4, <1>1 DEF LogInv, HeadIsLastEvent
  <2>6. w.epoch <= head[Peer(n)].epoch
    BY <2>4, <2>5, <1>1 DEF LogInv, HeadIsLastEvent
  <2>. QED BY <1>1, <2>2, <2>6
<1>4. CASE head[n].epoch <= 1
  BY <1>1, <1>4
<1>. QED BY <1>1, <1>2, <1>3, <1>4

-----------------------------------------------------------------------------
(* What a step does to the leases that a node wrote itself.                 *)

\* It writes no lease, or one that ends a lease's length after a time that a
\* pass may work with, past those of its epoch, and grants it only as the first.
LeaseStep(n) ==
    \/ Authored(n)' = Authored(n)
    \/ \E ev :
          /\ Authored(n)' = Authored(n) \cup {ev}
          /\ \E t \in PassTimes(n), d \in Durations : ev.body.until = t + d
          /\ \A x \in Authored(n) :
                x.epoch = ev.epoch => x.sequence < ev.sequence /\ ~ ev.body.grant

\* A node comes to coordinate a later epoch by creation or by a takeover.
HeadStep(n) ==
    \/ head'[n].epoch = head[n].epoch
    \/ head'[n].epoch = 1
    \/ ~ Coordinates(n)'
    \/ \E t \in PassTimes(n), d \in Durations, k \in 0..1 : TakeOver(n, t, d, k)

Shape == \A n \in Node : LeaseStep(n) /\ HeadStep(n)

\* Events of the peer leave what a node wrote alone.
LEMMA IngestShape ==
    ASSUME LogInv, NEW n \in Node, NEW e, NEW last, NEW batch,
           Ingest(n, e, last, batch),
           \A ev \in batch : ev.coordinator = Peer(n)
    PROVE  Shape
<1>1. events' = [events EXCEPT ![n] = @ \cup batch]
  BY DEF Ingest
<1>2. events \in [Node -> SUBSET Event] /\ head \in [Node -> Head]
  BY DEF LogInv, TypeOK
<1>3. \A m \in Node : Authored(m)' = Authored(m)
  BY <1>1, <1>2, PeerFacts DEF Authored
<1>4. \A m \in Node : head'[m] = head[m] \/ ~ Coordinates(m)'
  <2>1. CASE UNCHANGED head
    BY <2>1
  <2>2. CASE \E ev \in Fresh(n, batch) :
                 head' = [head EXCEPT ![n] = WrittenHead(ev.coordinator, e, last)]
    <3>1. PICK ev \in batch :
              head' = [head EXCEPT ![n] = WrittenHead(ev.coordinator, e, last)]
      BY <2>2 DEF Fresh
    <3>2. head'[n].coordinator # n
      BY <1>2, <3>1, PeerFacts DEF WrittenHead
    <3>. QED BY <1>2, <3>1, <3>2 DEF Coordinates
  <2>. QED BY <2>1, <2>2 DEF Ingest
<1>. QED BY <1>3, <1>4 DEF Shape, LeaseStep, HeadStep

LEMMA SameStoreShape ==
    ASSUME UNCHANGED store
    PROVE  Shape
BY DEF store, Shape, LeaseStep, HeadStep, Authored

LEMMA ReplicateShape ==
    ASSUME LogInv, Replicate
    PROVE  Shape
<1>1. \A m \in Node : \A ev \in events[m] :
          ev.coordinator = Owner(ev.epoch)
  BY DEF LogInv, OwnedEpochs
<1>2. ASSUME NEW m \in pushes, ReceiveEvents(m)
      PROVE  Shape
  <2>1. m.from \in Node /\ Peer(m.from) \in Node /\ Peer(Peer(m.from)) = m.from
    BY PeerFacts DEF LogInv, TypeOK, Push
  <2>2. \A ev \in m.events : ev.coordinator = m.from
    BY <1>1, <2>1 DEF LogInv, NetworkCopies
  <2>3. CASE Ingest(Peer(m.from), m.epoch, m.last, m.events)
    BY <2>1, <2>2, <2>3, IngestShape
  <2>4. CASE UNCHANGED store
    BY <2>4, SameStoreShape
  <2>. QED BY <1>2, <2>3, <2>4 DEF ReceiveEvents
<1>3. ASSUME NEW r \in ranges, ReceiveRange(r)
      PROVE  Shape
  <2>1. r.to \in Node /\ Peer(r.to) \in Node
    BY PeerFacts DEF LogInv, TypeOK, Range
  <2>2. \A ev \in r.events : ev.coordinator = Peer(r.to)
    BY <1>1, <2>1 DEF LogInv, NetworkCopies
  <2>3. CASE Ingest(r.to, r.epoch, r.last, r.events)
    BY <2>1, <2>2, <2>3, IngestShape
  <2>4. CASE UNCHANGED store
    BY <2>4, SameStoreShape
  <2>. QED BY <1>3, <2>3, <2>4 DEF ReceiveRange
<1>4. ASSUME \/ \E n \in Node : SyncPush(n) \/ SendPull(n)
             \/ \E r \in acks : ReceiveAck(r)
             \/ \E p \in pulls : ServePull(p)
             \/ Lose
      PROVE  Shape
  BY <1>4, SameStoreShape DEF SyncPush, SendPull, ReceiveAck, ServePull, Lose
<1>. QED BY <1>2, <1>3, <1>4 DEF Replicate

\* Appending what is not a lease.
LEMMA AppendShape ==
    ASSUME LogInv, NEW n \in Node, NEW k \in Nat, NEW bodies,
           Append(n, bodies, k),
           \A i \in 1..k : bodies[i] \notin Lease
    PROVE  Shape
<1>1. events \in [Node -> SUBSET Event] /\ head \in [Node -> Head]
  BY DEF LogInv, TypeOK
<1>2. \A ev \in Appended(n, bodies, k) : ev.body \notin Lease
  BY DEF Appended, Signed, NewEvent
<1>3. \A m \in Node : Authored(m)' = Authored(m)
  BY <1>1, <1>2 DEF Append, Authored
<1>4. \A m \in Node : head'[m].epoch = head[m].epoch
  BY <1>1 DEF Append, WrittenHead
<1>. QED BY <1>3, <1>4 DEF Shape, LeaseStep, HeadStep

\* Creation writes one lease, as the third event of an empty log.
LEMMA CreateShape ==
    ASSUME LogInv, ClockInv, NEW d \in Durations, NEW k \in 0..2,
           StartConversation(d, k)
    PROVE  Shape
<1>. DEFINE lease == LeaseUntil(clock[A] + d, FALSE)
            bodies == <<Opened, lease>>
            ev == NewEvent(A, 1, 3, lease, A)
<1>1. events \in [Node -> SUBSET Event] /\ head \in [Node -> Head] /\ A \in Node
  BY DEF LogInv, TypeOK, Node
<1>2. /\ head[A].epoch = 0
      /\ events' = [events EXCEPT ![A] = {NewEvent(A, 1, 1, Created, A)}
                                            \cup Signed(A, 1, 1, bodies, k)]
      /\ head' = [head EXCEPT ![A] = WrittenHead(A, 1, k + 1)]
  BY DEF StartConversation, Create
<1>3. events[A] = {}
  BY <1>1, <1>2 DEF LogInv, HeadIsLastEvent
<1>4. Created \notin Lease /\ Opened \notin Lease
  BY LeaseBodies DEF Content
<1>5. Authored(A)' \subseteq {ev}
  <2>1. ASSUME NEW x \in Authored(A)'
        PROVE  x = ev
    <3>1. x \in events'[A] /\ x.body \in Lease
      BY DEF Authored
    <3>2. x # NewEvent(A, 1, 1, Created, A)
      BY <3>1, <1>4 DEF NewEvent
    <3>3. PICK i \in 1..k : x = NewEvent(A, 1, 1 + i, bodies[i], A)
      BY <1>1, <1>2, <3>1, <3>2 DEF Signed
    <3>4. i = 1 \/ i = 2
      OBVIOUS
    <3>5. i # 1
      BY <3>1, <3>3, <1>4 DEF NewEvent
    <3>6. i = 2 /\ bodies[2] = lease /\ 1 + 2 = 3
      BY <3>4, <3>5
    <3>. HIDE DEF bodies, lease
    <3>. QED BY <3>3, <3>6
  <2>. QED BY <2>1
<1>6. LeaseStep(A)
  <2>1. Authored(A) = {}
    BY <1>3 DEF Authored
  <2>2. CASE Authored(A)' = {}
    BY <2>1, <2>2 DEF LeaseStep
  <2>3. CASE Authored(A)' = {ev}
    <3>1. clock[A] \in PassTimes(A)
      BY <1>1, LeaseBounds DEF PassTimes, ClockInv, Time
    <3>2. ev.body.until = clock[A] + d
      BY DEF NewEvent, LeaseUntil
    <3>3. Authored(A)' = Authored(A) \cup {ev}
      BY <2>1, <2>3
    <3>. HIDE DEF ev
    <3>. QED BY <2>1, <3>1, <3>2, <3>3 DEF LeaseStep
  <2>. QED BY <1>5, <2>2, <2>3
<1>7. \A m \in Node : m # A => Authored(m)' = Authored(m) /\ head'[m] = head[m]
  BY <1>1, <1>2 DEF Authored
<1>8. head'[A].epoch = 1
  BY <1>1, <1>2 DEF WrittenHead
<1>. QED BY <1>6, <1>7, <1>8 DEF Shape, LeaseStep, HeadStep

\* A renewal.
LEMMA RenewShape ==
    ASSUME LogInv, NEW n \in Node, NEW t \in PassTimes(n), NEW d \in Durations,
           Renew(n, t, d)
    PROVE  Shape
<1>. DEFINE lease == LeaseUntil(t + d, FALSE)
            bodies == <<lease>>
            ev == NewEvent(n, head[n].epoch, head[n].sequence + 1, lease, n)
<1>1. events \in [Node -> SUBSET Event] /\ head \in [Node -> Head]
  BY DEF LogInv, TypeOK
<1>2. Append(n, bodies, 1) /\ Coordinates(n)
  BY DEF Renew, LocalAction, Append
<1>3. Appended(n, bodies, 1) = {ev}
  <2>1. bodies[1] = lease /\ 1..1 = {1}
    OBVIOUS
  <2>. HIDE DEF bodies, lease
  <2>. QED BY <2>1 DEF Appended, Signed
<1>4. events'[n] = events[n] \cup {ev}
  BY <1>1, <1>2, <1>3 DEF Append
<1>5. ev.coordinator = n /\ ev.body.until = t + d /\ ~ ev.body.grant
  BY DEF NewEvent, LeaseUntil
<1>6. \A x \in Authored(n) : x.epoch = ev.epoch => x.sequence < ev.sequence
  <2>1. \A x \in events[n] : x.epoch = head[n].epoch => x.sequence <= head[n].sequence
    BY <1>2 DEF LogInv, HeadIsLastEvent, IsLast, Coordinates
  <2>2. ev.epoch = head[n].epoch /\ ev.sequence = head[n].sequence + 1
    BY DEF NewEvent
  <2>3. \A x \in events[n] : x.sequence \in Int
    BY <1>1 DEF Event, Sequence
  <2>4. head[n].sequence \in Int
    BY <1>1 DEF Head
  <2>. HIDE DEF ev
  <2>. QED BY <2>1, <2>2, <2>3, <2>4 DEF Authored
<1>7. LeaseStep(n)
  <2>1. Authored(n)' = Authored(n) \/ Authored(n)' = Authored(n) \cup {ev}
    <3>. HIDE DEF ev
    <3>. QED BY <1>4, <1>5 DEF Authored
  <2>. HIDE DEF ev
  <2>. QED BY <1>5, <1>6, <2>1 DEF LeaseStep
<1>8. \A m \in Node : m # n => Authored(m)' = Authored(m)
  BY <1>1, <1>2 DEF Append, Authored
<1>9. \A m \in Node : head'[m].epoch = head[m].epoch
  BY <1>1, <1>2 DEF Append, WrittenHead
<1>. QED BY <1>7, <1>8, <1>9 DEF Shape, LeaseStep, HeadStep

\* A takeover, its lease the second event of the epoch that it opens.
LEMMA TakeOverShape ==
    ASSUME LogInv, NEW n \in Node, NEW t \in PassTimes(n), NEW d \in Durations,
           NEW k \in 0..1, TakeOver(n, t, d, k)
    PROVE  Shape
<1>. DEFINE e == head[n].epoch + 1
            lease == LeaseUntil(t + d, TRUE)
            bodies == <<lease>>
            first == NewEvent(n, e, 1, Changed, head[n].coordinator)
            ev == NewEvent(n, e, 2, lease, n)
<1>1. events \in [Node -> SUBSET Event] /\ head \in [Node -> Head]
  BY DEF LogInv, TypeOK
<1>2. /\ events' = [events EXCEPT ![n] = @ \cup {first} \cup Signed(n, e, 1, bodies, k)]
      /\ head' = [head EXCEPT ![n] = WrittenHead(n, e, k + 1)]
      /\ head[n].epoch > 0
  BY DEF TakeOver, OpenEpoch
<1>3. Signed(n, e, 1, bodies, k) \subseteq {ev}
  <2>1. bodies[1] = lease /\ \A i \in 1..k : i = 1
    OBVIOUS
  <2>. HIDE DEF bodies, lease, e
  <2>. QED BY <2>1 DEF Signed
<1>4. \A x \in events[n] : x.epoch # ev.epoch
  <2>1. \A x \in events[n] : x.epoch <= head[n].epoch /\ x.epoch \in Int
    BY <1>1, <1>2 DEF LogInv, HeadIsLastEvent, Event, Epoch
  <2>2. ev.epoch = head[n].epoch + 1 /\ head[n].epoch \in Int
    BY <1>1 DEF NewEvent, Head
  <2>. HIDE DEF ev
  <2>. QED BY <2>1, <2>2
<1>5. first.body \notin Lease
  BY LeaseBodies DEF NewEvent, Content
<1>6. ev.body.until = t + d
  BY DEF NewEvent, LeaseUntil
<1>7. LeaseStep(n)
  <2>. HIDE DEF ev, first, bodies, e
  <2>1. Authored(n)' = Authored(n) \/ Authored(n)' = Authored(n) \cup {ev}
    BY <1>1, <1>2, <1>3, <1>5 DEF Authored
  <2>2. \A x \in Authored(n) : x.epoch # ev.epoch
    BY <1>4 DEF Authored
  <2>. QED BY <1>6, <2>1, <2>2 DEF LeaseStep
<1>8. \A m \in Node : m # n => Authored(m)' = Authored(m) /\ head'[m] = head[m]
  BY <1>1, <1>2 DEF Authored
<1>9. HeadStep(n)
  BY DEF HeadStep
<1>. QED BY <1>7, <1>8, <1>9 DEF Shape, LeaseStep, HeadStep

LEMMA StepShape ==
    ASSUME LogInv, ClockInv, [FailoverNext]_failoverVars
    PROVE  Shape
<1>0. \A n \in Node : clock[n] \in PassTimes(n)
  BY LeaseBounds DEF PassTimes, ClockInv, Time
<1>1. ASSUME NEW d \in Durations, NEW k \in 0..2, StartConversation(d, k)
      PROVE  Shape
  BY <1>1, CreateShape
<1>2. ASSUME NEW n \in Node, NEW k \in 1..MaxBatch, DialogueWrite(n, k)
      PROVE  Shape
  <2>. DEFINE bodies == [i \in 1..k |-> Turn]
  <2>1. Append(n, bodies, k)
    BY <1>2 DEF DialogueWrite, LocalAction, RemoteAction
  <2>2. \A i \in 1..k : bodies[i] \notin Lease
    BY LeaseBodies
  <2>3. k \in Nat
    OBVIOUS
  <2>. HIDE DEF bodies
  <2>. QED BY <2>1, <2>2, <2>3, AppendShape
<1>3. ASSUME NEW n \in Node, Recover(n)
      PROVE  Shape
  <2>. DEFINE bodies == [i \in 1..1 |-> Reopened]
  <2>1. Append(n, bodies, 1)
    BY <1>3 DEF Recover, RecoveryAction
  <2>2. \A i \in 1..1 : bodies[i] \notin Lease
    BY LeaseBodies
  <2>. HIDE DEF bodies
  <2>. QED BY <2>1, <2>2, AppendShape
<1>4. ASSUME NEW n \in Node, NEW d \in Durations, Renew(n, clock[n], d)
      PROVE  Shape
  BY <1>0, <1>4, RenewShape
<1>5. ASSUME NEW n \in Node, Tick(n)
      PROVE  Shape
  <2>1. PICK t \in PassTimes(n), d \in Durations :
            TickRenew(n, t, d) \/ TakeOver(n, t, d, 1)
    BY <1>5 DEF Tick
  <2>2. TickRenew(n, t, d) => Shape
    BY RenewShape DEF TickRenew
  <2>3. TakeOver(n, t, d, 1) => Shape
    BY TakeOverShape
  <2>. QED BY <2>1, <2>2, <2>3
<1>6. ASSUME NEW n \in Node, NEW t \in PassTimes(n), NEW d \in Durations,
             TakeOver(n, t, d, 0)
      PROVE  Shape
  BY <1>6, TakeOverShape
<1>7. CASE UNCHANGED logVars
  BY <1>7, SameStoreShape DEF logVars, store
<1>8. CASE Exchange
  BY <1>8, ReplicateShape DEF Exchange
<1>. QED
  BY <1>1, <1>2, <1>3, <1>4, <1>5, <1>6, <1>7, <1>8
     DEF FailoverNext, Advance, failoverVars, logVars

-----------------------------------------------------------------------------
(* The invariant is kept.                                                   *)

\* A clock goes forward, and never further ahead of the other.
LEMMA ClockStep ==
    ASSUME ClockInv, Skew, [FailoverNext]_failoverVars
    PROVE  /\ Skew'
           /\ \A n \in Node : clock'[n] >= clock[n]
           /\ UNCHANGED events \/ UNCHANGED clock
<1>1. ASSUME NEW n \in Node, Advance(n)
      PROVE  Skew' /\ (\A m \in Node : clock'[m] >= clock[m]) /\ UNCHANGED events
  <2>1. /\ clock'[n] = clock[n] + 1
        /\ \A m \in Node : m # n => clock'[m] = clock[m]
        /\ clock[n] + 1 <= clock[Peer(n)] + MaxSkew
    BY <1>1 DEF Advance, ClockInv
  <2>2. Skew'
    <3>1. clock'[n] <= clock'[Peer(n)] + MaxSkew
      BY <2>1, PeerFacts
    <3>2. clock'[Peer(n)] <= clock'[n] + MaxSkew
      BY <2>1, PeerFacts, ClockTypes DEF Skew
    <3>. QED BY <3>1, <3>2, PeerFacts DEF Skew
  <2>3. \A m \in Node : clock'[m] >= clock[m]
    BY <2>1, ClockTypes
  <2>. QED BY <1>1, <2>2, <2>3 DEF Advance, logVars
<1>2. CASE UNCHANGED clock
  BY <1>2, ClockTypes DEF Skew
<1>. QED
  BY <1>1, <1>2 DEF FailoverNext, failoverVars, StartConversation, DialogueWrite,
     Recover, Renew, Tick, TickRenew, TakeOver, Exchange

\* The leases written so far, by type.
LEMMA AuthoredTypes ==
    ASSUME LogInv, NEW n \in Node, NEW ev \in Authored(n)
    PROVE  /\ ev.sequence \in Nat /\ ev.epoch \in Nat
           /\ ev.body.until \in Nat /\ ev.body.grant \in BOOLEAN
<1>1. ev \in Event /\ ev.body \in Lease
  BY DEF LogInv, TypeOK, Authored
<1>. QED BY <1>1, LeaseTypes DEF Event, Sequence, Epoch

\* The leases that a node writes, in the order it writes them.
LEMMA WrittenLeases ==
    ASSUME LogInv, LogInv', ClockInv, OneLength, LeaseEnds, LeaseOrder, GrantFirst,
           Shape, NEW n \in Node, UNCHANGED clock
    PROVE  /\ \A ev \in Authored(n)' : \A d \in Durations : ev.body.until <= clock[n] + d
           /\ \A x, y \in Authored(n)' :
                 (x.epoch = y.epoch /\ x.sequence <= y.sequence)
                     => x.body.until <= y.body.until + MaxStale
           /\ \A x, y \in Authored(n)' :
                 (x.epoch = y.epoch /\ x.body.grant) => x.sequence <= y.sequence
<1>1. CASE Authored(n)' = Authored(n)
  BY <1>1 DEF LeaseEnds, LeaseOrder, GrantFirst
<1>2. ASSUME NEW ev, NEW t \in PassTimes(n), NEW length \in Durations,
             Authored(n)' = Authored(n) \cup {ev},
             ev.body.until = t + length,
             \A x \in Authored(n) :
                 x.epoch = ev.epoch => x.sequence < ev.sequence /\ ~ ev.body.grant
      PROVE  /\ \A x \in Authored(n)' : \A d \in Durations : x.body.until <= clock[n] + d
             /\ \A x, y \in Authored(n)' :
                   (x.epoch = y.epoch /\ x.sequence <= y.sequence)
                       => x.body.until <= y.body.until + MaxStale
             /\ \A x, y \in Authored(n)' :
                   (x.epoch = y.epoch /\ x.body.grant) => x.sequence <= y.sequence
  <2>1. /\ clock[n] \in Nat /\ t \in Nat /\ length \in Nat /\ MaxStale \in Nat
        /\ t <= clock[n] /\ clock[n] <= t + MaxStale
    BY ClockTypes
  <2>2. ev.sequence \in Nat
    <3>1. ev \in Authored(n)'
      BY <1>2
    <3>2. ev \in Event
      BY <3>1 DEF LogInv, TypeOK, Authored
    <3>. QED BY <3>2 DEF Event, Sequence
  <2>3. \A x \in Authored(n) : x.body.until <= clock[n] + length /\ x.body.until \in Nat
                                /\ x.sequence \in Nat
    BY AuthoredTypes DEF LeaseEnds
  <2>4. \A d \in Durations : d = length
    BY DEF OneLength
  <2>5. \A x \in Authored(n) : x.body.until <= ev.body.until + MaxStale
    BY <1>2, <2>1, <2>3
  <2>6. ev.body.until <= clock[n] + length /\ ev.body.until \in Nat
    BY <1>2, <2>1
  <2>7. \A x \in Authored(n)' : \A d \in Durations : x.body.until <= clock[n] + d
    BY <1>2, <2>3, <2>4, <2>6
  <2>8. ASSUME NEW x \in Authored(n)', NEW y \in Authored(n)',
               x.epoch = y.epoch, x.sequence <= y.sequence
        PROVE  x.body.until <= y.body.until + MaxStale
    <3>1. CASE x \in Authored(n) /\ y \in Authored(n)
      BY <2>8, <3>1 DEF LeaseOrder
    <3>2. CASE x \in Authored(n) /\ y = ev
      BY <2>5, <3>2
    <3>3. CASE x = ev /\ y \in Authored(n)
      <4>1. y.sequence < ev.sequence
        BY <1>2, <2>8, <3>3
      <4>. QED BY <2>2, <2>3, <2>8, <3>3, <4>1
    <3>4. CASE x = ev /\ y = ev
      BY <2>1, <2>6, <3>4
    <3>. QED BY <1>2, <3>1, <3>2, <3>3, <3>4
  <2>9. ASSUME NEW x \in Authored(n)', NEW y \in Authored(n)',
               x.epoch = y.epoch, x.body.grant
        PROVE  x.sequence <= y.sequence
    <3>1. CASE x \in Authored(n) /\ y \in Authored(n)
      BY <2>9, <3>1 DEF GrantFirst
    <3>2. CASE x \in Authored(n) /\ y = ev
      <4>1. x.sequence < ev.sequence
        BY <1>2, <2>9, <3>2
      <4>. QED BY <2>2, <2>3, <3>2, <4>1
    <3>3. CASE x = ev /\ y \in Authored(n)
      BY <1>2, <2>9, <3>3
    <3>4. CASE x = ev /\ y = ev
      BY <2>2, <3>4
    <3>. QED BY <1>2, <3>1, <3>2, <3>3, <3>4
  <2>. QED BY <2>7, <2>8, <2>9
<1>. QED BY <1>1, <1>2 DEF Shape, LeaseStep

LEMMA LeasesKept ==
    ASSUME LogInv, LogInv', OneLength, LeaseInv, [FailoverNext]_failoverVars
    PROVE  LeaseEnds' /\ LeaseOrder' /\ GrantFirst'
<1>1. ClockInv /\ Skew /\ LeaseEnds /\ LeaseOrder /\ GrantFirst
  BY DEF LeaseInv
<1>2. CASE UNCHANGED clock
  <2>1. Shape
    BY <1>1, StepShape
  <2>2. \A n \in Node :
           /\ \A ev \in Authored(n)' : \A d \in Durations : ev.body.until <= clock[n] + d
           /\ \A x, y \in Authored(n)' :
                 (x.epoch = y.epoch /\ x.sequence <= y.sequence)
                     => x.body.until <= y.body.until + MaxStale
           /\ \A x, y \in Authored(n)' :
                 (x.epoch = y.epoch /\ x.body.grant) => x.sequence <= y.sequence
    BY <1>1, <1>2, <2>1, WrittenLeases
  <2>. QED BY <1>2, <2>2 DEF LeaseEnds, LeaseOrder, GrantFirst
<1>3. CASE UNCHANGED events
  <2>1. \A n \in Node : Authored(n)' = Authored(n)
    BY <1>3 DEF Authored
  <2>2. LeaseOrder' /\ GrantFirst'
    BY <1>1, <2>1 DEF LeaseOrder, GrantFirst
  <2>3. LeaseEnds'
    <3>1. ASSUME NEW n \in Node, NEW ev \in Authored(n), NEW d \in Durations
          PROVE  ev.body.until <= clock'[n] + d
      <4>1. clock'[n] >= clock[n] /\ clock'[n] \in Nat
        BY <1>1, ClockStep, StepKeepsClock, LeaseBounds DEF ClockInv, Time
      <4>2. ev.body.until <= clock[n] + d /\ ev.body.until \in Nat
        BY <1>1, AuthoredTypes DEF LeaseEnds
      <4>. QED BY <1>1, <4>1, <4>2, ClockTypes
    <3>. QED BY <2>1, <3>1 DEF LeaseEnds
  <2>. QED BY <2>2, <2>3
<1>. QED BY <1>1, <1>2, <1>3, ClockStep

\* What a node waited for when it took over stays the newest lease it holds of
\* the epoch it replaced.
LEMMA TookOverKept ==
    ASSUME LogInv, LogInv', LeaseInv, Advances, [FailoverNext]_failoverVars
    PROVE  TookOver'
<1>. SUFFICES ASSUME NEW n \in Node, Coordinates(n)', head'[n].epoch > 1
              PROVE  \E w : /\ IsNewest(w, LeasesOf(n, head[n].epoch - 1)')
                            /\ clock'[n] >= w.body.until + Grace
  <2>1. \A n \in Node : \A w :
            IsNewest(w, LeasesOf(n, head[n].epoch - 1))'
                <=> IsNewest(w, LeasesOf(n, head[n].epoch - 1)')
    BY DEF IsNewest
  <2>. QED BY DEF TookOver, IsNewest
<1>1. ClockInv /\ Skew /\ TookOver
  BY DEF LeaseInv
<1>2. /\ head[n].epoch \in Nat /\ head'[n].epoch \in Nat
      /\ clock[n] \in Nat /\ clock'[n] \in Nat /\ clock'[n] >= clock[n]
  BY <1>1, ClockStep, StepKeepsClock, LeaseBounds, Bounds
     DEF LogInv, TypeOK, Head, ClockInv, Time
<1>3. ASSUME NEW e \in Nat, e < head[n].epoch
      PROVE  LeasesOf(n, e)' = LeasesOf(n, e)
  <2>1. \A ev \in events'[n] : ev.epoch = e => ev \in events[n]
    BY <1>3 DEF Advances
  <2>2. events[n] \subseteq events'[n]
    BY DEF Advances, Grows
  <2>. QED BY <2>1, <2>2 DEF LeasesOf
<1>4. CASE head'[n].epoch = head[n].epoch
  <2>1. Coordinates(n)
    BY <1>4 DEF Coordinates, LogInv, OwnedEpochs
  <2>2. PICK w : /\ IsNewest(w, LeasesOf(n, head[n].epoch - 1))
                 /\ clock[n] >= w.body.until + Grace
    BY <1>1, <1>4, <2>1 DEF TookOver
  <2>3. LeasesOf(n, head[n].epoch - 1)' = LeasesOf(n, head[n].epoch - 1)
    <3>1. head[n].epoch - 1 \in Nat /\ head[n].epoch - 1 < head[n].epoch
      BY <1>2, <1>4
    <3>2. LeasesOf(n, head[n].epoch - 1)'
             = {ev \in events'[n] : ev.epoch = head[n].epoch - 1 /\ ev.body \in Lease}
      BY <1>4 DEF LeasesOf
    <3>. QED BY <1>3, <3>1, <3>2 DEF LeasesOf
  <2>4. w.body.until \in Nat
    BY <2>2, LeaseTypes DEF IsNewest, LeasesOf
  <2>. QED BY <1>2, <2>2, <2>3, <2>4, LeaseBounds
<1>5. ASSUME NEW t \in PassTimes(n), NEW d \in Durations, NEW k \in 0..1,
             TakeOver(n, t, d, k)
      PROVE  \E w : /\ IsNewest(w, LeasesOf(n, head[n].epoch - 1)')
                    /\ clock'[n] >= w.body.until + Grace
  <2>. DEFINE w == Newest(Effective(n))
  <2>1. /\ ~ Coordinates(n) /\ Leases(n) # {} /\ head[n].epoch > 0
        /\ t >= w.body.until + Grace
        /\ UNCHANGED clock
    BY <1>5 DEF TakeOver, OpenEpoch, Enabled, EffectiveUntil
  <2>2. Effective(n) = LeasesOf(n, head[n].epoch) /\ LeasesOf(n, head[n].epoch) # {}
    BY <2>1 DEF Effective, Leases, LeasesOf
  <2>3. LeasesOf(n, head[n].epoch) \in SUBSET Event
    BY DEF LeasesOf, LogInv, TypeOK
  <2>4. IsNewest(w, LeasesOf(n, head[n].epoch))
    BY <2>2, <2>3, NewestExists
  <2>5. w.body.until \in Nat
    BY <2>4, LeaseTypes DEF IsNewest, LeasesOf
  <2>6. clock'[n] >= w.body.until + Grace
    <3>. HIDE DEF w
    <3>. QED BY <1>1, <2>1, <2>5, ClockTypes
  <2>7. head'[n].epoch = head[n].epoch + 1
    BY <1>5 DEF TakeOver, OpenEpoch, WrittenHead, LogInv, TypeOK
  <2>8. LeasesOf(n, head[n].epoch - 1)' = LeasesOf(n, head[n].epoch)
    <3>1. events'[n] = events[n]
             \cup {NewEvent(n, head[n].epoch + 1, 1, Changed, head[n].coordinator)}
             \cup Signed(n, head[n].epoch + 1, 1, <<LeaseUntil(t + d, TRUE)>>, k)
      BY <1>5 DEF TakeOver, OpenEpoch, LogInv, TypeOK
    <3>2. \A ev \in events'[n] : ev.epoch = head[n].epoch => ev \in events[n]
      BY <1>2, <3>1 DEF NewEvent, Signed
    <3>3. LeasesOf(n, head[n].epoch - 1)'
             = {ev \in events'[n] : ev.epoch = head[n].epoch /\ ev.body \in Lease}
      BY <1>2, <2>7 DEF LeasesOf
    <3>. QED BY <3>1, <3>2, <3>3 DEF LeasesOf
  <2>. HIDE DEF w
  <2>. QED BY <2>4, <2>6, <2>8
<1>6. HeadStep(n)
  BY <1>1, StepShape DEF Shape
<1>. QED BY <1>2, <1>4, <1>5, <1>6 DEF HeadStep

LEMMA NextLeaseInv ==
    ASSUME LogInv, OneLength, LeaseInv, [FailoverNext]_failoverVars
    PROVE  LeaseInv'
<1>1. ClockInv /\ Skew
  BY DEF LeaseInv
<1>2. LogInv' /\ Advances
  BY <1>1, StepIsLogStep, NextLogInv
<1>3. ClockInv' /\ Skew'
  BY <1>1, StepKeepsClock, ClockStep
<1>4. LeaseEnds' /\ LeaseOrder' /\ GrantFirst'
  BY <1>2, LeasesKept
<1>5. TookOver'
  BY <1>2, TookOverKept
<1>. QED BY <1>3, <1>4, <1>5 DEF LeaseInv

LEMMA InitLeaseInv ==
    ASSUME FailoverInit
    PROVE  LeaseInv
<1>1. ClockInv /\ \A n \in Node : clock[n] = 0 /\ events[n] = {} /\ head[n].epoch = 0
  BY LeaseBounds DEF FailoverInit, Init, NoHead, ClockInv, Time
<1>2. Skew
  BY <1>1, PeerFacts, LeaseBounds DEF Skew
<1>. QED
  BY <1>1, <1>2 DEF LeaseInv, LeaseEnds, LeaseOrder, GrantFirst, TookOver,
     Authored, Coordinates

-----------------------------------------------------------------------------
(* What the invariant says.                                                 *)

\* Up to the position that was acknowledged the peer holds what a node wrote.
LEMMA AckedPrefix ==
    ASSUME LogInv, NoGaps, NEW n \in Node, NEW x \in events[n],
           x.coordinator = n, x.sequence <= cursor[n][x.epoch]
    PROVE  x \in events[Peer(n)]
<1>1. x \in Event /\ x.epoch \in Epoch /\ x.sequence \in Nat \ {0}
  BY Bounds DEF LogInv, TypeOK, Event, Epoch, Sequence
<1>2. cursor[n][x.epoch] \in Nat /\ Peer(n) \in Node
  BY <1>1, Bounds, PeerFacts DEF LogInv, TypeOK
<1>3. PICK last \in events[Peer(n)] :
          last.epoch = x.epoch /\ last.sequence = cursor[n][x.epoch]
  BY <1>1, <1>2 DEF LogInv, AckedIsHeld
<1>4. PICK ev \in events[Peer(n)] : ev.epoch = x.epoch /\ ev.sequence = x.sequence
  <2>1. CASE x.sequence = last.sequence
    BY <1>3, <2>1
  <2>2. CASE x.sequence \in 1..(last.sequence - 1)
    BY <1>2, <1>3, <2>2 DEF NoGaps
  <2>. QED BY <1>1, <1>2, <1>3, <2>1, <2>2
<1>5. ev.coordinator = n
  BY <1>1, <1>2, <1>4 DEF LogInv, OwnedEpochs
<1>6. ev \in events[n]
  BY <1>2, <1>4, <1>5 DEF LogInv, CoordinatorHoldsAll
<1>. QED BY <1>4, <1>5, <1>6 DEF LogInv, OwnPositionsUnique

\* The lease that a coordinator acts on is its own, and it granted it with the
\* epoch or its peer holds it.
LEMMA EffectiveIsHeld ==
    ASSUME LogInv, NoGaps, NEW n \in Node, Coordinates(n), Effective(n) # {},
           NEW x, x = Newest(Effective(n))
    PROVE  /\ IsNewest(x, Effective(n))
           /\ x \in Authored(n) /\ x \in LeasesOf(n, head[n].epoch)
           /\ ~ x.body.grant => x \in events[Peer(n)]
<1>1. Effective(n) \in SUBSET Event
  BY DEF Effective, Leases, LogInv, TypeOK
<1>2. IsNewest(x, Effective(n))
  BY <1>1, NewestExists
<1>3. x \in events[n] /\ x \in Event /\ x.epoch = head[n].epoch /\ x.body \in Lease
  BY <1>1, <1>2 DEF IsNewest, Effective, Leases
<1>4. x.coordinator = n
  BY <1>3 DEF LogInv, HeadIsLastEvent, Coordinates
<1>5. ~ x.body.grant => x.sequence <= cursor[n][x.epoch]
  BY <1>2, <1>3 DEF IsNewest, Effective
<1>6. ~ x.body.grant => x \in events[Peer(n)]
  BY <1>3, <1>4, <1>5, AckedPrefix
<1>. QED BY <1>2, <1>3, <1>4, <1>6 DEF Authored, LeasesOf

\* A lease that its coordinator acts on is no newer than any lease of the epoch
\* that a peer holds as the newest one.
LEMMA NoNewerThanHeld ==
    ASSUME LogInv, NoGaps, LeaseInv, NEW n \in Node, Coordinates(n),
           Effective(n) # {}, NEW x, x = Newest(Effective(n)),
           NEW w, IsNewest(w, LeasesOf(Peer(n), head[n].epoch))
    PROVE  x.body.until <= w.body.until + MaxStale
<1>1. /\ x \in Authored(n) /\ x \in LeasesOf(n, head[n].epoch)
      /\ ~ x.body.grant => x \in events[Peer(n)]
  BY EffectiveIsHeld
<1>2. w \in events[Peer(n)] /\ w.epoch = head[n].epoch /\ w.body \in Lease
  BY DEF IsNewest, LeasesOf
<1>3. w \in Authored(n)
  <2>1. Owner(head[n].epoch) = n
    BY DEF Coordinates, LogInv, OwnedEpochs
  <2>2. w.coordinator = n
    BY <1>2, <2>1, PeerFacts DEF LogInv, OwnedEpochs
  <2>3. w \in events[n]
    BY <1>2, <2>2, PeerFacts DEF LogInv, CoordinatorHoldsAll
  <2>. QED BY <1>2, <2>2, <2>3 DEF Authored
<1>4. x.sequence <= w.sequence
  <2>1. CASE x.body.grant
    BY <1>1, <1>2, <1>3, <2>1 DEF LeaseInv, GrantFirst, LeasesOf
  <2>2. CASE ~ x.body.grant
    <3>1. x \in LeasesOf(Peer(n), head[n].epoch)
      BY <1>1, <2>2 DEF LeasesOf
    <3>. QED BY <3>1 DEF IsNewest
  <2>. QED BY <2>1, <2>2
<1>5. x.epoch = w.epoch
  BY <1>1, <1>2 DEF LeasesOf
<1>. QED BY <1>1, <1>3, <1>4, <1>5 DEF LeaseInv, LeaseOrder

\* A node whose peer is in a later epoch may not write on a time that is no more
\* than "late" behind its clock.
LEMMA Fenced ==
    ASSUME LogInv, NoGaps, LeaseInv, NEW n \in Node,
           NEW late \in Nat, Grace >= MaxSkew + MaxStale + late,
           NEW t \in Nat, t + late >= clock[n],
           head[Peer(n)].epoch > head[n].epoch
    PROVE  ~ MayWrite(n, t)
<1>. SUFFICES ASSUME MayWrite(n, t) PROVE FALSE
  OBVIOUS
<1>. DEFINE p == Peer(n)
            x == Newest(Effective(n))
<1>1. Coordinates(n) /\ p \in Node /\ Peer(p) = n
  BY PeerFacts DEF MayWrite
<1>2. head[n].epoch \in Nat /\ head[p].epoch \in Nat /\ head[n].epoch > 0
  BY <1>1, Bounds DEF LogInv, TypeOK, Head, Coordinates
<1>3. head[p].epoch = head[n].epoch + 1
  <2>1. head[p].epoch <= head[n].epoch + 1
    BY <1>1, NextAtMost DEF LeaseInv
  <2>. QED BY <1>2, <2>1
<1>4. Coordinates(p)
  BY <1>1, <1>2, <1>3, FollowsOwner
<1>5. PICK w : /\ IsNewest(w, LeasesOf(p, head[n].epoch))
               /\ clock[p] >= w.body.until + Grace
  <2>1. head[p].epoch - 1 = head[n].epoch /\ head[p].epoch > 1
    BY <1>2, <1>3
  <2>. QED BY <1>1, <1>4, <2>1 DEF LeaseInv, TookOver
<1>6. Enabled(n)
  <2>1. w \in events[p] /\ w.epoch = head[n].epoch /\ w.body \in Lease
    BY <1>5 DEF IsNewest, LeasesOf
  <2>2. w.coordinator = n
    BY <1>1, <2>1 DEF LogInv, OwnedEpochs, Coordinates
  <2>3. w \in events[n]
    BY <1>1, <2>1, <2>2 DEF LogInv, CoordinatorHoldsAll
  <2>. QED BY <2>1, <2>3 DEF Enabled, Leases
<1>7. Effective(n) # {} /\ t < x.body.until
  BY <1>6 DEF MayWrite, InForce, EffectiveUntil
<1>8. x.body.until <= w.body.until + MaxStale
  BY <1>1, <1>5, <1>7, NoNewerThanHeld
<1>9. w.body.until \in Nat /\ x.body.until \in Nat
  <2>1. w.body \in Lease
    BY <1>5 DEF IsNewest, LeasesOf
  <2>2. x.body \in Lease
    BY <1>1, <1>7, EffectiveIsHeld DEF Authored
  <2>. QED BY <2>1, <2>2, LeaseTypes
<1>10. /\ clock[n] \in Nat /\ clock[p] \in Nat /\ clock[p] <= clock[n] + MaxSkew
       /\ MaxSkew \in Nat /\ MaxStale \in Nat /\ Grace \in Nat
  BY <1>1, ClockTypes DEF LeaseInv, Skew
<1>. HIDE DEF x, p
<1>. QED BY <1>5, <1>7, <1>8, <1>9, <1>10

\* What a step lets a node write in its own name: under a lease, or as the first
\* of an epoch.
WritesEntitled(n) ==
    \A ev \in events'[n] \ events[n] :
        (ev.coordinator = n /\ ev.body # Reopened) =>
            \/ ev.epoch = head[n].epoch + 1
            \/ ev.epoch = head[n].epoch /\ \E t \in PassTimes(n) : MayWrite(n, t)

LEMMA AppendWrites ==
    ASSUME LogInv, NEW n \in Node, NEW bodies, NEW k, Append(n, bodies, k)
    PROVE  /\ \A ev \in events'[n] \ events[n] :
                 /\ ev.epoch = head[n].epoch
                 /\ \E i \in 1..k : ev.body = bodies[i]
           /\ \A m \in Node : m # n => events'[m] = events[m]
<1>1. events \in [Node -> SUBSET Event]
  BY DEF LogInv, TypeOK
<1>2. \A ev \in Appended(n, bodies, k) :
          ev.epoch = head[n].epoch /\ \E i \in 1..k : ev.body = bodies[i]
  BY DEF Appended, Signed, NewEvent
<1>. QED BY <1>1, <1>2 DEF Append

LEMMA OpeningWrites ==
    ASSUME LogInv, NEW n \in Node, NEW t, NEW d, NEW k, TakeOver(n, t, d, k)
    PROVE  \A m \in Node : WritesEntitled(m)
<1>1. events \in [Node -> SUBSET Event]
  BY DEF LogInv, TypeOK
<1>2. \A ev \in events'[n] \ events[n] : ev.epoch = head[n].epoch + 1
  BY <1>1 DEF TakeOver, OpenEpoch, Signed, NewEvent
<1>3. \A m \in Node : m # n => events'[m] = events[m]
  BY <1>1 DEF TakeOver, OpenEpoch
<1>. QED BY <1>2, <1>3 DEF WritesEntitled

LEMMA CreateWrites ==
    ASSUME LogInv, NEW d, NEW k, StartConversation(d, k)
    PROVE  \A m \in Node : WritesEntitled(m)
<1>1. events \in [Node -> SUBSET Event] /\ A \in Node
  BY DEF LogInv, TypeOK, Node
<1>2. head[A].epoch = 0 /\ \A ev \in events'[A] : ev.epoch = 1
  BY <1>1 DEF StartConversation, Create, Signed, NewEvent
<1>3. \A m \in Node : m # A => events'[m] = events[m]
  BY <1>1 DEF StartConversation, Create
<1>. QED BY <1>2, <1>3 DEF WritesEntitled

LEMMA IngestWrites ==
    ASSUME LogInv, Replicate
    PROVE  \A m \in Node : WritesEntitled(m)
<1>1. events \in [Node -> SUBSET Event]
  BY DEF LogInv, TypeOK
<1>2. \A m \in Node : \A ev \in events[m] : ev.coordinator = Owner(ev.epoch)
  BY DEF LogInv, OwnedEpochs
<1>3. ASSUME NEW m \in pushes, ReceiveEvents(m)
      PROVE  \A n \in Node : WritesEntitled(n)
  <2>1. m.from \in Node /\ Peer(m.from) # m.from
    BY PeerFacts DEF LogInv, TypeOK, Push
  <2>2. \A ev \in m.events : ev.coordinator = m.from
    BY <1>2, <2>1 DEF LogInv, NetworkCopies
  <2>. QED BY <1>1, <1>3, <2>1, <2>2 DEF ReceiveEvents, Ingest, store, WritesEntitled
<1>4. ASSUME NEW r \in ranges, ReceiveRange(r)
      PROVE  \A n \in Node : WritesEntitled(n)
  <2>1. r.to \in Node /\ Peer(r.to) \in Node /\ Peer(r.to) # r.to
    BY PeerFacts DEF LogInv, TypeOK, Range
  <2>2. \A ev \in r.events : ev.coordinator = Peer(r.to)
    BY <1>2, <2>1 DEF LogInv, NetworkCopies
  <2>. QED BY <1>1, <1>4, <2>1, <2>2 DEF ReceiveRange, Ingest, store, WritesEntitled
<1>5. UNCHANGED store => \A n \in Node : WritesEntitled(n)
  BY DEF store, WritesEntitled
<1>. QED
  BY <1>3, <1>4, <1>5
     DEF Replicate, SyncPush, SendPull, ReceiveAck, ServePull, Lose

LEMMA StepWrites ==
    ASSUME LogInv, ClockInv, [FailoverNext]_failoverVars
    PROVE  \A n \in Node : WritesEntitled(n)
<1>0. \A n \in Node : clock[n] \in PassTimes(n)
  BY LeaseBounds DEF PassTimes, ClockInv, Time
<1>1. ASSUME NEW n \in Node, NEW k \in 1..MaxBatch, DialogueWrite(n, k)
      PROVE  \A m \in Node : WritesEntitled(m)
  <2>. DEFINE bodies == [i \in 1..k |-> Turn]
  <2>1. Append(n, bodies, k) /\ MayWrite(n, clock[n])
    BY <1>1 DEF DialogueWrite, LocalAction, RemoteAction
  <2>. HIDE DEF bodies
  <2>. QED BY <1>0, <2>1, AppendWrites DEF WritesEntitled
<1>2. ASSUME NEW n \in Node, Recover(n)
      PROVE  \A m \in Node : WritesEntitled(m)
  <2>. DEFINE bodies == [i \in 1..1 |-> Reopened]
  <2>1. Append(n, bodies, 1)
    BY <1>2 DEF Recover, RecoveryAction
  <2>2. \A i \in 1..1 : bodies[i] = Reopened
    OBVIOUS
  <2>. HIDE DEF bodies
  <2>. QED BY <2>1, <2>2, AppendWrites DEF WritesEntitled
<1>3. ASSUME NEW n \in Node, NEW t \in PassTimes(n), NEW d, Renew(n, t, d)
      PROVE  \A m \in Node : WritesEntitled(m)
  <2>1. Append(n, <<LeaseUntil(t + d, FALSE)>>, 1) /\ MayWrite(n, t)
    BY <1>3 DEF Renew, LocalAction
  <2>. QED BY <2>1, AppendWrites DEF WritesEntitled
<1>4. ASSUME NEW n \in Node, Tick(n)
      PROVE  \A m \in Node : WritesEntitled(m)
  BY <1>3, <1>4, OpeningWrites DEF Tick, TickRenew
<1>5. CASE UNCHANGED logVars
  BY <1>5 DEF logVars, WritesEntitled
<1>. QED
  BY <1>0, <1>1, <1>2, <1>3, <1>4, <1>5, CreateWrites, OpeningWrites, IngestWrites
     DEF FailoverNext, Advance, Exchange, failoverVars, logVars

-----------------------------------------------------------------------------
(* The theorems.                                                            *)

\* The log's invariants hold of the failover layer.
LEMMA FailoverLogInv == FailoverSpec => []LogInv /\ []NoGaps
BY ImplementsLog, LogInvariant, Unbroken, PTL

\* The inductive invariant of the leases: the clocks stay close, the leases one
\* node writes end in order up to MaxStale, a granted one is the first of its
\* epoch, and a node that took over has waited for the newest lease it held.
THEOREM LeaseInvariant ==
    ASSUME OneLength
    PROVE  FailoverSpec => []LeaseInv
<1>1. FailoverInit => LeaseInv
  BY InitLeaseInv
<1>2. LogInv /\ LeaseInv /\ [FailoverNext]_failoverVars => LeaseInv'
  BY NextLeaseInv
<1>. QED BY <1>1, <1>2, FailoverLogInv, PTL DEF FailoverSpec

\* No split brain: with leases of one length and a grace that covers the skew of
\* the clocks and the age of a pass, the two nodes are never both entitled to
\* write, whatever is lost or delayed (failover.py 102-121, 230-231).
THEOREM Exclusion ==
    ASSUME OneLength, Grace >= MaxSkew + MaxStale
    PROVE  FailoverSpec => []ExclusiveWriter
<1>1. LogInv /\ NoGaps /\ LeaseInv => ExclusiveWriter
  <2>. SUFFICES ASSUME LogInv, NoGaps, LeaseInv,
                       MayWrite(A, clock[A]), MayWrite(B, clock[B])
                PROVE  FALSE
    BY DEF ExclusiveWriter
  <2>1. A \in Node /\ B \in Node /\ Peer(A) = B /\ Peer(B) = A
    BY Participants DEF Node, Peer
  <2>2. /\ clock[A] \in Nat /\ clock[B] \in Nat
        /\ head[A].epoch \in Nat /\ head[B].epoch \in Nat
    BY <2>1, ClockTypes, Bounds DEF LeaseInv, LogInv, TypeOK, Head
  <2>3. head[A].epoch # head[B].epoch
    BY <2>1, Participants DEF MayWrite, Coordinates, LogInv, OwnedEpochs
  <2>4. Grace >= MaxSkew + MaxStale + 0
    BY LeaseBounds
  <2>5. ~ (head[B].epoch > head[A].epoch)
    BY <2>1, <2>2, <2>4, Fenced
  <2>6. ~ (head[A].epoch > head[B].epoch)
    BY <2>1, <2>2, <2>4, Fenced
  <2>. QED BY <2>2, <2>3, <2>5, <2>6
<1>. QED BY <1>1, FailoverLogInv, LeaseInvariant, PTL

\* A coordinator never acts on a lease that its peer has not seen, unless it
\* granted it itself, nor on one that ends more than MaxStale after what the
\* peer in its epoch waits for (failover.py 106-111).
THEOREM HeldLease ==
    ASSUME OneLength
    PROVE  FailoverSpec => []LeaseHeldByPeer
<1>1. LogInv /\ NoGaps /\ LeaseInv => LeaseHeldByPeer
  <2>. SUFFICES ASSUME LogInv, NoGaps, LeaseInv, NEW n \in Node,
                       Coordinates(n), Effective(n) # {},
                       NEW x, x = Newest(Effective(n)), ~ x.body.grant
                PROVE  /\ x \in events[Peer(n)]
                       /\ head[Peer(n)].epoch = head[n].epoch =>
                            x.body.until <= EffectiveUntil(Peer(n)) + MaxStale
    BY DEF LeaseHeldByPeer, EffectiveUntil
  <2>1. x \in events[Peer(n)] /\ x \in LeasesOf(n, head[n].epoch)
    BY EffectiveIsHeld
  <2>2. ASSUME head[Peer(n)].epoch = head[n].epoch
        PROVE  x.body.until <= EffectiveUntil(Peer(n)) + MaxStale
    <3>. DEFINE p == Peer(n)
                w == Newest(Effective(p))
    <3>1. p \in Node /\ p # n
      BY PeerFacts
    <3>2. ~ Coordinates(p)
      BY <2>2, <3>1 DEF Coordinates, LogInv, OwnedEpochs
    <3>3. Effective(p) = LeasesOf(p, head[n].epoch)
      BY <2>2, <3>2 DEF Effective, Leases, LeasesOf
    <3>4. x \in Effective(p) /\ Effective(p) \in SUBSET Event
      BY <2>1, <3>1, <3>3 DEF LeasesOf, LogInv, TypeOK
    <3>5. IsNewest(w, LeasesOf(p, head[n].epoch))
      BY <3>3, <3>4, NewestExists
    <3>6. x.body.until <= w.body.until + MaxStale
      <4>. HIDE DEF w
      <4>. QED BY <3>5, NoNewerThanHeld
    <3>. QED BY <3>6 DEF EffectiveUntil
  <2>. QED BY <2>1, <2>2
<1>. QED BY <1>1, FailoverLogInv, LeaseInvariant, PTL

\* Nothing that a lease admits is written in an epoch that the peer has already
\* replaced.  A renewal is judged by the time of its pass, so that the age of a
\* pass counts twice (failover.py 255-290).
THEOREM NoWriteAfterTakeOver ==
    ASSUME OneLength, Grace >= MaxSkew + MaxStale + MaxStale
    PROVE  FailoverSpec => NoLateWrite
<1>1. LogInv /\ NoGaps /\ LeaseInv /\ [FailoverNext]_failoverVars =>
        [\A n \in Node : \A ev \in events'[n] \ events[n] :
            (ev.coordinator = n /\ ev.body # Reopened) =>
                head[Peer(n)].epoch <= ev.epoch]_failoverVars
  <2>. SUFFICES ASSUME LogInv, NoGaps, LeaseInv, [FailoverNext]_failoverVars,
                       NEW n \in Node, NEW ev \in events'[n] \ events[n],
                       ev.coordinator = n, ev.body # Reopened
                PROVE  head[Peer(n)].epoch <= ev.epoch
    OBVIOUS
  <2>1. Peer(n) \in Node /\ Peer(Peer(n)) = n
    BY PeerFacts
  <2>2. head[n].epoch \in Nat /\ head[Peer(n)].epoch \in Nat
    BY <2>1, Bounds DEF LogInv, TypeOK, Head
  <2>3. CASE ev.epoch = head[n].epoch + 1
    <3>1. head[Peer(n)].epoch <= head[n].epoch + 1
      BY <2>1, NextAtMost DEF LeaseInv
    <3>. QED BY <2>3, <3>1
  <2>4. ASSUME ev.epoch = head[n].epoch, NEW t \in PassTimes(n), MayWrite(n, t)
        PROVE  head[Peer(n)].epoch <= ev.epoch
    <3>1. /\ t \in Nat /\ MaxStale \in Nat /\ clock[n] \in Nat
          /\ clock[n] - MaxStale <= t
      BY ClockTypes DEF LeaseInv
    <3>2. t + MaxStale >= clock[n]
      BY <3>1
    <3>3. ~ (head[Peer(n)].epoch > head[n].epoch)
      BY <2>4, <3>1, <3>2, Fenced
    <3>. QED BY <2>2, <2>4, <3>3
  <2>5. WritesEntitled(n)
    BY StepWrites DEF LeaseInv
  <2>. QED BY <2>3, <2>4, <2>5 DEF WritesEntitled
<1>. QED BY <1>1, FailoverLogInv, LeaseInvariant, PTL DEF FailoverSpec, NoLateWrite

=============================================================================
