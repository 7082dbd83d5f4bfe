------------------------ MODULE FederatedLog_proofs -------------------------
(***************************************************************************)
(* The inductive invariant LogInv of FederatedLog, and the theorems that   *)
(* rest on it.  The argument: the epochs of a conversation alternate       *)
(* between the participants, so an epoch has one possible author; the      *)
(* author numbers its events past its own head; whatever travels is a copy *)
(* of events the author holds, and logs only grow.                         *)
(***************************************************************************)
EXTENDS FederatedLog, TLAPS

\* The part of the invariant that speaks of the stores alone.
StoreInv ==
    /\ events \in [Node -> SUBSET Event]
    /\ head \in [Node -> Head]
    /\ HeadIsLastEvent
    /\ OwnedEpochs
    /\ OwnPositionsUnique
    /\ CoordinatorHoldsAll

Grows == \A n \in Node : events[n] \subseteq events'[n]

\* Heads move forward, and what is new is not of an epoch already left.
Advances ==
    /\ Grows
    /\ \A n \in Node :
          /\ \/ head'[n].epoch > head[n].epoch
             \/ /\ head'[n].epoch = head[n].epoch
                /\ head'[n].sequence >= head[n].sequence
          /\ \A ev \in events'[n] : ev.epoch < head[n].epoch => ev \in events[n]

\* The participants are each other's peer.
LEMMA PeerFacts ==
    ASSUME NEW n \in Node
    PROVE  /\ Peer(n) \in Node
           /\ Peer(n) # n
           /\ Peer(Peer(n)) = n
           /\ \A m \in Node : m = n \/ m = Peer(n)
BY Participants DEF Node, Peer

\* The participant that does not own an epoch owns the next one.
LEMMA Alternate ==
    ASSUME NEW e \in Nat, NEW n \in Node, Owner(e) # n
    PROVE  Owner(e + 1) = n
<1>1. Owner(e) \in {A, B} /\ Owner(e + 1) # Owner(e)
  <2>1. (e % 2 = 1) # ((e + 1) % 2 = 1)
    OBVIOUS
  <2>. QED BY <2>1, Participants DEF Owner
<1>2. Owner(e + 1) \in {A, B}
  BY DEF Owner
<1>. QED BY <1>1, <1>2 DEF Node

\* A write by n that ends in position l of epoch e: its events S are signed by
\* n, occupy distinct positions up to l, and follow all n holds.
SoundWrite(n, e, l, S) ==
    /\ events' = [events EXCEPT ![n] = @ \cup S]
    /\ head' = [head EXCEPT ![n] = WrittenHead(n, e, l)]
    /\ Owner(e) = n
    /\ \A ev \in S : /\ ev.epoch = e
                     /\ ev.coordinator = n
                     /\ ev.sequence <= l
    /\ \E ev \in S : ev.sequence = l
    /\ \A x, y \in S : x.sequence = y.sequence => x = y
    /\ \A ev \in events[n] : /\ ev.epoch <= e
                             /\ ev.epoch = e => \A x \in S : ev.sequence < x.sequence

\* Writing past one's own head, in an epoch one owns, keeps the stores sound.
LEMMA StoreWrite ==
    ASSUME StoreInv,
           NEW n \in Node, NEW e \in Epoch, NEW l \in Sequence,
           NEW S \in SUBSET Event,
           SoundWrite(n, e, l, S)
    PROVE  StoreInv' /\ Grows /\ Advances
<1>. USE DEF SoundWrite
<1>1. /\ events' \in [Node -> SUBSET Event]
      /\ head' \in [Node -> Head]
      /\ events'[n] = events[n] \cup S
      /\ head'[n] = WrittenHead(n, e, l)
      /\ \A m \in Node : m # n => events'[m] = events[m] /\ head'[m] = head[m]
      /\ e > 0 /\ e \in Int /\ l \in Int
  <2>1. WrittenHead(n, e, l) \in Head
    BY Bounds DEF WrittenHead, Head, Epoch, Sequence
  <2>. QED BY <2>1, Bounds DEF StoreInv, Epoch, Sequence
<1>2. Grows
  BY <1>1 DEF Grows
<1>3. HeadIsLastEvent'
  <2>1. ASSUME NEW m \in Node, m # n
        PROVE  /\ head'[m].epoch = 0 => events'[m] = {}
               /\ head'[m].epoch > 0 =>
                    /\ IsLast(events'[m], head'[m].epoch, head'[m].sequence)
                    /\ \A ev \in events'[m] :
                          /\ ev.epoch <= head'[m].epoch
                          /\ ev.epoch = head'[m].epoch => ev.coordinator = head'[m].coordinator
    BY <2>1, <1>1 DEF StoreInv, HeadIsLastEvent
  <2>2. IsLast(events'[n], e, l)
    <3>1. \A ev \in events[n] : ev.epoch = e => ev.sequence <= l
      <4>. SUFFICES ASSUME NEW ev \in events[n], ev.epoch = e
                    PROVE  ev.sequence <= l
        OBVIOUS
      <4>1. PICK x \in S : x.sequence = l
        OBVIOUS
      <4>2. ev.sequence < x.sequence
        OBVIOUS
      <4>3. ev \in Event
        BY DEF StoreInv
      <4>4. ev.sequence \in Int
        BY <4>3 DEF Event, Sequence
      <4>. QED BY <4>1, <4>2, <4>4, <1>1
    <3>. QED BY <3>1, <1>1 DEF IsLast
  <2>3. \A ev \in events'[n] : ev.epoch <= e
    BY <1>1
  <2>4. \A ev \in events'[n] : ev.epoch = e => ev.coordinator = n
    BY <1>1 DEF StoreInv, OwnedEpochs
  <2>. QED BY <2>1, <2>2, <2>3, <2>4, <1>1 DEF HeadIsLastEvent, WrittenHead
<1>4. OwnedEpochs'
  BY <1>1 DEF StoreInv, OwnedEpochs, WrittenHead
<1>5. OwnPositionsUnique'
  <2>1. ASSUME NEW x \in events'[n], NEW y \in events'[n],
               x.epoch = y.epoch, x.sequence = y.sequence,
               x.coordinator = n, y.coordinator = n
        PROVE  x = y
    <3>1. \A ev \in Event : ev.sequence \in Int
      BY DEF Event, Sequence
    <3>2. \A u \in events[n], v \in S : ~ (u.epoch = v.epoch /\ u.sequence = v.sequence)
      <4>. SUFFICES ASSUME NEW u \in events[n], NEW v \in S,
                           u.epoch = v.epoch, u.sequence = v.sequence
                    PROVE  FALSE
        OBVIOUS
      <4>1. u.sequence < v.sequence
        OBVIOUS
      <4>2. v.sequence \in Int
        BY <3>1
      <4>. QED BY <4>1, <4>2
    <3>. QED BY <2>1, <3>2, <1>1 DEF StoreInv, OwnPositionsUnique
  <2>2. \A m \in Node : m # n => events'[m] = events[m]
    BY <1>1
  <2>. QED BY <2>1, <2>2 DEF StoreInv, OwnPositionsUnique
<1>6. CoordinatorHoldsAll'
  <2>. SUFFICES ASSUME NEW m \in Node, NEW ev \in events'[m]
                PROVE  ev \in events'[ev.coordinator]
    BY DEF CoordinatorHoldsAll
  <2>1. CASE ev \in events[m]
    <3>1. ev \in events[ev.coordinator] /\ ev.coordinator \in Node
      BY <2>1 DEF StoreInv, CoordinatorHoldsAll, Event
    <3>. QED BY <3>1, <1>2 DEF Grows
  <2>2. CASE ev \notin events[m]
    BY <2>2, <1>1
  <2>. QED BY <2>1, <2>2
<1>7. Advances
  <2>1. \A m \in Node : head[m].epoch \in Int /\ head[m].sequence \in Int /\ head[m].epoch >= 0
    BY DEF StoreInv, Head
  <2>2. head[n].epoch > 0 =>
            head[n].epoch <= e /\ (head[n].epoch = e => head[n].sequence <= l)
    <3>. SUFFICES ASSUME head[n].epoch > 0
                  PROVE  head[n].epoch <= e /\ (head[n].epoch = e => head[n].sequence <= l)
      OBVIOUS
    <3>1. PICK ev \in events[n] : ev.epoch = head[n].epoch /\ ev.sequence = head[n].sequence
      BY DEF StoreInv, HeadIsLastEvent, IsLast
    <3>2. PICK x \in S : x.sequence = l
      OBVIOUS
    <3>3. ev.epoch = e => ev.sequence < x.sequence
      OBVIOUS
    <3>. QED BY <3>1, <3>2, <3>3, <2>1, <1>1
  <2>3. /\ head'[n].epoch = e /\ head'[n].sequence = l
    BY <1>1 DEF WrittenHead
  <2>4. \A ev \in events'[n] : ev.epoch < head[n].epoch => ev \in events[n]
    <3>1. head[n].epoch <= e
      BY <2>1, <2>2, <1>1
    <3>2. \A ev \in S : ~ (ev.epoch < head[n].epoch)
      BY <3>1, <2>1, <1>1
    <3>. QED BY <3>2, <1>1
  <2>5. \/ head'[n].epoch > head[n].epoch
        \/ head'[n].epoch = head[n].epoch /\ head'[n].sequence >= head[n].sequence
    BY <2>1, <2>2, <2>3, <1>1
  <2>6. \A m \in Node : m # n =>
            /\ head'[m].epoch = head[m].epoch /\ head'[m].sequence >= head[m].sequence
            /\ events'[m] = events[m]
    BY <2>1, <1>1
  <2>. QED BY <2>4, <2>5, <2>6, <1>2 DEF Advances
<1>. QED BY <1>1, <1>2, <1>3, <1>4, <1>5, <1>6, <1>7 DEF StoreInv

\* Accepting a batch copied from the peer keeps the stores sound.
LEMMA StoreIngest ==
    ASSUME StoreInv,
           NEW n \in Node, NEW e \in Epoch, NEW l \in Sequence,
           NEW S \in SUBSET Event,
           S \subseteq events[Peer(n)],
           Owner(e) = Peer(n),
           \A ev \in S : ev.epoch = e /\ ev.sequence <= l,
           Acceptable(n, e, l, S),
           Ingest(n, e, l, S)
    PROVE  StoreInv' /\ Grows /\ Advances
<1>. DEFINE F == Fresh(n, S)
<1>1. Peer(n) \in Node /\ Peer(n) # n
  BY PeerFacts
<1>2. /\ events' = [events EXCEPT ![n] = @ \cup S]
      /\ events'[n] = events[n] \cup F
      /\ events' \in [Node -> SUBSET Event]
      /\ \A m \in Node : m # n => events'[m] = events[m]
  BY DEF Ingest, Fresh, StoreInv
<1>3. Grows
  BY <1>2 DEF Grows
<1>4. \A ev \in S : ev.coordinator = Peer(n) /\ ev \in events[Peer(n)]
  BY <1>1 DEF StoreInv, OwnedEpochs
<1>5. CoordinatorHoldsAll'
  <2>. SUFFICES ASSUME NEW m \in Node, NEW ev \in events'[m]
                PROVE  ev \in events'[ev.coordinator]
    BY DEF CoordinatorHoldsAll
  <2>1. CASE ev \in events[m]
    <3>1. ev \in events[ev.coordinator] /\ ev.coordinator \in Node
      BY <2>1 DEF StoreInv, CoordinatorHoldsAll, Event
    <3>. QED BY <3>1, <1>3 DEF Grows
  <2>2. CASE ev \notin events[m]
    BY <2>2, <1>1, <1>2, <1>4 DEF Fresh
  <2>. QED BY <2>1, <2>2
<1>6. OwnPositionsUnique'
  BY <1>1, <1>2, <1>4 DEF StoreInv, OwnPositionsUnique, Fresh
<1>7. \A m \in Node : \A ev \in events'[m] : ev.coordinator = Owner(ev.epoch)
  BY <1>2, <1>4 DEF StoreInv, OwnedEpochs, Fresh
<1>8. CASE F = {}
  <2>1. head' = head /\ events' = events
    <3>1. head' = head
      BY <1>8 DEF Ingest
    <3>2. events'[n] = events[n]
      BY <1>2, <1>8
    <3>3. events' = events
      BY <3>2, <1>2 DEF StoreInv
    <3>. QED BY <3>1, <3>3
  <2>2. Advances
    BY <2>1, <1>3 DEF Advances, StoreInv, Head
  <2>. QED BY <2>1, <2>2, <1>3, <1>5, <1>6, <1>7
           DEF StoreInv, HeadIsLastEvent, OwnedEpochs, IsLast
<1>9. CASE F # {}
  <2>1. PICK ev0 \in F : /\ ev0.sequence = l
                         /\ head' = [head EXCEPT ![n] = WrittenHead(ev0.coordinator, e, l)]
    BY <1>9 DEF Ingest
  <2>2. ev0.coordinator = Peer(n) /\ ev0.epoch = e /\ ev0 \in events'[n]
    BY <2>1, <1>2, <1>4 DEF Fresh
  <2>3. /\ head' \in [Node -> Head]
        /\ head'[n] = WrittenHead(Peer(n), e, l)
        /\ \A m \in Node : m # n => head'[m] = head[m]
        /\ e > 0 /\ e \in Int /\ l \in Int
    <3>1. WrittenHead(Peer(n), e, l) \in Head
      BY <1>1, Bounds DEF WrittenHead, Head, Epoch, Sequence
    <3>. QED BY <3>1, <2>1, <2>2, Bounds DEF StoreInv, Epoch, Sequence
  <2>4. head[n].epoch \in Int /\ head[n].sequence \in Int /\ head[n].epoch >= 0
    BY Bounds DEF StoreInv, Head
  <2>5. Contiguous(n, e, l, F) /\ ContinuesEpoch(n, e, F)
    BY <1>9 DEF Acceptable
  <2>6. head[n].epoch = 0 \/ e = head[n].epoch \/ e = head[n].epoch + 1
    BY <2>5 DEF ContinuesEpoch
  <2>7. \A ev \in events[n] : ev.epoch <= e
    <3>. SUFFICES ASSUME NEW ev \in events[n] PROVE ev.epoch <= e
      OBVIOUS
    <3>1. ev.epoch \in Int
      BY DEF StoreInv, Event, Epoch
    <3>2. head[n].epoch > 0 => ev.epoch <= head[n].epoch
      BY DEF StoreInv, HeadIsLastEvent
    <3>3. head[n].epoch # 0
      BY DEF StoreInv, HeadIsLastEvent
    <3>. QED BY <3>1, <3>2, <3>3, <2>3, <2>4, <2>6
  <2>8. \A ev \in events[n] : ev.epoch = e => ev.sequence <= l
    <3>. SUFFICES ASSUME NEW ev \in events[n], ev.epoch = e
                  PROVE  ev.sequence <= l
      OBVIOUS
    <3>1. ev.sequence \in Int
      BY DEF StoreInv, Event, Sequence
    <3>2. head[n].epoch > 0
      BY <2>4 DEF StoreInv, HeadIsLastEvent
    <3>3. e <= head[n].epoch
      BY <3>2 DEF StoreInv, HeadIsLastEvent
    <3>4. e = head[n].epoch
      BY <3>2, <3>3, <2>3, <2>4, <2>6
    <3>5. ev.sequence <= head[n].sequence
      BY <3>2, <3>4 DEF StoreInv, HeadIsLastEvent, IsLast
    <3>6. ev0.sequence \in (head[n].sequence + 1)..l
      BY <2>1, <2>5, <3>4 DEF Contiguous, KnownUpTo
    <3>. QED BY <3>1, <3>5, <3>6, <2>3, <2>4
  <2>9. IsLast(events'[n], e, l)
    BY <1>2, <2>1, <2>2, <2>8 DEF IsLast, Fresh
  <2>10. \A ev \in events'[n] : ev.epoch <= e
    <3>1. \A ev \in F : ev.epoch = e
      BY DEF Fresh
    <3>. QED BY <3>1, <1>2, <2>3, <2>7
  <2>11. HeadIsLastEvent'
    <3>1. ASSUME NEW m \in Node, m # n
          PROVE  /\ head'[m].epoch = 0 => events'[m] = {}
                 /\ head'[m].epoch > 0 =>
                      /\ IsLast(events'[m], head'[m].epoch, head'[m].sequence)
                      /\ \A ev \in events'[m] :
                            /\ ev.epoch <= head'[m].epoch
                            /\ ev.epoch = head'[m].epoch => ev.coordinator = head'[m].coordinator
      BY <3>1, <1>2, <2>3 DEF StoreInv, HeadIsLastEvent
    <3>2. \A ev \in events'[n] : ev.epoch = e => ev.coordinator = Peer(n)
      BY <1>7
    <3>. QED BY <3>1, <3>2, <2>3, <2>9, <2>10 DEF HeadIsLastEvent, WrittenHead
  <2>12. OwnedEpochs'
    BY <1>7, <2>3 DEF StoreInv, OwnedEpochs, WrittenHead
  <2>13. Advances
    <3>1. /\ head'[n].epoch = e /\ head'[n].sequence = l
      BY <2>3 DEF WrittenHead
    <3>2. e = head[n].epoch => l >= head[n].sequence
      <4>. SUFFICES ASSUME e = head[n].epoch PROVE l >= head[n].sequence
        OBVIOUS
      <4>1. ev0.sequence \in (head[n].sequence + 1)..l
        BY <2>1, <2>5 DEF Contiguous, KnownUpTo
      <4>. QED BY <4>1, <2>1, <2>3, <2>4
    <3>3. \/ head'[n].epoch > head[n].epoch
          \/ head'[n].epoch = head[n].epoch /\ head'[n].sequence >= head[n].sequence
      BY <3>1, <3>2, <2>3, <2>4, <2>6
    <3>4. \A ev \in events'[n] : ev.epoch < head[n].epoch => ev \in events[n]
      <4>1. \A ev \in F : ev.epoch = e
        BY DEF Fresh
      <4>2. ~ (e < head[n].epoch)
        BY <2>3, <2>4, <2>6
      <4>. QED BY <4>1, <4>2, <1>2
    <3>5. \A m \in Node : m # n =>
              /\ head'[m].epoch = head[m].epoch /\ head'[m].sequence >= head[m].sequence
              /\ events'[m] = events[m]
      BY <2>3, <1>2 DEF StoreInv, Head
    <3>. QED BY <3>3, <3>4, <3>5, <1>3 DEF Advances
  <2>. QED BY <1>2, <1>3, <1>5, <1>6, <2>3, <2>11, <2>12, <2>13 DEF StoreInv
<1>. QED BY <1>8, <1>9

\* Copies in flight stay copies when logs grow; so do acknowledgements.
LEMMA CopiesStay ==
    ASSUME NetworkCopies, Grows,
           pushes \subseteq Push, pulls \subseteq Pull,
           ranges \subseteq Range, acks \subseteq Ack
    PROVE  /\ \A m \in pushes :
                /\ Owner(m.epoch) = m.from
                /\ m.events \subseteq events'[m.from]
                /\ \A ev \in m.events : ev.epoch = m.epoch /\ ev.sequence <= m.last
           /\ \A p \in pulls : Owner(p.epoch) = Peer(p.from)
           /\ \A r \in ranges :
                /\ Owner(r.epoch) = Peer(r.to)
                /\ r.events \subseteq events'[Peer(r.to)]
                /\ \A ev \in r.events : ev.epoch = r.epoch /\ ev.sequence <= r.last
           /\ \A r \in acks :
                \E ev \in events'[Peer(r.to)] : ev.epoch = r.epoch /\ ev.sequence = r.acked
<1>1. \A m \in pushes : m.from \in Node
  BY DEF Push
<1>2. \A r \in ranges : Peer(r.to) \in Node
  BY PeerFacts DEF Range
<1>3. \A r \in acks : Peer(r.to) \in Node
  BY PeerFacts DEF Ack
<1>. QED BY <1>1, <1>2, <1>3 DEF NetworkCopies, Grows

\* An acknowledged position stays held, and so does the invariant about it.
LEMMA AckedStays ==
    ASSUME AckedIsHeld, Grows, UNCHANGED cursor
    PROVE  AckedIsHeld'
BY PeerFacts DEF AckedIsHeld, Grows

\* What a write transmits: unacknowledged events of the head's epoch.
LEMMA TransmitCopies ==
    ASSUME NEW n \in Node,
           StoreInv', head'[n].epoch > 0, head'[n].coordinator = n,
           Transmit(n), pushes \subseteq Push,
           head'[n].sequence \in Sequence, head'[n].epoch \in Epoch
    PROVE  \E m \in Push :
              /\ pushes' = pushes \cup {m}
              /\ Owner(m.epoch) = m.from
              /\ m.events \subseteq events'[m.from]
              /\ \A ev \in m.events : ev.epoch = m.epoch /\ ev.sequence <= m.last
<1>. DEFINE m == [from |-> n, epoch |-> head'[n].epoch,
                  last |-> head'[n].sequence, events |-> Unacknowledged(n)]
<1>1. Unacknowledged(n) \subseteq events'[n] /\ events'[n] \subseteq Event
  BY DEF Unacknowledged, StoreInv
<1>2. m \in Push /\ pushes' = pushes \cup {m}
  BY <1>1 DEF Push, Transmit
<1>3. Owner(m.epoch) = m.from
  BY DEF StoreInv, OwnedEpochs
<1>4. \A ev \in m.events : ev.epoch = m.epoch /\ ev.sequence <= m.last
  BY DEF Unacknowledged, StoreInv, HeadIsLastEvent, IsLast
<1>. HIDE DEF m
<1>5. m.events \subseteq events'[m.from]
  BY <1>1 DEF m
<1>. QED BY <1>2, <1>3, <1>4, <1>5

\* The events a handler signs after position s of epoch e.
LEMMA SignedFacts ==
    ASSUME NEW n \in Node, NEW e \in Epoch, NEW s \in Nat, NEW k \in Nat,
           s + k <= MaxSequence, NEW bodies \in [1..k -> Body]
    PROVE  /\ Signed(n, e, s, bodies, k) \subseteq Event
           /\ \A ev \in Signed(n, e, s, bodies, k) :
                 /\ ev.epoch = e /\ ev.coordinator = n
                 /\ ev.sequence > s /\ ev.sequence <= s + k
           /\ k > 0 => \E ev \in Signed(n, e, s, bodies, k) : ev.sequence = s + k
           /\ \A x, y \in Signed(n, e, s, bodies, k) : x.sequence = y.sequence => x = y
<1>1. \A i \in 1..k : s + i \in Sequence
  BY Bounds DEF Sequence
<1>2. \A i \in 1..k : NewEvent(n, e, s + i, bodies[i], n) \in Event
  BY <1>1 DEF NewEvent, Event
<1>3. \A x, y \in Signed(n, e, s, bodies, k) : x.sequence = y.sequence => x = y
  <2>. SUFFICES ASSUME NEW i \in 1..k, NEW j \in 1..k, s + i = s + j
                PROVE  NewEvent(n, e, s + i, bodies[i], n) = NewEvent(n, e, s + j, bodies[j], n)
    BY DEF Signed, NewEvent
  <2>1. i = j
    OBVIOUS
  <2>. QED BY <2>1
<1>4. k > 0 => \E ev \in Signed(n, e, s, bodies, k) : ev.sequence = s + k
  <2>. SUFFICES ASSUME k > 0
                PROVE  \E ev \in Signed(n, e, s, bodies, k) : ev.sequence = s + k
    OBVIOUS
  <2>1. k \in 1..k
    OBVIOUS
  <2>2. NewEvent(n, e, s + k, bodies[k], n) \in Signed(n, e, s, bodies, k)
    BY <2>1 DEF Signed
  <2>. QED BY <2>2 DEF NewEvent
<1>. QED BY <1>2, <1>3, <1>4 DEF Signed, NewEvent

\* The three writes, each an instance of StoreWrite.
LEMMA AppendStore ==
    ASSUME StoreInv, NEW n \in Node, NEW k \in Nat \ {0},
           NEW bodies \in [1..k -> Body], Append(n, bodies, k)
    PROVE  /\ StoreInv' /\ Grows /\ Advances
           /\ head'[n] = WrittenHead(n, head[n].epoch, head[n].sequence + k)
           /\ head[n].epoch \in Epoch /\ head[n].sequence + k \in Sequence
           /\ Appended(n, bodies, k) \subseteq events'[n]
           /\ Appended(n, bodies, k) \subseteq Event
           /\ \A ev \in Appended(n, bodies, k) :
                 ev.epoch = head[n].epoch /\ ev.sequence <= head[n].sequence + k
           /\ Owner(head[n].epoch) = n
<1>. DEFINE e == head[n].epoch
            s == head[n].sequence
            S == Appended(n, bodies, k)
<1>1. /\ e \in Epoch /\ s \in Nat /\ s + k <= MaxSequence /\ s + k \in Sequence
      /\ head[n].coordinator = n /\ e > 0
  BY Bounds DEF StoreInv, Head, Append, Coordinates, Epoch, Sequence
<1>2. /\ S \subseteq Event
      /\ \A ev \in S : /\ ev.epoch = e /\ ev.coordinator = n
                       /\ ev.sequence > s /\ ev.sequence <= s + k
      /\ \E ev \in S : ev.sequence = s + k
      /\ \A x, y \in S : x.sequence = y.sequence => x = y
  BY <1>1, SignedFacts DEF Appended
<1>3. Owner(e) = n
  BY <1>1 DEF StoreInv, OwnedEpochs
<1>4. \A ev \in events[n] : ev.epoch <= e /\ (ev.epoch = e => ev.sequence <= s)
  BY <1>1 DEF StoreInv, HeadIsLastEvent, IsLast
<1>5. \A ev \in events[n] : ev.epoch = e => \A x \in S : ev.sequence < x.sequence
  <2>. SUFFICES ASSUME NEW ev \in events[n], ev.epoch = e, NEW x \in S
                PROVE  ev.sequence < x.sequence
    OBVIOUS
  <2>1. ev \in Event /\ x \in Event
    BY <1>2 DEF StoreInv
  <2>2. ev.sequence \in Int /\ x.sequence \in Int
    BY <2>1 DEF Event, Sequence
  <2>. QED BY <1>1, <1>2, <1>4, <2>2
<1>6. /\ events' = [events EXCEPT ![n] = @ \cup S]
      /\ head' = [head EXCEPT ![n] = WrittenHead(n, e, s + k)]
  BY DEF Append
<1>. HIDE DEF S
<1>7. SoundWrite(n, e, s + k, S)
  BY <1>2, <1>3, <1>4, <1>5, <1>6 DEF SoundWrite
<1>9. StoreInv' /\ Grows /\ Advances
  BY <1>1, <1>2, <1>7, StoreWrite
<1>8. head'[n] = WrittenHead(n, e, s + k) /\ S \subseteq events'[n]
  BY <1>6 DEF StoreInv
<1>. QED BY <1>1, <1>2, <1>3, <1>8, <1>9 DEF S

LEMMA CreateStore ==
    ASSUME StoreInv, NEW k \in Nat, NEW bodies \in [1..k -> Body],
           Create(bodies, k)
    PROVE  /\ StoreInv' /\ Grows /\ Advances
           /\ head'[A] = WrittenHead(A, 1, k + 1)
           /\ 1 \in Epoch /\ k + 1 \in Sequence
<1>. DEFINE first == NewEvent(A, 1, 1, Created, A)
            S == {first} \cup Signed(A, 1, 1, bodies, k)
<1>1. A \in Node /\ 1 \in Epoch /\ 1 \in Sequence /\ k + 1 \in Sequence /\ 1 + k <= MaxSequence
  BY Bounds DEF Node, Epoch, Sequence, Create
<1>2. /\ Signed(A, 1, 1, bodies, k) \subseteq Event
      /\ \A ev \in Signed(A, 1, 1, bodies, k) :
            /\ ev.epoch = 1 /\ ev.coordinator = A
            /\ ev.sequence > 1 /\ ev.sequence <= 1 + k
      /\ k > 0 => \E ev \in Signed(A, 1, 1, bodies, k) : ev.sequence = 1 + k
      /\ \A x, y \in Signed(A, 1, 1, bodies, k) : x.sequence = y.sequence => x = y
  BY <1>1, SignedFacts
<1>3. /\ first \in Event
      /\ first.epoch = 1 /\ first.coordinator = A /\ first.sequence = 1
  BY <1>1, Bodies DEF NewEvent, Event
<1>. HIDE DEF first
<1>4. /\ S \subseteq Event
      /\ \A ev \in S : ev.epoch = 1 /\ ev.coordinator = A /\ ev.sequence <= k + 1
      /\ \A x, y \in S : x.sequence = y.sequence => x = y
  BY <1>2, <1>3
<1>5. \E ev \in S : ev.sequence = k + 1
  <2>1. CASE k = 0
    BY <2>1, <1>3
  <2>2. CASE k > 0
    BY <2>2, <1>2
  <2>. QED BY <2>1, <2>2
<1>6. events[A] = {}
  BY <1>1 DEF StoreInv, HeadIsLastEvent, Create
<1>7. /\ events' = [events EXCEPT ![A] = @ \cup S]
      /\ head' = [head EXCEPT ![A] = WrittenHead(A, 1, k + 1)]
  <2>1. events' = [events EXCEPT ![A] = S]
    BY DEF Create, first
  <2>2. S = events[A] \cup S
    BY <1>6
  <2>. QED BY <2>1, <2>2 DEF Create
<1>8. Owner(1) = A
  BY DEF Owner
<1>. HIDE DEF S
<1>9. SoundWrite(A, 1, k + 1, S)
  BY <1>4, <1>5, <1>6, <1>7, <1>8 DEF SoundWrite
<1>11. StoreInv' /\ Grows /\ Advances
  BY <1>1, <1>4, <1>9, StoreWrite
<1>10. head'[A] = WrittenHead(A, 1, k + 1)
  BY <1>1, <1>7 DEF StoreInv
<1>. QED BY <1>1, <1>10, <1>11

LEMMA OpenEpochStore ==
    ASSUME StoreInv, NEW n \in Node, NEW k \in Nat,
           NEW bodies \in [1..k -> Body], OpenEpoch(n, bodies, k)
    PROVE  /\ StoreInv' /\ Grows /\ Advances
           /\ head'[n] = WrittenHead(n, head[n].epoch + 1, k + 1)
           /\ head[n].epoch + 1 \in Epoch /\ k + 1 \in Sequence
<1>. DEFINE e == head[n].epoch + 1
            first == NewEvent(n, e, 1, Changed, head[n].coordinator)
            S == {first} \cup Signed(n, e, 1, bodies, k)
<1>1. /\ e \in Epoch /\ 1 \in Sequence /\ k + 1 \in Sequence /\ 1 + k <= MaxSequence
      /\ head[n].epoch \in Nat /\ head[n].epoch > 0
      /\ head[n].coordinator \in Node /\ head[n].coordinator # n
      /\ e = head[n].epoch + 1
  BY Bounds DEF StoreInv, Head, Epoch, Sequence, OpenEpoch
<1>. HIDE DEF e
<1>2. /\ Signed(n, e, 1, bodies, k) \subseteq Event
      /\ \A ev \in Signed(n, e, 1, bodies, k) :
            /\ ev.epoch = e /\ ev.coordinator = n
            /\ ev.sequence > 1 /\ ev.sequence <= 1 + k
      /\ k > 0 => \E ev \in Signed(n, e, 1, bodies, k) : ev.sequence = 1 + k
      /\ \A x, y \in Signed(n, e, 1, bodies, k) : x.sequence = y.sequence => x = y
  BY <1>1, SignedFacts
<1>3. /\ first \in Event
      /\ first.epoch = e /\ first.coordinator = n /\ first.sequence = 1
  BY <1>1, Bodies DEF NewEvent, Event
<1>. HIDE DEF first
<1>4. /\ S \subseteq Event
      /\ \A ev \in S : ev.epoch = e /\ ev.coordinator = n /\ ev.sequence <= k + 1
      /\ \A x, y \in S : x.sequence = y.sequence => x = y
  BY <1>2, <1>3
<1>5. \E ev \in S : ev.sequence = k + 1
  <2>1. CASE k = 0
    BY <2>1, <1>3
  <2>2. CASE k > 0
    BY <2>2, <1>2
  <2>. QED BY <2>1, <2>2
<1>6. /\ events' = [events EXCEPT ![n] = @ \cup S]
      /\ head' = [head EXCEPT ![n] = WrittenHead(n, e, k + 1)]
  <2>1. events' = [events EXCEPT ![n] = @ \cup {first} \cup Signed(n, e, 1, bodies, k)]
    BY DEF OpenEpoch, first, e
  <2>2. events[n] \cup {first} \cup Signed(n, e, 1, bodies, k) = events[n] \cup S
    OBVIOUS
  <2>. QED BY <2>1, <2>2 DEF OpenEpoch, e
<1>7. Owner(e) = n
  <2>1. Owner(head[n].epoch) # n
    BY <1>1 DEF StoreInv, OwnedEpochs
  <2>. QED BY <2>1, <1>1, Alternate
<1>8. \A ev \in events[n] : ev.epoch <= e /\ ev.epoch # e
  <2>. SUFFICES ASSUME NEW ev \in events[n] PROVE ev.epoch <= e /\ ev.epoch # e
    OBVIOUS
  <2>1. ev.epoch \in Int
    BY DEF StoreInv, Event, Epoch
  <2>2. ev.epoch <= head[n].epoch
    BY <1>1 DEF StoreInv, HeadIsLastEvent
  <2>. QED BY <1>1, <2>1, <2>2
<1>. HIDE DEF S
<1>9. SoundWrite(n, e, k + 1, S)
  BY <1>4, <1>5, <1>6, <1>7, <1>8 DEF SoundWrite
<1>11. StoreInv' /\ Grows /\ Advances
  BY <1>1, <1>4, <1>9, StoreWrite
<1>10. head'[n] = WrittenHead(n, e, k + 1)
  BY <1>6 DEF StoreInv
<1>. QED BY <1>1, <1>10, <1>11

-----------------------------------------------------------------------------
(* One lemma for each kind of step.                                         *)

\* A write followed by its push.
LEMMA WriteStep ==
    ASSUME LogInv, StoreInv', Grows, NEW n \in Node,
           NEW e \in Epoch, NEW l \in Sequence,
           head'[n] = WrittenHead(n, e, l),
           Transmit(n), UNCHANGED <<cursor, acks, pulls, ranges>>
    PROVE  LogInv'
<1>1. /\ pushes \subseteq Push /\ pulls \subseteq Pull
      /\ ranges \subseteq Range /\ acks \subseteq Ack
  BY DEF LogInv, TypeOK
<1>2. /\ head'[n].epoch = e /\ head'[n].coordinator = n /\ head'[n].sequence = l
      /\ e > 0
  BY DEF WrittenHead, Epoch
<1>3. PICK m \in Push :
          /\ pushes' = pushes \cup {m}
          /\ Owner(m.epoch) = m.from
          /\ m.events \subseteq events'[m.from]
          /\ \A ev \in m.events : ev.epoch = m.epoch /\ ev.sequence <= m.last
  BY <1>1, <1>2, TransmitCopies
<1>4. NetworkCopies'
  BY <1>1, <1>3, CopiesStay DEF LogInv, NetworkCopies
<1>5. AckedIsHeld'
  BY AckedStays DEF LogInv
<1>6. TypeOK'
  BY <1>1, <1>3 DEF LogInv, TypeOK, StoreInv
<1>. QED BY <1>4, <1>5, <1>6 DEF LogInv, StoreInv

LEMMA InvGivesStore == LogInv => StoreInv
BY DEF LogInv, TypeOK, StoreInv

LEMMA CreateStep ==
    ASSUME LogInv, NEW k \in Nat, NEW bodies \in [1..k -> Body], Create(bodies, k)
    PROVE  LogInv' /\ Advances
<1>1. StoreInv
  BY InvGivesStore
<1>2. A \in Node
  BY DEF Node
<1>3. Transmit(A) /\ UNCHANGED <<cursor, acks, pulls, ranges>>
  BY DEF Create
<1>. QED BY <1>1, <1>2, <1>3, CreateStore, WriteStep

LEMMA LocalStep ==
    ASSUME LogInv, NEW n \in Node, NEW k \in Nat \ {0},
           NEW bodies \in [1..k -> Body], LocalAction(n, bodies, k)
    PROVE  LogInv' /\ Advances
<1>1. StoreInv
  BY InvGivesStore
<1>2. Append(n, bodies, k) /\ Transmit(n) /\ UNCHANGED <<cursor, acks, pulls, ranges>>
  BY DEF LocalAction
<1>. QED BY <1>1, <1>2, AppendStore, WriteStep

LEMMA OpenEpochStep ==
    ASSUME LogInv, NEW n \in Node, NEW k \in Nat,
           NEW bodies \in [1..k -> Body], OpenEpoch(n, bodies, k)
    PROVE  LogInv' /\ Advances
<1>1. StoreInv
  BY InvGivesStore
<1>2. Transmit(n) /\ UNCHANGED <<cursor, acks, pulls, ranges>>
  BY DEF OpenEpoch
<1>. QED BY <1>1, <1>2, OpenEpochStore, WriteStep

LEMMA RecoveryStep ==
    ASSUME LogInv, NEW n \in Node, NEW body \in Body, RecoveryAction(n, body)
    PROVE  LogInv' /\ Advances
<1>. DEFINE bodies == [i \in 1..1 |-> body]
<1>1. StoreInv
  BY InvGivesStore
<1>2. bodies \in [1..1 -> Body] /\ 1 \in Nat \ {0}
  OBVIOUS
<1>3. Append(n, bodies, 1) /\ UNCHANGED <<cursor, pushes, acks, pulls, ranges>>
  BY DEF RecoveryAction, network
<1>. HIDE DEF bodies
<1>4. StoreInv' /\ Grows /\ Advances
  BY <1>1, <1>2, <1>3, AppendStore
<1>5. NetworkCopies'
  BY <1>3, <1>4, CopiesStay DEF LogInv, NetworkCopies, TypeOK
<1>6. AckedIsHeld'
  BY <1>3, <1>4, AckedStays DEF LogInv
<1>. QED BY <1>3, <1>4, <1>5, <1>6 DEF LogInv, TypeOK, StoreInv

LEMMA RemoteStep ==
    ASSUME LogInv, NEW n \in Node, NEW k \in Nat \ {0},
           NEW bodies \in [1..k -> Body], RemoteAction(n, bodies, k)
    PROVE  LogInv' /\ Advances
<1>. DEFINE r == [to |-> Peer(n), kind |-> "action", epoch |-> head[n].epoch,
                  last |-> head[n].sequence + k, events |-> Appended(n, bodies, k)]
<1>1. StoreInv
  BY InvGivesStore
<1>2. Append(n, bodies, k) /\ ranges' = ranges \cup {r} /\ UNCHANGED <<cursor, pushes, acks, pulls>>
  BY DEF RemoteAction
<1>3. /\ StoreInv' /\ Grows /\ Advances
      /\ head[n].epoch \in Epoch /\ head[n].sequence + k \in Sequence
      /\ Appended(n, bodies, k) \subseteq events'[n]
      /\ Appended(n, bodies, k) \subseteq Event
      /\ \A ev \in Appended(n, bodies, k) :
            ev.epoch = head[n].epoch /\ ev.sequence <= head[n].sequence + k
      /\ Owner(head[n].epoch) = n
  BY <1>1, <1>2, AppendStore
<1>4. /\ r \in Range
      /\ Owner(r.epoch) = Peer(r.to)
      /\ r.events \subseteq events'[Peer(r.to)]
      /\ \A ev \in r.events : ev.epoch = r.epoch /\ ev.sequence <= r.last
  BY <1>3, PeerFacts DEF Range
<1>. HIDE DEF r
<1>5. NetworkCopies'
  BY <1>2, <1>3, <1>4, CopiesStay DEF LogInv, NetworkCopies, TypeOK
<1>6. AckedIsHeld'
  BY <1>2, <1>3, AckedStays DEF LogInv
<1>. QED BY <1>2, <1>3, <1>4, <1>5, <1>6 DEF LogInv, TypeOK, StoreInv

\* Steps that leave the stores and the cursors alone.
LEMMA QuietStep ==
    ASSUME LogInv, UNCHANGED <<events, head>>
    PROVE  StoreInv' /\ Grows /\ Advances
BY InvGivesStore DEF StoreInv, Grows, Advances, Head, HeadIsLastEvent, OwnedEpochs, IsLast,
                     OwnPositionsUnique, CoordinatorHoldsAll

LEMMA SyncStep ==
    ASSUME LogInv, NEW n \in Node, SyncPush(n)
    PROVE  LogInv' /\ Advances
<1>1. UNCHANGED <<events, head>> /\ Transmit(n) /\ UNCHANGED <<cursor, acks, pulls, ranges>>
  BY DEF SyncPush, store
<1>2. StoreInv' /\ Grows /\ Advances
  BY <1>1, QuietStep
<1>3. head[n].epoch > 0 /\ head[n].coordinator = n /\ head[n] \in Head
  BY DEF SyncPush, Coordinates, LogInv, TypeOK
<1>4. head[n].epoch \in Epoch
  BY <1>3, Bounds DEF Head, Epoch
<1>5. head[n].sequence \in Sequence
  <2>1. \E ev \in events[n] : ev.sequence = head[n].sequence
    BY <1>3 DEF LogInv, HeadIsLastEvent, IsLast
  <2>. QED BY <2>1 DEF LogInv, TypeOK, Event
<1>6. head'[n] = WrittenHead(n, head[n].epoch, head[n].sequence)
  BY <1>1, <1>3 DEF WrittenHead, Head
<1>. QED BY <1>1, <1>2, <1>4, <1>5, <1>6, WriteStep

LEMMA ReceiveEventsStep ==
    ASSUME LogInv, NEW m \in pushes, ReceiveEvents(m)
    PROVE  LogInv' /\ Advances
<1>. DEFINE n == Peer(m.from)
<1>1. /\ m \in Push /\ n \in Node /\ Peer(n) = m.from
      /\ m.epoch \in Epoch /\ m.last \in Sequence /\ m.events \in SUBSET Event
      /\ Peer(m.from) = n
  <2>1. m \in Push
    BY DEF LogInv, TypeOK
  <2>. QED BY <2>1, PeerFacts DEF Push
<1>2. /\ m.events \subseteq events[Peer(n)] /\ Owner(m.epoch) = Peer(n)
      /\ \A ev \in m.events : ev.epoch = m.epoch /\ ev.sequence <= m.last
  BY <1>1 DEF LogInv, NetworkCopies
<1>. HIDE DEF n
<1>3. CASE /\ Acceptable(n, m.epoch, m.last, m.events)
           /\ Ingest(n, m.epoch, m.last, m.events)
           /\ \E s \in Sequence :
                /\ AckedSequence(n, m.epoch, s)
                /\ acks' = acks \cup {[to |-> m.from, epoch |-> m.epoch,
                                       last |-> m.last, acked |-> s]}
  <2>1. StoreInv' /\ Grows /\ Advances
    BY <1>1, <1>2, <1>3, InvGivesStore, StoreIngest
  <2>2. PICK s \in Sequence :
              /\ AckedSequence(n, m.epoch, s)
              /\ acks' = acks \cup {[to |-> m.from, epoch |-> m.epoch,
                                     last |-> m.last, acked |-> s]}
    BY <1>3
  <2>. DEFINE r == [to |-> m.from, epoch |-> m.epoch, last |-> m.last, acked |-> s]
  <2>3. r \in Ack /\ Peer(r.to) = n
    BY <1>1 DEF Push, Ack
  <2>4. \E ev \in events'[n] : ev.epoch = m.epoch /\ ev.sequence = s
    <3>1. CASE head'[n].epoch = m.epoch
      <4>1. head'[n].epoch > 0 /\ s = head'[n].sequence
        BY <3>1, <2>2, <1>1 DEF Epoch, AckedSequence
      <4>. QED BY <4>1, <3>1, <2>1, <1>1 DEF StoreInv, HeadIsLastEvent, IsLast
    <3>2. CASE head'[n].epoch # m.epoch
      BY <3>2, <2>2 DEF AckedSequence, IsLast
    <3>. QED BY <3>1, <3>2
  <2>5. pushes' = pushes \ {m} /\ UNCHANGED <<cursor, pulls, ranges>> /\ acks' = acks \cup {r}
    BY <2>2 DEF ReceiveEvents
  <2>6. NetworkCopies'
    <3>1. \E ev \in events'[Peer(r.to)] : ev.epoch = r.epoch /\ ev.sequence = r.acked
      BY <2>3, <2>4
    <3>. HIDE DEF r
    <3>. QED BY <3>1, <2>1, <2>5, CopiesStay DEF LogInv, TypeOK, NetworkCopies
  <2>7. AckedIsHeld'
    BY <2>1, <2>5, AckedStays DEF LogInv
  <2>8. TypeOK'
    BY <2>1, <2>3, <2>5 DEF LogInv, TypeOK, StoreInv
  <2>. QED BY <2>1, <2>6, <2>7, <2>8 DEF LogInv, StoreInv
<1>4. CASE UNCHANGED <<events, head, acks>>
  <2>1. StoreInv' /\ Grows /\ Advances
    BY <1>4, QuietStep
  <2>2. pushes' \subseteq pushes /\ UNCHANGED <<cursor, acks, pulls, ranges>>
    BY <1>4 DEF ReceiveEvents
  <2>3. NetworkCopies'
    BY <2>1, <2>2, CopiesStay DEF LogInv, TypeOK, NetworkCopies
  <2>4. AckedIsHeld'
    BY <2>1, <2>2, AckedStays DEF LogInv
  <2>. QED BY <2>1, <2>2, <2>3, <2>4 DEF LogInv, TypeOK, StoreInv
<1>. QED BY <1>3, <1>4 DEF ReceiveEvents, store, n

LEMMA ReceiveRangeStep ==
    ASSUME LogInv, NEW r \in ranges, ReceiveRange(r)
    PROVE  LogInv' /\ Advances
<1>1. /\ r \in Range /\ r.to \in Node
      /\ r.epoch \in Epoch /\ r.last \in Sequence /\ r.events \in SUBSET Event
      /\ r.events \subseteq events[Peer(r.to)] /\ Owner(r.epoch) = Peer(r.to)
      /\ \A ev \in r.events : ev.epoch = r.epoch /\ ev.sequence <= r.last
  BY DEF LogInv, TypeOK, NetworkCopies, Range
<1>2. StoreInv' /\ Grows /\ Advances
  <2>1. CASE AcceptsRange(r) /\ Ingest(r.to, r.epoch, r.last, r.events)
    BY <2>1, <1>1, InvGivesStore, StoreIngest DEF AcceptsRange
  <2>2. CASE UNCHANGED <<events, head>>
    BY <2>2, QuietStep
  <2>. QED BY <2>1, <2>2 DEF ReceiveRange, store
<1>3. ranges' \subseteq ranges /\ UNCHANGED <<cursor, pushes, acks, pulls>>
  BY DEF ReceiveRange
<1>4. NetworkCopies'
  BY <1>2, <1>3, CopiesStay DEF LogInv, TypeOK, NetworkCopies
<1>5. AckedIsHeld'
  BY <1>2, <1>3, AckedStays DEF LogInv
<1>. QED BY <1>2, <1>3, <1>4, <1>5 DEF LogInv, TypeOK, StoreInv

\* Raising a cursor to a position the peer holds.
LEMMA AcknowledgeKeeps ==
    ASSUME LogInv, NEW n \in Node, NEW e \in Epoch, NEW s \in Sequence,
           Acknowledge(n, e, s), UNCHANGED <<events, head>>,
           \E ev \in events[Peer(n)] : ev.epoch = e /\ ev.sequence = s
    PROVE  AckedIsHeld' /\ cursor' \in [Node -> [Epoch -> 0..MaxSequence]]
<1>1. s \in 0..MaxSequence /\ cursor \in [Node -> [Epoch -> 0..MaxSequence]]
  BY Bounds DEF Sequence, LogInv, TypeOK
<1>2. cursor'[n][e] \in {s, cursor[n][e]}
  BY <1>1 DEF Acknowledge
<1>3. \A m \in Node, f \in Epoch : ~ (m = n /\ f = e) => cursor'[m][f] = cursor[m][f]
  BY <1>1 DEF Acknowledge
<1>4. AckedIsHeld'
  <2>. SUFFICES ASSUME NEW m \in Node, NEW f \in Epoch, cursor'[m][f] > 0
                PROVE  \E ev \in events[Peer(m)] : ev.epoch = f /\ ev.sequence = cursor'[m][f]
    BY DEF AckedIsHeld
  <2>1. CASE cursor'[m][f] = cursor[m][f]
    BY <2>1 DEF LogInv, AckedIsHeld
  <2>2. CASE m = n /\ f = e /\ cursor'[m][f] = s
    BY <2>2
  <2>. QED BY <2>1, <2>2, <1>2, <1>3
<1>5. cursor' \in [Node -> [Epoch -> 0..MaxSequence]]
  BY <1>1 DEF Acknowledge
<1>. QED BY <1>4, <1>5

LEMMA ReceiveAckStep ==
    ASSUME LogInv, NEW r \in acks, ReceiveAck(r)
    PROVE  LogInv' /\ Advances
<1>1. /\ acks' = acks \ {r} /\ UNCHANGED <<events, head, pushes, pulls, ranges>>
      /\ r.to \in Node /\ r.epoch \in Epoch /\ r.acked \in Sequence
  BY DEF ReceiveAck, store, LogInv, TypeOK, Ack
<1>2. StoreInv' /\ Grows /\ Advances
  BY <1>1, QuietStep
<1>3. NetworkCopies'
  BY <1>1, <1>2, CopiesStay DEF LogInv, TypeOK, NetworkCopies
<1>4. AckedIsHeld' /\ cursor' \in [Node -> [Epoch -> 0..MaxSequence]]
  <2>1. CASE Acknowledge(r.to, r.epoch, r.acked)
    <3>1. \E ev \in events[Peer(r.to)] : ev.epoch = r.epoch /\ ev.sequence = r.acked
      BY DEF LogInv, NetworkCopies
    <3>. QED BY <3>1, <2>1, <1>1, AcknowledgeKeeps
  <2>2. CASE UNCHANGED cursor
    BY <2>2, <1>2, AckedStays DEF LogInv, TypeOK
  <2>. QED BY <2>1, <2>2 DEF ReceiveAck
<1>. QED BY <1>1, <1>2, <1>3, <1>4 DEF LogInv, TypeOK, StoreInv

LEMMA AckEndpointStep ==
    ASSUME LogInv, NEW n \in Node, NEW e \in Epoch, NEW s \in Sequence,
           AckEndpoint(n, e, s)
    PROVE  LogInv' /\ Advances
<1>1. UNCHANGED <<events, head, pushes, acks, pulls, ranges>> /\ Acknowledge(n, e, s)
  BY DEF AckEndpoint, store, network
<1>2. StoreInv' /\ Grows /\ Advances
  BY <1>1, QuietStep
<1>3. NetworkCopies'
  BY <1>1, <1>2, CopiesStay DEF LogInv, TypeOK, NetworkCopies
<1>4. AckedIsHeld' /\ cursor' \in [Node -> [Epoch -> 0..MaxSequence]]
  <2>1. \E ev \in events[Peer(n)] : ev.epoch = e /\ ev.sequence = s
    BY DEF AckEndpoint, IsLast
  <2>. QED BY <2>1, <1>1, AcknowledgeKeeps
<1>. QED BY <1>1, <1>2, <1>3, <1>4 DEF LogInv, TypeOK, StoreInv

LEMMA SendPullStep ==
    ASSUME LogInv, NEW n \in Node, SendPull(n)
    PROVE  LogInv' /\ Advances
<1>. DEFINE p == [from |-> n, epoch |-> head[n].epoch, after |-> head[n].sequence]
<1>1. pulls' = pulls \cup {p} /\ UNCHANGED <<events, head, cursor, pushes, acks, ranges>>
  BY DEF SendPull, store
<1>2. StoreInv' /\ Grows /\ Advances
  BY <1>1, QuietStep
<1>3. head[n] \in Head /\ head[n].epoch > 0 /\ head[n].coordinator # n
  BY DEF SendPull, LogInv, TypeOK
<1>4. p \in Pull
  BY <1>3, Bounds DEF Pull, Head, Epoch
<1>5. Owner(p.epoch) = Peer(p.from)
  BY <1>3, PeerFacts DEF LogInv, OwnedEpochs, Head
<1>. HIDE DEF p
<1>6. NetworkCopies'
  BY <1>1, <1>2, <1>5, CopiesStay DEF LogInv, TypeOK, NetworkCopies
<1>7. AckedIsHeld'
  BY <1>1, <1>2, AckedStays DEF LogInv
<1>. QED BY <1>1, <1>2, <1>4, <1>6, <1>7 DEF LogInv, TypeOK, StoreInv

LEMMA ServePullStep ==
    ASSUME LogInv, NEW p \in pulls, ServePull(p)
    PROVE  LogInv' /\ Advances
<1>. DEFINE batch == EventsAfter(Peer(p.from), p.epoch, p.after)
            r(s) == [to |-> p.from, kind |-> "catch-up", epoch |-> p.epoch,
                     last |-> s, events |-> batch]
<1>1. pulls' = pulls \ {p} /\ UNCHANGED <<events, head, cursor, pushes, acks>>
  BY DEF ServePull, store
<1>2. StoreInv' /\ Grows /\ Advances
  BY <1>1, QuietStep
<1>3. p \in Pull /\ Owner(p.epoch) = Peer(p.from) /\ Peer(p.from) \in Node
  <2>1. p \in Pull
    BY DEF LogInv, TypeOK
  <2>. QED BY <2>1, PeerFacts DEF LogInv, NetworkCopies, Pull
<1>4. AckedIsHeld'
  BY <1>1, <1>2, AckedStays DEF LogInv
<1>5. CASE UNCHANGED ranges
  <2>1. NetworkCopies'
    BY <1>1, <1>2, <1>5, CopiesStay DEF LogInv, TypeOK, NetworkCopies
  <2>. QED BY <1>1, <1>2, <1>4, <1>5, <2>1 DEF LogInv, TypeOK, StoreInv
<1>6. CASE \E s \in Sequence : IsLast(batch, p.epoch, s) /\ ranges' = ranges \cup {r(s)}
  <2>1. PICK s \in Sequence : IsLast(batch, p.epoch, s) /\ ranges' = ranges \cup {r(s)}
    BY <1>6
  <2>2. batch \subseteq events[Peer(p.from)] /\ batch \subseteq Event
    BY <1>3 DEF EventsAfter, LogInv, TypeOK
  <2>3. \A ev \in batch : ev.epoch = p.epoch /\ ev.sequence <= s
    BY <2>1 DEF EventsAfter, IsLast
  <2>. DEFINE q == r(s)
  <2>4. /\ q \in Range
        /\ Owner(q.epoch) = Peer(q.to)
        /\ q.events \subseteq events'[Peer(q.to)]
        /\ \A ev \in q.events : ev.epoch = q.epoch /\ ev.sequence <= q.last
    <3>. HIDE DEF batch
    <3>. QED BY <1>1, <1>3, <2>2, <2>3 DEF Range, Pull
  <2>5. ranges' = ranges \cup {q}
    BY <2>1
  <2>. HIDE DEF q
  <2>6. NetworkCopies'
    BY <1>1, <1>2, <2>4, <2>5, CopiesStay DEF LogInv, TypeOK, NetworkCopies
  <2>. QED BY <1>1, <1>2, <1>4, <2>4, <2>5, <2>6 DEF LogInv, TypeOK, StoreInv
<1>. QED BY <1>5, <1>6 DEF ServePull

LEMMA LoseStep ==
    ASSUME LogInv, Lose
    PROVE  LogInv' /\ Advances
<1>1. /\ UNCHANGED <<events, head, cursor>>
      /\ pushes' \subseteq pushes /\ acks' \subseteq acks
      /\ pulls' \subseteq pulls /\ ranges' \subseteq ranges
  BY DEF Lose, store
<1>2. StoreInv' /\ Grows /\ Advances
  BY <1>1, QuietStep
<1>3. NetworkCopies'
  BY <1>1, <1>2, CopiesStay DEF LogInv, TypeOK, NetworkCopies
<1>4. AckedIsHeld'
  BY <1>1, <1>2, AckedStays DEF LogInv
<1>. QED BY <1>1, <1>2, <1>3, <1>4 DEF LogInv, TypeOK, StoreInv

-----------------------------------------------------------------------------
(* The theorems.                                                            *)

LEMMA InitLogInv == Init => LogInv
<1>. SUFFICES ASSUME Init PROVE LogInv
  OBVIOUS
<1>1. A \in Node /\ NoHead \in Head
  BY Bounds DEF Node, NoHead, Head
<1>2. TypeOK
  BY <1>1, Bounds DEF Init, TypeOK
<1>3. \A n \in Node : events[n] = {} /\ head[n].epoch = 0
  BY DEF Init, NoHead
<1>4. \A n \in Node, e \in Epoch : cursor[n][e] = 0
  BY DEF Init
<1>5. HeadIsLastEvent /\ OwnedEpochs /\ OwnPositionsUnique /\ CoordinatorHoldsAll
  BY <1>3 DEF HeadIsLastEvent, OwnedEpochs, OwnPositionsUnique, CoordinatorHoldsAll
<1>6. NetworkCopies
  BY DEF Init, NetworkCopies
<1>7. AckedIsHeld
  BY <1>4 DEF AckedIsHeld
<1>. QED BY <1>2, <1>5, <1>6, <1>7 DEF LogInv

\* Every step of the specification keeps the invariant and moves logs forward.
LEMMA NextLogInv ==
    ASSUME LogInv, [Next]_logVars
    PROVE  LogInv' /\ Advances
<1>1. \A k \in Nat : \A bodies \in Contents(k) : bodies \in [1..k -> Body]
  BY DEF Contents, Content
<1>2. \A k \in 0..MaxBatch : k \in Nat
  OBVIOUS
<1>12. \A k \in 0..2 : k \in Nat
  OBVIOUS
<1>3. \A k \in 1..MaxBatch : k \in Nat /\ k \in Nat \ {0}
  OBVIOUS
<1>4. ASSUME NEW k \in 0..2, NEW bodies \in Contents(k), Create(bodies, k)
      PROVE  LogInv' /\ Advances
  BY <1>1, <1>12, <1>4, CreateStep
<1>5. ASSUME NEW n \in Node, NEW k \in 1..MaxBatch, NEW bodies \in Contents(k),
             LocalAction(n, bodies, k)
      PROVE  LogInv' /\ Advances
  BY <1>1, <1>3, <1>5, LocalStep
<1>6. ASSUME NEW n \in Node, NEW k \in 1..MaxBatch, NEW bodies \in Contents(k),
             RemoteAction(n, bodies, k)
      PROVE  LogInv' /\ Advances
  BY <1>1, <1>3, <1>6, RemoteStep
<1>7. ASSUME NEW n \in Node, NEW body \in Content, RecoveryAction(n, body)
      PROVE  LogInv' /\ Advances
  BY <1>7, RecoveryStep DEF Content
<1>8. ASSUME NEW n \in Node, NEW k \in 0..MaxBatch, NEW bodies \in Contents(k),
             OpenEpoch(n, bodies, k)
      PROVE  LogInv' /\ Advances
  BY <1>1, <1>2, <1>8, OpenEpochStep
<1>9. CASE Replicate
  BY <1>9, SyncStep, ReceiveEventsStep, ReceiveAckStep,
     SendPullStep, ServePullStep, ReceiveRangeStep, LoseStep DEF Replicate
<1>11. ASSUME NEW n \in Node, NEW e \in Epoch, NEW s \in Sequence,
              AckEndpoint(n, e, s)
       PROVE  LogInv' /\ Advances
  BY <1>11, AckEndpointStep
<1>10. CASE UNCHANGED logVars
  <2>1. UNCHANGED <<events, head, cursor, pushes, acks, pulls, ranges>>
    BY <1>10 DEF logVars
  <2>2. StoreInv' /\ Grows /\ Advances
    BY <2>1, QuietStep
  <2>3. NetworkCopies'
    BY <2>1, <2>2, CopiesStay DEF LogInv, TypeOK, NetworkCopies
  <2>4. AckedIsHeld'
    BY <2>1, <2>2, AckedStays DEF LogInv
  <2>. QED BY <2>1, <2>2, <2>3, <2>4 DEF LogInv, TypeOK, StoreInv
<1>. QED BY <1>4, <1>5, <1>6, <1>7, <1>8, <1>9, <1>10, <1>11 DEF Next

-----------------------------------------------------------------------------
(* No gaps: what a node adds starts where its log of that epoch ends.       *)

\* The positions up to t of one epoch are all in the set.
Dense(S, e, t) == \A u \in 1..t : \E ev \in S : ev.epoch = e /\ ev.sequence = u

LEMMA ExtendNoGaps ==
    ASSUME StoreInv, NoGaps, NEW n \in Node, NEW S \in SUBSET Event,
           events' = [events EXCEPT ![n] = @ \cup S],
           \A ev \in S \ events[n] : Dense(events[n] \cup S, ev.epoch, ev.sequence - 1)
    PROVE  NoGaps'
<1>1. \A m \in Node : events'[m] = IF m = n THEN events[n] \cup S ELSE events[m]
  BY DEF StoreInv
<1>. SUFFICES ASSUME NEW m \in Node, NEW ev \in events'[m],
                     NEW t \in 1..(ev.sequence - 1)
              PROVE  \E prior \in events'[m] :
                        prior.epoch = ev.epoch /\ prior.sequence = t
  BY DEF NoGaps
<1>2. CASE ev \in events[m]
  <2>1. \E prior \in events[m] : prior.epoch = ev.epoch /\ prior.sequence = t
    BY <1>2 DEF NoGaps
  <2>. QED BY <2>1, <1>1
<1>3. CASE ev \notin events[m]
  <2>1. m = n /\ ev \in S \ events[n]
    BY <1>1, <1>3
  <2>. QED BY <1>1, <2>1 DEF Dense
<1>. QED BY <1>2, <1>3

LEMMA HeadDense ==
    ASSUME StoreInv, NoGaps, NEW n \in Node, head[n].epoch > 0
    PROVE  Dense(events[n], head[n].epoch, head[n].sequence)
<1>1. PICK last \in events[n] :
          last.epoch = head[n].epoch /\ last.sequence = head[n].sequence
  BY DEF StoreInv, HeadIsLastEvent, IsLast
<1>2. head[n].sequence \in Nat
  BY DEF StoreInv, Head
<1>. SUFFICES ASSUME NEW u \in 1..head[n].sequence
              PROVE  \E ev \in events[n] : ev.epoch = head[n].epoch /\ ev.sequence = u
  BY DEF Dense
<1>3. CASE u = last.sequence
  BY <1>1, <1>3
<1>4. CASE u # last.sequence
  <2>1. u \in 1..(last.sequence - 1)
    BY <1>1, <1>2, <1>4
  <2>. QED BY <1>1, <2>1 DEF NoGaps
<1>. QED BY <1>3, <1>4

LEMMA SignedDense ==
    ASSUME NEW n \in Node, NEW e \in Nat, NEW s \in Nat, NEW k \in Nat, NEW bodies,
           NEW S, Dense(S, e, s)
    PROVE  \A ev \in Signed(n, e, s, bodies, k) :
              Dense(S \cup Signed(n, e, s, bodies, k), ev.epoch, ev.sequence - 1)
<1>. DEFINE new == Signed(n, e, s, bodies, k)
<1>. SUFFICES ASSUME NEW i \in 1..k, NEW u \in 1..(s + i - 1)
              PROVE  \E ev \in S \cup new : ev.epoch = e /\ ev.sequence = u
  BY DEF Signed, NewEvent, Dense
<1>1. CASE u <= s
  BY <1>1 DEF Dense
<1>2. CASE u > s
  <2>1. u - s \in 1..k /\ s + (u - s) = u
    BY <1>2
  <2>2. NewEvent(n, e, s + (u - s), bodies[u - s], n) \in new
    BY <2>1 DEF Signed
  <2>. QED BY <2>1, <2>2 DEF NewEvent
<1>. QED BY <1>1, <1>2

LEMMA AppendNoGaps ==
    ASSUME StoreInv, NoGaps, NEW n \in Node, NEW k \in Nat,
           NEW bodies \in [1..k -> Body], Append(n, bodies, k)
    PROVE  NoGaps'
<1>. DEFINE e == head[n].epoch
            s == head[n].sequence
            new == Signed(n, e, s, bodies, k)
<1>1. /\ e \in Epoch /\ e \in Nat /\ s \in Nat /\ e > 0
      /\ s + k <= MaxSequence
      /\ events' = [events EXCEPT ![n] = @ \cup new]
  BY DEF Append, Appended, Coordinates, StoreInv, Head, Epoch
<1>2. Dense(events[n], e, s)
  BY <1>1, HeadDense
<1>3. new \subseteq Event
  BY <1>1, SignedFacts
<1>4. \A ev \in new : Dense(events[n] \cup new, ev.epoch, ev.sequence - 1)
  BY <1>1, <1>2, SignedDense
<1>. HIDE DEF new
<1>. QED BY <1>1, <1>3, <1>4, ExtendNoGaps

\* The first event of an epoch and those after it.
LEMMA OpeningNoGaps ==
    ASSUME StoreInv, NoGaps, NEW n \in Node, NEW e \in Epoch, NEW k \in Nat,
           k < MaxSequence, NEW bodies \in [1..k -> Body],
           NEW first \in Event, first.epoch = e, first.sequence = 1,
           events' = [events EXCEPT ![n] =
                         @ \cup ({first} \cup Signed(n, e, 1, bodies, k))]
    PROVE  NoGaps'
<1>. DEFINE new == Signed(n, e, 1, bodies, k)
<1>1. Dense({first}, e, 1)
  BY DEF Dense
<1>2. e \in Nat /\ 1 + k <= MaxSequence
  BY Bounds DEF Epoch
<1>3. new \subseteq Event
  BY <1>2, SignedFacts
<1>4. \A ev \in new : Dense({first} \cup new, ev.epoch, ev.sequence - 1)
  BY <1>1, <1>2, SignedDense
<1>. DEFINE all == {first} \cup new
<1>5. \A ev \in all : Dense(events[n] \cup all, ev.epoch, ev.sequence - 1)
  BY <1>4 DEF Dense
<1>6. all \in SUBSET Event /\ events' = [events EXCEPT ![n] = @ \cup all]
  BY <1>3
<1>. HIDE DEF all
<1>. QED BY <1>5, <1>6, ExtendNoGaps

LEMMA IngestNoGaps ==
    ASSUME StoreInv, NoGaps, NEW n \in Node, NEW e \in Epoch, NEW l \in Sequence,
           NEW S \in SUBSET Event, \A ev \in S : ev.epoch = e,
           Acceptable(n, e, l, S), Ingest(n, e, l, S)
    PROVE  NoGaps'
<1>. DEFINE F == Fresh(n, S)
            known == KnownUpTo(n, e)
<1>1. known \in Nat /\ l \in Nat /\ e \in Nat /\ e > 0
  BY Bounds DEF KnownUpTo, StoreInv, Head, Sequence, Epoch
<1>2. Dense(events[n], e, known)
  <2>1. CASE e = head[n].epoch
    BY <2>1, <1>1, HeadDense DEF KnownUpTo
  <2>2. CASE e # head[n].epoch
    BY <2>2 DEF KnownUpTo, Dense
  <2>. QED BY <2>1, <2>2
<1>3. ASSUME NEW ev \in F
      PROVE  Dense(events[n] \cup S, ev.epoch, ev.sequence - 1)
  <2>1. {x.sequence : x \in F} = (known + 1)..l
    BY <1>3 DEF Acceptable, Contiguous
  <2>2. ev.epoch = e /\ ev.sequence \in (known + 1)..l
    BY <2>1 DEF Fresh
  <2>. SUFFICES ASSUME NEW u \in 1..(ev.sequence - 1)
                PROVE  \E x \in events[n] \cup S : x.epoch = e /\ x.sequence = u
    BY <2>2 DEF Dense
  <2>3. CASE u <= known
    BY <2>3, <1>1, <1>2 DEF Dense
  <2>4. CASE u > known
    <3>1. u \in (known + 1)..l
      BY <2>2, <2>4, <1>1
    <3>2. PICK x \in F : x.sequence = u
      BY <3>1, <2>1
    <3>. QED BY <3>2 DEF Fresh
  <2>. QED BY <2>3, <2>4, <1>1
<1>. QED BY <1>3, ExtendNoGaps DEF Ingest, Fresh

LEMMA NextNoGaps ==
    ASSUME LogInv, NoGaps, [Next]_logVars
    PROVE  NoGaps'
<1>1. StoreInv
  BY InvGivesStore
<1>2. UNCHANGED events => NoGaps'
  BY DEF NoGaps
<1>3. ASSUME NEW k \in 0..2, NEW bodies \in Contents(k), Create(bodies, k)
      PROVE  NoGaps'
  <2>1. k \in Nat /\ bodies \in [1..k -> Body]
    BY DEF Contents, Content
  <2>2. A \in Node /\ 1 \in Epoch /\ events[A] = {}
    BY <1>1, <1>3, Bounds DEF Node, Epoch, Create, StoreInv, HeadIsLastEvent
  <2>3. NewEvent(A, 1, 1, Created, A) \in Event
    BY <2>2, Bodies, Bounds DEF NewEvent, Event, Sequence
  <2>4. events' = [events EXCEPT ![A] = @ \cup
                      ({NewEvent(A, 1, 1, Created, A)} \cup Signed(A, 1, 1, bodies, k))]
    BY <1>1, <1>3, <2>2 DEF Create, StoreInv
  <2>5. k < MaxSequence
    BY <1>3 DEF Create
  <2>. QED BY <1>1, <2>1, <2>2, <2>3, <2>4, <2>5, OpeningNoGaps DEF NewEvent
<1>4. ASSUME NEW n \in Node, NEW k \in 1..MaxBatch, NEW bodies \in Contents(k),
             LocalAction(n, bodies, k) \/ RemoteAction(n, bodies, k)
      PROVE  NoGaps'
  BY <1>1, <1>4, AppendNoGaps DEF Contents, Content, LocalAction, RemoteAction
<1>5. ASSUME NEW n \in Node, NEW body \in Content, RecoveryAction(n, body)
      PROVE  NoGaps'
  <2>1. [i \in 1..1 |-> body] \in [1..1 -> Body]
    BY DEF Content
  <2>. QED BY <1>1, <1>5, <2>1, AppendNoGaps DEF RecoveryAction
<1>6. ASSUME NEW n \in Node, NEW k \in 0..MaxBatch, NEW bodies \in Contents(k),
             OpenEpoch(n, bodies, k)
      PROVE  NoGaps'
  <2>. DEFINE e == head[n].epoch + 1
              first == NewEvent(n, e, 1, Changed, head[n].coordinator)
  <2>1. k \in Nat /\ bodies \in [1..k -> Body]
    BY DEF Contents, Content
  <2>2. e \in Epoch /\ k < MaxSequence /\ head[n].coordinator \in Node
    BY <1>1, <1>6 DEF OpenEpoch, StoreInv, Head, Epoch
  <2>3. first \in Event /\ first.epoch = e /\ first.sequence = 1
    BY <2>2, Bodies, Bounds DEF NewEvent, Event, Sequence
  <2>4. events' = [events EXCEPT ![n] =
                      @ \cup ({first} \cup Signed(n, e, 1, bodies, k))]
    BY <1>1, <1>6 DEF OpenEpoch, StoreInv
  <2>. HIDE DEF e, first
  <2>. QED BY <1>1, <2>1, <2>2, <2>3, <2>4, OpeningNoGaps
<1>7. ASSUME NEW m \in pushes, ReceiveEvents(m)
      PROVE  NoGaps'
  <2>1. /\ m \in Push /\ Peer(m.from) \in Node
        /\ m.epoch \in Epoch /\ m.last \in Sequence /\ m.events \in SUBSET Event
        /\ \A ev \in m.events : ev.epoch = m.epoch
    <3>1. m \in Push
      BY DEF LogInv, TypeOK
    <3>. QED BY <3>1, PeerFacts DEF Push, LogInv, NetworkCopies
  <2>. QED BY <1>1, <1>2, <1>7, <2>1, IngestNoGaps DEF ReceiveEvents, store
<1>8. ASSUME NEW r \in ranges, ReceiveRange(r)
      PROVE  NoGaps'
  <2>1. /\ r \in Range /\ r.to \in Node
        /\ r.epoch \in Epoch /\ r.last \in Sequence /\ r.events \in SUBSET Event
        /\ \A ev \in r.events : ev.epoch = r.epoch
    BY DEF LogInv, TypeOK, NetworkCopies, Range
  <2>. QED BY <1>1, <1>2, <1>8, <2>1, IngestNoGaps DEF ReceiveRange, AcceptsRange, store
<1>9. CASE Replicate
  <2>1. \/ \E m \in pushes : ReceiveEvents(m)
        \/ \E r \in ranges : ReceiveRange(r)
        \/ UNCHANGED events
    BY <1>9 DEF Replicate, SyncPush, ReceiveAck, SendPull, ServePull, Lose, store
  <2>. QED BY <2>1, <1>2, <1>7, <1>8
<1>10. ASSUME NEW n \in Node, NEW e \in Epoch, NEW s \in Sequence,
              AckEndpoint(n, e, s)
       PROVE  NoGaps'
  BY <1>10, <1>2 DEF AckEndpoint, store
<1>11. UNCHANGED logVars => UNCHANGED events
  BY DEF logVars
<1>. QED
  BY <1>2, <1>3, <1>4, <1>5, <1>6, <1>9, <1>10, <1>11 DEF Next

-----------------------------------------------------------------------------
\* The invariant holds of every reachable state: in particular the types, the
\* agreement of the head row with the log (events.py 398-413), and that what a
\* peer acknowledged it durably holds (replication.py 96-103, 192-194).
THEOREM LogInvariant == Spec => []LogInv
<1>1. Init => LogInv
  BY InitLogInv
<1>2. LogInv /\ [Next]_logVars => LogInv'
  BY NextLogInv
<1>. QED BY <1>1, <1>2, PTL DEF Spec

\* Type correctness, for any number of epochs, events and exchanges in flight.
THEOREM TypeCorrect == Spec => []TypeOK
<1>1. LogInv => TypeOK
  BY DEF LogInv
<1>. QED BY <1>1, LogInvariant, PTL

\* Acknowledgement is honest: no cursor is ever ahead of the peer's store, on
\* which the fencing of coordinators by leases depends (failover.py 106-111).
THEOREM AcknowledgedIsDurable == Spec => []AckedIsHeld
<1>1. LogInv => AckedIsHeld
  BY DEF LogInv
<1>. QED BY <1>1, LogInvariant, PTL

\* The two participants never hold different events at one position of one
\* epoch, whatever the network does and whoever coordinated when.
THEOREM Agreement == Spec => []LogAgreement
<1>1. LogInv => LogAgreement
  <2>. SUFFICES ASSUME LogInv, NEW m \in Node, NEW n \in Node,
                       NEW x \in events[m], NEW y \in events[n],
                       x.epoch = y.epoch, x.sequence = y.sequence
                PROVE  x = y
    BY DEF LogAgreement
  <2>1. x \in Event /\ y \in Event
    BY DEF LogInv, TypeOK
  <2>2. x.coordinator = y.coordinator /\ x.coordinator \in Node
    BY <2>1 DEF LogInv, OwnedEpochs, Event
  <2>3. x \in events[x.coordinator] /\ y \in events[x.coordinator]
    BY <2>2 DEF LogInv, CoordinatorHoldsAll
  <2>. QED BY <2>2, <2>3 DEF LogInv, OwnPositionsUnique
<1>. QED BY <1>1, LogInvariant, PTL

\* A participant never holds an event its author does not hold: nothing is
\* replicated before it is committed (dialogue.py appends before app.py pushes).
THEOREM AuthorHoldsAll == Spec => []CoordinatorHoldsAll
<1>1. LogInv => CoordinatorHoldsAll
  BY DEF LogInv
<1>. QED BY <1>1, LogInvariant, PTL

\* A log has no holes, whatever order batches arrived in (events.py 352-378).
THEOREM Unbroken == Spec => []NoGaps
<1>1. Init => NoGaps
  BY DEF Init, NoGaps
<1>2. LogInv /\ NoGaps /\ [Next]_logVars => NoGaps'
  BY NextNoGaps
<1>. QED BY <1>1, <1>2, LogInvariant, PTL DEF Spec

\* No step rewrites history or moves a head back.
THEOREM History == Spec => HistoryImmutable
<1>1. LogInv /\ [Next]_logVars =>
        [\A n \in Node :
            /\ events[n] \subseteq events'[n]
            /\ \/ head'[n].epoch > head[n].epoch
               \/ /\ head'[n].epoch = head[n].epoch
                  /\ head'[n].sequence >= head[n].sequence]_logVars
  BY NextLogInv DEF Advances, Grows
<1>. QED BY <1>1, LogInvariant, PTL DEF Spec, HistoryImmutable

\* What a node holds of an epoch it has left never changes again: the events a
\* deposed coordinator signs can no longer reach it (events.py 350-351).
THEOREM Sealed == Spec => EpochSealed
<1>1. LogInv /\ [Next]_logVars =>
        [\A n \in Node : \A ev \in events'[n] :
            ev.epoch < head[n].epoch => ev \in events[n]]_logVars
  BY NextLogInv DEF Advances
<1>. QED BY <1>1, LogInvariant, PTL DEF Spec, EpochSealed
=============================================================================
