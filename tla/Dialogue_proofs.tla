-------------------------- MODULE Dialogue_proofs --------------------------
(***************************************************************************)
(* The federated dialogue, for any number of rounds, claims, recoveries,   *)
(* crashes and changes of coordinator.  Of every behaviour: the types, who *)
(* writes in which epoch, and that nobody completes the dialogue alone.    *)
(* Until a stale reopening or a blind takeover: every log is one that the  *)
(* protocol allows to be written, event by event, and so is what a handler *)
(* has yet to append to it.                                                *)
(***************************************************************************)
EXTENDS Dialogue, SequenceTheorems, WellFoundedInduction, TLAPS

Replied == [by : Node, round : 1..MaxRounds, slot : 0..2, result : Result]

Status == {"unknown", "active", "completed", "blocked", "error"}

ViewType == [status : Status, valid : BOOLEAN, id : Id,
             turn : Turns \cup {NoTurn}, claimed : BOOLEAN,
             proposal : Turns \cup {NoTurn}, replies : Seq(Replied)]

TurnOf(reply) == Turn(reply.by, reply.round, reply.slot)

\* A confirmation answers a proposal of the other node.
ConfirmsProposal(h) ==
    \A k \in 1..Len(h) : h[k].slot = 0 =>
        /\ k > 1
        /\ h[k - 1].result = "complete" /\ h[k - 1].slot # 0
        /\ h[k - 1].by # h[k].by

\* The turn is the one that the replies of the view call for; a confirmation
\* is of the proposal that was the last reply.
Due(view, turn) ==
    /\ V1!Outcome(view.replies) = "active"
    /\ turn = V1!TurnAfter(view.replies)
    /\ turn.slot = 0 => view.proposal = TurnOf(V1!Last(view.replies))

\* What the projection of a log is.  The id of a turn tells how many replies come
\* before it.
Good(view) ==
    /\ view \in ViewType /\ view.valid
    /\ ConfirmsProposal(view.replies)
    /\ IF view.turn = NoTurn THEN view.id[2] <= Len(view.replies)
       ELSE view.id[2] = Len(view.replies) + 1
    /\ view.status = "unknown" => view = EmptyView
    /\ view.turn # NoTurn => view.status = "active" /\ Due(view, view.turn)
    /\ view.status \notin {"unknown", "active"} =>
          /\ view.turn = NoTurn
          /\ view.status = V1!Outcome(view.replies)

\* When an event may be appended to a log, after what view shows.
Legal(view, ev) ==
    /\ ev.type = "created" => view.status = "unknown"
    /\ ev.type = "opened" =>
          /\ view.status = "active" /\ Due(view, ev.turn)
          /\ ev.id[2] = Len(view.replies) + 1
          /\ view.turn # NoTurn => ev.id = view.id
    /\ ev.type = "claimed" => view.turn # NoTurn /\ ev.id = view.id
    /\ ev.type = "recorded" =>
          view.turn # NoTurn /\ ev.id = view.id /\ ev.turn = view.turn
    /\ ev.type \in {"proposed", "rejected"} =>
          view.status = "active" /\ view.turn = NoTurn
    /\ ev.type = "ended" =>
          /\ view.status = "active" /\ view.turn = NoTurn
          /\ ev.status = V1!Outcome(view.replies)

\* The projections of the prefixes of a log.
Views(evs) ==
    LET upto[i \in 0..Len(evs)] ==
            IF i = 0 THEN EmptyView ELSE Apply(upto[i - 1], evs[i])
    IN  upto

Sound(evs) ==
    /\ evs \in Seq(Event)
    /\ \A i \in 1..Len(evs) : Legal(Views(evs)[i - 1], evs[i])

\* A log up to the end of an epoch.
Joined(epochs) ==
    LET upto[e \in 0..MaxEpoch] ==
            IF e = 0 THEN <<>> ELSE upto[e - 1] \o epochs[e]
    IN  upto

Logs == [Epoch -> Seq(Event)]

\* A log whose head is in epoch m.
HeadAt(epochs, m) == \A e \in Epoch : e > m => epochs[e] = <<>>

-----------------------------------------------------------------------------
(* The inductive invariant.                                                 *)

\* The nodes are at most one epoch apart; the one that is behind was the
\* coordinator of its epoch and has nothing left to append.
Heads ==
    \A n \in Node :
        /\ HeadAt(log[n], epoch[n])
        /\ epoch[n] <= epoch[Peer(n)] + 1
        /\ epoch[n] > epoch[Peer(n)] => Owner(epoch[n]) = n /\ pending[Peer(n)] = <<>>
        /\ pending[n] # <<>> => Coordinates(n)

\* A supervisor writes in an epoch of its own node.
Recovering ==
    \A n \in Node : recovery[n] # <<>> =>
        /\ recovery[n][1] <= epoch[n] /\ Owner(recovery[n][1]) = n
        /\ recovery[n][2].type = "opened"

\* What a node holds, with what its handler is about to append.
Records == \A n \in Node : Sound(History(n) \o pending[n])

\* Before its epoch the coordinator holds what its peer holds, but for the
\* recoveries that the peer may still append there.
BasesAgree ==
    \A n \in Node : MayAct(n) =>
        Similar(Project(Joined(log[n])[epoch[n] - 1]),
                Project(Joined(log[Peer(n)])[epoch[n] - 1]))

\* Of every behaviour, and of the ones that have not strayed.
Always == TypeOK /\ Heads /\ Recovering
Admitted == Records /\ BasesAgree

DialogueInv == Always /\ (strayed \/ Admitted)

\* Who has agreed that the dialogue is complete, as a set of events shows.
Events(evs) == {evs[i] : i \in DOMAIN evs}
Held(epochs) == UNION {Events(epochs[e]) : e \in Epoch}
Agreeing(S, turn) ==
    \E ev \in S : ev.type = "recorded" /\ ev.turn = turn /\ ev.result = "complete"
Agreed(S) ==
    \A p \in Node : \E ev \in S :
        ev.type = "recorded" /\ ev.turn.by = p /\ ev.result = "complete"

\* A proposal has its reply in the epoch in which it is made; a completion has
\* replies of both nodes in what the coordinator that writes it holds.
ProposalsBacked(n) ==
    \A e \in Epoch : \A ev \in Events(log[n][e]) :
        ev.type = "proposed" => Agreeing(Events(log[n][e]), ev.turn)
CompletionsBacked(n) ==
    \A e \in Epoch : (Owner(e) = n /\ Ended("completed") \in Events(log[n][e])) =>
        Agreed(Held(log[n]))
QueueBacked(q, here, held) ==
    \A k \in 1..Len(q) :
        LET before == {q[j] : j \in 1..(k - 1)} IN
        /\ q[k].type = "proposed" => Agreeing(here \cup before, q[k].turn)
        /\ q[k] = Ended("completed") => Agreed(held \cup before)
PendingBacked(n) ==
    QueueBacked(pending[n], Events(log[n][epoch[n]]), Held(log[n]))

\* What a node holds of its peer's epochs, the peer holds.
Learnt(n) ==
    \A e \in Epoch : Owner(e) # n => Events(log[n][e]) \subseteq Events(log[Peer(n)][e])

HeldBacked ==
    \A n \in Node : ProposalsBacked(n) /\ CompletionsBacked(n) /\ Learnt(n)
QueuesBacked == \A n \in Node : PendingBacked(n)
Backed == HeldBacked /\ QueuesBacked


-----------------------------------------------------------------------------
(* Induction over an interval, as a fact about sets.                        *)

LEMMA NatSetInduction ==
    ASSUME NEW S, 0 \in S, \A n \in Nat : n \in S => n + 1 \in S
    PROVE  Nat \subseteq S
<1>. DEFINE R == OpToRel(<, Nat)
            T == Nat \ S
<1>1. IsWellFoundedOn(R, Nat)
  BY NatLessThanWellFounded, Zenon
<1>2. \A x, y \in Nat : y < x => <<y, x>> \in R
  BY DEF OpToRel
<1>. HIDE DEF R
<1>3. SUFFICES ASSUME T # {} PROVE FALSE
  OBVIOUS
<1>4. \E x \in T : \A y \in T : ~ (<<y, x>> \in R)
  BY <1>1, <1>3, WFMin
<1>5. PICK x \in T : \A y \in T : ~ (<<y, x>> \in R)
  BY <1>4
<1>6. x \in Nat /\ x # 0 /\ x - 1 \in Nat /\ x - 1 < x /\ (x - 1) + 1 = x
  OBVIOUS
<1>7. x - 1 \in S
  BY <1>2, <1>5, <1>6
<1>. QED BY <1>6, <1>7

LEMMA IntervalInduction ==
    ASSUME NEW k \in Nat, NEW m \in Nat, NEW S,
           k \in S, \A i \in k..(m - 1) : i \in S => i + 1 \in S
    PROVE  k..m \subseteq S
<1>. DEFINE T == {n \in Nat : k + n <= m => k + n \in S}
<1>1. 0 \in T
  OBVIOUS
<1>2. \A n \in Nat : n \in T => n + 1 \in T
  <2>. SUFFICES ASSUME NEW n \in Nat, n \in T, k + (n + 1) <= m
                PROVE  k + (n + 1) \in S
    OBVIOUS
  <2>1. k + n \in S /\ k + n \in k..(m - 1) /\ (k + n) + 1 = k + (n + 1)
    OBVIOUS
  <2>. QED BY <2>1
<1>. HIDE DEF T
<1>3. Nat \subseteq T
  BY <1>1, <1>2, NatSetInduction
<1>4. ASSUME NEW i \in k..m PROVE i \in S
  <2>1. i - k \in Nat /\ k + (i - k) = i /\ i <= m
    BY <1>4
  <2>2. i - k \in T
    BY <1>3, <2>1
  <2>. QED BY <2>1, <2>2 DEF T
<1>. QED BY <1>4

-----------------------------------------------------------------------------
(* The recursive functions of the model are defined, and satisfy the        *)
(* equations that define them.                                              *)

IsViews(f, evs, m) ==
    f = [i \in 0..m |-> IF i = 0 THEN EmptyView ELSE Apply(f[i - 1], evs[i])]

LEMMA ViewsExist ==
    ASSUME NEW evs, NEW m \in Nat
    PROVE  \E f : IsViews(f, evs, m)
<1>. DEFINE T == {n \in Nat : \E f : IsViews(f, evs, n)}
<1>1. 0 \in T
  <2>1. IsViews([i \in 0..0 |-> EmptyView], evs, 0)
    BY DEF IsViews
  <2>. QED BY <2>1
<1>2. ASSUME NEW n \in Nat, n \in T PROVE n + 1 \in T
  <2>1. PICK f : IsViews(f, evs, n)
    BY <1>2
  <2>. DEFINE g == [i \in 0..(n + 1) |->
                      IF i = n + 1 THEN Apply(f[n], evs[n + 1]) ELSE f[i]]
  <2>2. ASSUME NEW i \in 0..(n + 1)
        PROVE  g[i] = IF i = 0 THEN EmptyView ELSE Apply(g[i - 1], evs[i])
    <3>1. CASE i = 0
      BY <2>1, <3>1 DEF IsViews
    <3>2. CASE i \in 1..n
      <4>1. i \in 0..n /\ i - 1 \in 0..n /\ i # n + 1 /\ i - 1 # n + 1 /\ i # 0
            /\ i - 1 \in 0..(n + 1)
        BY <3>2
      <4>2. g[i] = f[i] /\ g[i - 1] = f[i - 1]
        BY <4>1
      <4>3. f[i] = Apply(f[i - 1], evs[i])
        BY <2>1, <4>1 DEF IsViews
      <4>. QED BY <4>1, <4>2, <4>3
    <3>3. CASE i = n + 1
      <4>1. i - 1 = n /\ n \in 0..(n + 1) /\ n # n + 1 /\ i # 0
        BY <3>3
      <4>2. g[i] = Apply(f[n], evs[n + 1]) /\ g[i - 1] = f[n]
        BY <3>3, <4>1
      <4>. QED BY <3>3, <4>1, <4>2
    <3>. QED BY <3>1, <3>2, <3>3
  <2>3. IsViews(g, evs, n + 1)
    BY <2>2, Zenon DEF IsViews
  <2>. QED BY <2>3
<1>. HIDE DEF T
<1>3. Nat \subseteq T
  BY <1>1, <1>2, NatSetInduction
<1>. QED BY <1>3 DEF T

\* The projection of a prefix is that of what comes before it, and one event.
LEMMA ViewsDef ==
    ASSUME NEW evs, Len(evs) \in Nat
    PROVE  /\ DOMAIN Views(evs) = 0..Len(evs)
           /\ Views(evs)[0] = EmptyView
           /\ \A i \in 1..Len(evs) : Views(evs)[i] = Apply(Views(evs)[i - 1], evs[i])
           /\ Project(evs) = Views(evs)[Len(evs)]
<1>1. Project(evs) = Views(evs)[Len(evs)]
  BY DEF Project, Views
<1>2. \E f : IsViews(f, evs, Len(evs))
  BY ViewsExist
<1>3. IsViews(Views(evs), evs, Len(evs))
  BY <1>2 DEF IsViews, Views
<1>4. ASSUME NEW i \in 1..Len(evs)
      PROVE  Views(evs)[i] = Apply(Views(evs)[i - 1], evs[i])
  <2>1. i \in 0..Len(evs) /\ i # 0
    BY <1>4
  <2>. QED BY <1>3, <2>1 DEF IsViews
<1>5. 0 \in 0..Len(evs)
  OBVIOUS
<1>6. Views(evs)[0] = EmptyView /\ DOMAIN Views(evs) = 0..Len(evs)
  BY <1>3, <1>5 DEF IsViews
<1>. QED BY <1>1, <1>4, <1>6


\* The reply that an event records, if any.
Replying(ev) ==
    IF ev.type = "recorded" THEN <<Answer(ev.turn, ev.result)>> ELSE <<>>

RepliesUpTo(evs) ==
    LET upto[i \in 0..Len(evs)] ==
            IF i = 0 THEN <<>>
            ELSE upto[i - 1] \o (IF evs[i].type = "recorded"
                                 THEN <<Answer(evs[i].turn, evs[i].result)>>
                                 ELSE <<>>)
    IN  upto

IsReplies(f, evs, m) ==
    f = [i \in 0..m |-> IF i = 0 THEN <<>> ELSE f[i - 1] \o Replying(evs[i])]

LEMMA RepliesExist ==
    ASSUME NEW evs, NEW m \in Nat
    PROVE  \E f : IsReplies(f, evs, m)
<1>. DEFINE T == {n \in Nat : \E f : IsReplies(f, evs, n)}
<1>1. 0 \in T
  <2>1. IsReplies([i \in 0..0 |-> <<>>], evs, 0)
    BY DEF IsReplies
  <2>. QED BY <2>1
<1>2. ASSUME NEW n \in Nat, n \in T PROVE n + 1 \in T
  <2>1. PICK f : IsReplies(f, evs, n)
    BY <1>2
  <2>. DEFINE g == [i \in 0..(n + 1) |->
                      IF i = n + 1 THEN f[n] \o Replying(evs[n + 1]) ELSE f[i]]
  <2>2. ASSUME NEW i \in 0..(n + 1)
        PROVE  g[i] = IF i = 0 THEN <<>> ELSE g[i - 1] \o Replying(evs[i])
    <3>1. CASE i = 0
      BY <2>1, <3>1 DEF IsReplies
    <3>2. CASE i \in 1..n
      <4>1. i \in 0..n /\ i - 1 \in 0..n /\ i # n + 1 /\ i - 1 # n + 1 /\ i # 0
            /\ i - 1 \in 0..(n + 1)
        BY <3>2
      <4>2. g[i] = f[i] /\ g[i - 1] = f[i - 1]
        BY <4>1
      <4>3. f[i] = f[i - 1] \o Replying(evs[i])
        BY <2>1, <4>1 DEF IsReplies
      <4>. QED BY <4>1, <4>2, <4>3
    <3>3. CASE i = n + 1
      <4>1. i - 1 = n /\ n \in 0..(n + 1) /\ n # n + 1 /\ i # 0
        BY <3>3
      <4>2. g[i] = f[n] \o Replying(evs[n + 1]) /\ g[i - 1] = f[n]
        BY <3>3, <4>1
      <4>. QED BY <3>3, <4>1, <4>2
    <3>. QED BY <3>1, <3>2, <3>3
  <2>3. IsReplies(g, evs, n + 1)
    BY <2>2, Zenon DEF IsReplies
  <2>. QED BY <2>3
<1>. HIDE DEF T
<1>3. Nat \subseteq T
  BY <1>1, <1>2, NatSetInduction
<1>. QED BY <1>3 DEF T

LEMMA RepliesDef ==
    ASSUME NEW evs, Len(evs) \in Nat
    PROVE  /\ RepliesUpTo(evs)[0] = <<>>
           /\ \A i \in 1..Len(evs) :
                 RepliesUpTo(evs)[i] = RepliesUpTo(evs)[i - 1] \o Replying(evs[i])
           /\ RepliesIn(evs) = RepliesUpTo(evs)[Len(evs)]
<1>1. RepliesIn(evs) = RepliesUpTo(evs)[Len(evs)]
  BY DEF RepliesIn, RepliesUpTo
<1>2. \E f : IsReplies(f, evs, Len(evs))
  BY RepliesExist
<1>3. IsReplies(RepliesUpTo(evs), evs, Len(evs))
  BY <1>2 DEF IsReplies, RepliesUpTo, Replying
<1>4. ASSUME NEW i \in 1..Len(evs)
      PROVE  RepliesUpTo(evs)[i] = RepliesUpTo(evs)[i - 1] \o Replying(evs[i])
  <2>1. i \in 0..Len(evs) /\ i # 0
    BY <1>4
  <2>. QED BY <1>3, <2>1 DEF IsReplies
<1>5. 0 \in 0..Len(evs)
  OBVIOUS
<1>6. RepliesUpTo(evs)[0] = <<>>
  BY <1>3, <1>5 DEF IsReplies
<1>. QED BY <1>1, <1>4, <1>6

IsJoined(f, epochs, m) ==
    f = [i \in 0..m |-> IF i = 0 THEN <<>> ELSE f[i - 1] \o epochs[i]]

LEMMA JoinedExist ==
    ASSUME NEW epochs, NEW m \in Nat
    PROVE  \E f : IsJoined(f, epochs, m)
<1>. DEFINE T == {n \in Nat : \E f : IsJoined(f, epochs, n)}
<1>1. 0 \in T
  <2>1. IsJoined([i \in 0..0 |-> <<>>], epochs, 0)
    BY DEF IsJoined
  <2>. QED BY <2>1
<1>2. ASSUME NEW n \in Nat, n \in T PROVE n + 1 \in T
  <2>1. PICK f : IsJoined(f, epochs, n)
    BY <1>2
  <2>. DEFINE g == [i \in 0..(n + 1) |->
                      IF i = n + 1 THEN f[n] \o epochs[n + 1] ELSE f[i]]
  <2>2. ASSUME NEW i \in 0..(n + 1)
        PROVE  g[i] = IF i = 0 THEN <<>> ELSE g[i - 1] \o epochs[i]
    <3>1. CASE i = 0
      BY <2>1, <3>1 DEF IsJoined
    <3>2. CASE i \in 1..n
      <4>1. i \in 0..n /\ i - 1 \in 0..n /\ i # n + 1 /\ i - 1 # n + 1 /\ i # 0
            /\ i - 1 \in 0..(n + 1)
        BY <3>2
      <4>2. g[i] = f[i] /\ g[i - 1] = f[i - 1]
        BY <4>1
      <4>3. f[i] = f[i - 1] \o epochs[i]
        BY <2>1, <4>1 DEF IsJoined
      <4>. QED BY <4>1, <4>2, <4>3
    <3>3. CASE i = n + 1
      <4>1. i - 1 = n /\ n \in 0..(n + 1) /\ n # n + 1 /\ i # 0
        BY <3>3
      <4>2. g[i] = f[n] \o epochs[n + 1] /\ g[i - 1] = f[n]
        BY <3>3, <4>1
      <4>. QED BY <3>3, <4>1, <4>2
    <3>. QED BY <3>1, <3>2, <3>3
  <2>3. IsJoined(g, epochs, n + 1)
    BY <2>2, Zenon DEF IsJoined
  <2>. QED BY <2>3
<1>. HIDE DEF T
<1>3. Nat \subseteq T
  BY <1>1, <1>2, NatSetInduction
<1>. QED BY <1>3 DEF T

LEMMA JoinedDef ==
    ASSUME NEW epochs
    PROVE  /\ Joined(epochs)[0] = <<>>
           /\ \A e \in Epoch : Joined(epochs)[e] = Joined(epochs)[e - 1] \o epochs[e]
<1>1. MaxEpoch \in Nat
  BY Limits
<1>2. \E f : IsJoined(f, epochs, MaxEpoch)
  BY <1>1, JoinedExist
<1>3. IsJoined(Joined(epochs), epochs, MaxEpoch)
  BY <1>2 DEF IsJoined, Joined
<1>4. ASSUME NEW e \in Epoch
      PROVE  Joined(epochs)[e] = Joined(epochs)[e - 1] \o epochs[e]
  <2>1. e \in 0..MaxEpoch /\ e # 0
    BY <1>1, <1>4 DEF Epoch
  <2>. QED BY <1>3, <2>1 DEF IsJoined
<1>5. 0 \in 0..MaxEpoch
  BY <1>1
<1>6. Joined(epochs)[0] = <<>>
  BY <1>3, <1>5 DEF IsJoined
<1>. QED BY <1>4, <1>6

LEMMA ListedJoined == ASSUME NEW epochs PROVE Listed(epochs) = Joined(epochs)[MaxEpoch]
BY DEF Listed, Joined

-----------------------------------------------------------------------------
(* Types, and what the projection makes of each event.                      *)

EventType == {"created", "changed", "opened", "claimed", "recorded", "proposed",
              "rejected", "ended"}

LEMMA EventFields ==
    ASSUME NEW ev \in Event
    PROVE  /\ ev.type \in EventType
           /\ ev.type = "opened" => ev.id \in Id /\ ev.turn \in Turns
           /\ ev.type = "claimed" => ev.id \in Id
           /\ ev.type = "recorded" =>
                 ev.id \in Id /\ ev.turn \in Turns /\ ev.result \in Result
           /\ ev.type = "proposed" => ev.turn \in Turns
           /\ ev.type = "ended" => ev.status \in {"completed", "blocked", "error"}
BY DEF Event, EventType

LEMMA EventTypes ==
    /\ Created \in Event /\ Changed \in Event /\ Rejected \in Event
    /\ \A id \in Id : Claimed(id) \in Event
    /\ \A id \in Id : \A turn \in Turns : Opened(id, turn) \in Event
    /\ \A turn \in Turns : Proposed(turn) \in Event
    /\ \A id \in Id : \A turn \in Turns : \A result \in Result :
          Recorded(id, turn, result) \in Event
    /\ \A status \in {"completed", "blocked", "error"} : Ended(status) \in Event
BY DEF Event, Created, Changed, Rejected, Claimed, Opened, Proposed, Recorded, Ended

LEMMA TurnTypes ==
    /\ A \in Node /\ B \in Node /\ A # B
    /\ MaxRounds \in Nat /\ MaxRounds >= 1 /\ MaxEpoch \in Nat /\ MaxEpoch >= 1
    /\ NoTurn \notin Turns
    /\ NoTurn.slot = 0
    /\ \A n \in Node : \A r \in 1..MaxRounds : \A s \in 0..2 :
          /\ Turn(n, r, s) \in Turns /\ V1!Turn(n, r, s) = Turn(n, r, s)
          /\ Turn(n, r, s).by = n /\ Turn(n, r, s).round = r /\ Turn(n, r, s).slot = s
    /\ \A n \in Node : Peer(n) \in Node /\ Peer(n) # n /\ Peer(Peer(n)) = n
                       /\ V1!Other(n) = Peer(n)
    /\ \A n \in Node : \A p \in Node : p # n => p = Peer(n)
    /\ EmptyView \in ViewType
<1>1. MaxRounds \in Nat /\ MaxRounds >= 1 /\ MaxEpoch \in Nat /\ MaxEpoch >= 1
  BY Limits
<1>2. A \in Node /\ B \in Node /\ A # B
  BY Participants DEF Node
<1>3. NoTurn \notin Turns /\ NoTurn.slot = 0
  BY <1>1 DEF NoTurn, Turn, Turns
<1>4. ASSUME NEW n \in Node, NEW r \in 1..MaxRounds, NEW s \in 0..2
      PROVE  /\ Turn(n, r, s) \in Turns /\ V1!Turn(n, r, s) = Turn(n, r, s)
             /\ Turn(n, r, s).by = n /\ Turn(n, r, s).round = r /\ Turn(n, r, s).slot = s
  BY <1>4 DEF Turn, V1!Turn, Turns
<1>5. ASSUME NEW n \in Node
      PROVE  Peer(n) \in Node /\ Peer(n) # n /\ Peer(Peer(n)) = n /\ V1!Other(n) = Peer(n)
  BY Participants DEF Peer, Node, V1!Other
<1>6. ASSUME NEW n \in Node, NEW p \in Node, p # n PROVE p = Peer(n)
  BY Participants, <1>6 DEF Peer, Node
<1>7. EmptyView \in ViewType
  <2>1. <<A, 0>> \in Id
    BY <1>2 DEF Id
  <2>2. <<>> \in Seq(Replied)
    OBVIOUS
  <2>. QED BY <2>1, <2>2 DEF EmptyView, ViewType, NoId, Status
<1>. QED BY <1>1, <1>2, <1>3, <1>4, <1>5, <1>6, <1>7

LEMMA ApplyCreated ==
    ASSUME NEW v, NEW ev, ev.type = "created"
    PROVE  Apply(v, ev) = [v EXCEPT !.status = "active"]
BY Zenon DEF Apply

LEMMA ApplyChanged ==
    ASSUME NEW v, NEW ev, ev.type = "changed" PROVE Apply(v, ev) = v
BY Zenon DEF Apply

LEMMA ApplyOpened ==
    ASSUME NEW v, NEW ev, ev.type = "opened"
    PROVE  Apply(v, ev) = [v EXCEPT !.id = ev.id, !.turn = ev.turn, !.claimed = FALSE]
BY Zenon DEF Apply

LEMMA ApplyClaimed ==
    ASSUME NEW v, NEW ev, ev.type = "claimed", v.turn # NoTurn, v.id = ev.id
    PROVE  Apply(v, ev) = [v EXCEPT !.claimed = TRUE]
BY Zenon DEF Apply

LEMMA ApplyStray ==
    ASSUME NEW v, NEW ev, ev.type = "claimed", v.turn = NoTurn \/ v.id # ev.id
    PROVE  Apply(v, ev) = [v EXCEPT !.valid = FALSE]
BY Zenon DEF Apply

LEMMA ApplyRecorded ==
    ASSUME NEW v, NEW ev, ev.type = "recorded"
    PROVE  Apply(v, ev) = [v EXCEPT !.replies = Append(@, Answer(ev.turn, ev.result)),
                                    !.turn = NoTurn]
BY Zenon DEF Apply

LEMMA ApplyProposed ==
    ASSUME NEW v, NEW ev, ev.type = "proposed"
    PROVE  Apply(v, ev) = [v EXCEPT !.proposal = ev.turn]
BY Zenon DEF Apply

LEMMA ApplyRejected ==
    ASSUME NEW v, NEW ev, ev.type = "rejected"
    PROVE  Apply(v, ev) = [v EXCEPT !.proposal = NoTurn]
BY Zenon DEF Apply

LEMMA ApplyEnded ==
    ASSUME NEW v, NEW ev, ev.type = "ended"
    PROVE  Apply(v, ev) = [v EXCEPT !.status = ev.status, !.turn = NoTurn,
                                    !.proposal = NoTurn]
BY Zenon DEF Apply

LEMMA AnswerType ==
    ASSUME NEW turn \in Turns, NEW result \in Result
    PROVE  /\ Answer(turn, result) \in Replied
           /\ Answer(turn, result) = V1!Answer(turn, result)
           /\ TurnOf(Answer(turn, result)) = turn
           /\ Answer(turn, result).by = turn.by /\ Answer(turn, result).slot = turn.slot
           /\ Answer(turn, result).round = turn.round
           /\ Answer(turn, result).result = result
BY DEF Answer, V1!Answer, Replied, TurnOf, Turn, Turns

\* Every field of the view after an event.
LEMMA ApplyFields ==
    ASSUME NEW v \in ViewType, NEW ev \in Event
    PROVE  LET w == Apply(v, ev) IN
           /\ w \in ViewType
           /\ (ev.type = "claimed" => v.turn # NoTurn /\ v.id = ev.id) => w.valid = v.valid
           /\ w.status = IF ev.type = "created" THEN "active"
                         ELSE IF ev.type = "ended" THEN ev.status ELSE v.status
           /\ w.id = IF ev.type = "opened" THEN ev.id ELSE v.id
           /\ w.turn = IF ev.type = "opened" THEN ev.turn
                       ELSE IF ev.type \in {"recorded", "ended"} THEN NoTurn ELSE v.turn
           /\ w.proposal = IF ev.type = "proposed" THEN ev.turn
                           ELSE IF ev.type \in {"rejected", "ended"} THEN NoTurn
                           ELSE v.proposal
           /\ w.replies = IF ev.type = "recorded"
                          THEN Append(v.replies, Answer(ev.turn, ev.result))
                          ELSE v.replies
<1>1. ev.type \in EventType
  BY EventFields
<1>2. CASE ev.type = "created"
  BY <1>2, ApplyCreated DEF ViewType, Status
<1>3. CASE ev.type = "changed"
  BY <1>3, ApplyChanged DEF ViewType
<1>4. CASE ev.type = "opened"
  <2>1. ev.id \in Id /\ ev.turn \in Turns
    BY <1>4, EventFields
  <2>2. Apply(v, ev) = [v EXCEPT !.id = ev.id, !.turn = ev.turn, !.claimed = FALSE]
    BY <1>4, ApplyOpened, Zenon
  <2>3. LET w == Apply(v, ev) IN
        /\ w \in ViewType /\ w.valid = v.valid /\ w.status = v.status /\ w.id = ev.id
        /\ w.turn = ev.turn /\ w.proposal = v.proposal /\ w.replies = v.replies
    BY <2>1, <2>2 DEF ViewType
  <2>. QED BY <1>4, <2>3
<1>5. CASE ev.type = "claimed"
  <2>1. CASE v.turn # NoTurn /\ v.id = ev.id
    <3>1. Apply(v, ev) = [v EXCEPT !.claimed = TRUE]
      BY <1>5, <2>1, ApplyClaimed, Zenon
    <3>2. LET w == Apply(v, ev) IN
          /\ w \in ViewType /\ w.valid = v.valid /\ w.status = v.status /\ w.id = v.id
          /\ w.turn = v.turn /\ w.proposal = v.proposal /\ w.replies = v.replies
      BY <3>1 DEF ViewType
    <3>. QED BY <1>5, <3>2
  <2>2. CASE ~ (v.turn # NoTurn /\ v.id = ev.id)
    <3>1. Apply(v, ev) = [v EXCEPT !.valid = FALSE]
      BY <1>5, <2>2, ApplyStray, Zenon
    <3>2. LET w == Apply(v, ev) IN
          /\ w \in ViewType /\ w.status = v.status /\ w.id = v.id
          /\ w.turn = v.turn /\ w.proposal = v.proposal /\ w.replies = v.replies
      BY <3>1 DEF ViewType
    <3>. QED BY <1>5, <2>2, <3>2
  <2>. QED BY <2>1, <2>2
<1>6. CASE ev.type = "recorded"
  <2>1. ev.turn \in Turns /\ ev.result \in Result
    BY <1>6, EventFields
  <2>2. Answer(ev.turn, ev.result) \in Replied
    BY <2>1, AnswerType
  <2>3. v.replies \in Seq(Replied)
    BY DEF ViewType
  <2>4. PICK h : h = Append(v.replies, Answer(ev.turn, ev.result))
    OBVIOUS
  <2>5. h \in Seq(Replied)
    BY <2>2, <2>3, <2>4
  <2>6. Apply(v, ev) = [v EXCEPT !.replies = h, !.turn = NoTurn]
    BY <1>6, <2>4, ApplyRecorded, Zenon
  <2>7. LET w == Apply(v, ev) IN
        /\ w \in ViewType /\ w.valid = v.valid /\ w.status = v.status /\ w.id = v.id
        /\ w.turn = NoTurn /\ w.proposal = v.proposal /\ w.replies = h
    BY <2>5, <2>6 DEF ViewType
  <2>8. ev.type \notin {"created", "ended", "opened", "proposed", "rejected"}
    BY <1>6
  <2>. QED BY <1>6, <2>4, <2>7, <2>8
<1>7. CASE ev.type = "proposed"
  <2>1. ev.turn \in Turns
    BY <1>7, EventFields
  <2>. QED BY <1>7, <2>1, ApplyProposed DEF ViewType
<1>8. CASE ev.type = "rejected"
  BY <1>8, ApplyRejected DEF ViewType
<1>9. CASE ev.type = "ended"
  <2>1. ev.status \in {"completed", "blocked", "error"}
    BY <1>9, EventFields
  <2>2. Apply(v, ev) = [v EXCEPT !.status = ev.status, !.turn = NoTurn,
                                 !.proposal = NoTurn]
    BY <1>9, ApplyEnded, Zenon
  <2>3. LET w == Apply(v, ev) IN
        /\ w \in ViewType /\ w.valid = v.valid /\ w.status = ev.status /\ w.id = v.id
        /\ w.turn = NoTurn /\ w.proposal = NoTurn /\ w.replies = v.replies
    BY <2>1, <2>2 DEF ViewType, Status
  <2>. QED BY <1>9, <2>3
<1>. QED BY <1>1, <1>2, <1>3, <1>4, <1>5, <1>6, <1>7, <1>8, <1>9 DEF EventType

-----------------------------------------------------------------------------
(* The protocol, case by case.                                              *)

LEMMA NoReplies ==
    /\ V1!Outcome(<<>>) = "active"
    /\ V1!TurnAfter(<<>>) = Turn(A, 1, 1)
<1>1. V1!Turn(A, 1, 1) = Turn(A, 1, 1)
  BY DEF V1!Turn, Turn
<1>. QED BY <1>1, Zenon DEF V1!Outcome, V1!TurnAfter

LEMMA OutcomeCases ==
    ASSUME NEW h, h # <<>>
    PROVE  LET last == V1!Last(h) IN
           /\ last.result \in {"blocked", "error"} => V1!Outcome(h) = last.result
           /\ last.result = "complete" =>
                 V1!Outcome(h) = IF last.slot = 0 THEN "completed" ELSE "active"
           /\ last.result = "continue" =>
                 V1!Outcome(h) = IF last.slot # 1 /\ V1!Answered(h).round >= MaxRounds
                                 THEN "blocked" ELSE "active"
<1>. DEFINE last == V1!Last(h)
<1>1. last.result = "complete" =>
          V1!Outcome(h) = IF last.slot = 0 THEN "completed" ELSE "active"
  BY Zenon DEF V1!Outcome
<1>2. last.result = "continue" =>
          V1!Outcome(h) = IF last.slot # 1 /\ V1!Answered(h).round >= MaxRounds
                          THEN "blocked" ELSE "active"
  BY Zenon DEF V1!Outcome
<1>3. last.result \in {"blocked", "error"} => V1!Outcome(h) = last.result
  BY Zenon DEF V1!Outcome
<1>. QED BY <1>1, <1>2, <1>3

LEMMA TurnAfterCases ==
    ASSUME NEW h, h # <<>>
    PROVE  LET last == V1!Last(h)
               r == V1!Answered(h).round
               s == V1!Answered(h).slot
           IN  IF last.result = "complete"
               THEN V1!TurnAfter(h) = V1!Turn(V1!Other(last.by), r, 0)
               ELSE /\ last.slot = 1 => V1!TurnAfter(h) = V1!Turn(B, r, 2)
                    /\ last.slot = 2 => V1!TurnAfter(h) = V1!Turn(A, r + 1, 1)
                    /\ (last.slot = 0 /\ s = 1) =>
                          V1!TurnAfter(h) = V1!Turn(A, r + 1, 1)
                    /\ (last.slot = 0 /\ s = 2) =>
                          V1!TurnAfter(h) = V1!Turn(B, r + 1, 2)
<1>1. 1 # 2 /\ 1 # 0 /\ 2 # 0
  OBVIOUS
<1>2. CASE V1!Last(h).result = "complete"
  BY <1>2, Zenon DEF V1!TurnAfter
<1>3. CASE V1!Last(h).result # "complete"
  <2>1. CASE V1!Last(h).slot = 1
    BY <1>1, <1>3, <2>1, Zenon DEF V1!TurnAfter
  <2>2. CASE V1!Last(h).slot = 2
    BY <1>1, <1>3, <2>2, Zenon DEF V1!TurnAfter
  <2>3. CASE V1!Last(h).slot = 0
    BY <1>1, <1>3, <2>3, Zenon DEF V1!TurnAfter
  <2>. QED BY <1>3, <2>1, <2>2, <2>3, Zenon
<1>. QED BY <1>2, <1>3, Zenon

\* The last two replies after one more.
LEMMA LastAfter ==
    ASSUME NEW h \in Seq(Replied), NEW r \in Replied
    PROVE  LET g == Append(h, r) IN
           /\ g \in Seq(Replied) /\ g # <<>> /\ Len(g) = Len(h) + 1
           /\ V1!Last(g) = r
           /\ r.slot # 0 => V1!Answered(g) = r
           /\ (r.slot = 0 /\ Len(h) > 0) => V1!Answered(g) = h[Len(h)]
           /\ \A k \in 1..Len(h) : g[k] = h[k]
<1>. PICK g : g = Append(h, r)
  OBVIOUS
<1>1. Len(h) \in Nat /\ g \in Seq(Replied) /\ Len(g) = Len(h) + 1 /\ g[Len(h) + 1] = r
      /\ \A k \in 1..Len(h) : g[k] = h[k]
  OBVIOUS
<1>2. g # <<>>
  BY <1>1
<1>3. V1!Last(g) = r
  BY <1>1 DEF V1!Last
<1>4. r.slot # 0 => V1!Answered(g) = r
  BY <1>3 DEF V1!Answered
<1>5. ASSUME r.slot = 0, Len(h) > 0 PROVE V1!Answered(g) = h[Len(h)]
  <2>1. V1!Answered(g) = g[Len(g) - 1] /\ Len(g) - 1 = Len(h)
    BY <1>1, <1>3, <1>5 DEF V1!Answered
  <2>2. Len(h) \in 1..Len(h)
    BY <1>1, <1>5
  <2>. QED BY <1>1, <2>1, <2>2
<1>. QED BY <1>1, <1>2, <1>3, <1>4, <1>5

LEMMA LastReply ==
    ASSUME NEW h \in Seq(Replied), h # <<>>
    PROVE  /\ Len(h) \in Nat /\ Len(h) \in 1..Len(h)
           /\ V1!Last(h) = h[Len(h)] /\ V1!Last(h) \in Replied
           /\ ConfirmsProposal(h) =>
                 /\ V1!Answered(h) \in Replied /\ V1!Answered(h).slot # 0
<1>1. Len(h) \in Nat /\ Len(h) \in 1..Len(h) /\ h[Len(h)] \in Replied
  OBVIOUS
<1>2. V1!Last(h) = h[Len(h)]
  BY DEF V1!Last
<1>3. ASSUME ConfirmsProposal(h)
      PROVE  V1!Answered(h) \in Replied /\ V1!Answered(h).slot # 0
  <2>1. CASE V1!Last(h).slot = 0
    <3>1. Len(h) > 1 /\ h[Len(h) - 1].slot # 0
      BY <1>1, <1>2, <1>3, <2>1 DEF ConfirmsProposal
    <3>2. Len(h) - 1 \in 1..Len(h)
      BY <1>1, <3>1
    <3>3. h[Len(h) - 1] \in Replied
      BY <3>2
    <3>. QED BY <2>1, <3>1, <3>3 DEF V1!Answered
  <2>2. CASE V1!Last(h).slot # 0
    BY <1>1, <1>2, <2>2 DEF V1!Answered
  <2>. QED BY <2>1, <2>2
<1>. QED BY <1>1, <1>2, <1>3

\* An extra turn is for the other node to confirm the last reply, a proposal.
LEMMA DueConfirmation ==
    ASSUME NEW h \in Seq(Replied), ConfirmsProposal(h),
           V1!Outcome(h) = "active", V1!TurnAfter(h).slot = 0
    PROVE  /\ h # <<>> /\ V1!Last(h).result = "complete" /\ V1!Last(h).slot # 0
           /\ V1!TurnAfter(h) = Turn(Peer(V1!Last(h).by), V1!Last(h).round, 0)
           /\ V1!TurnAfter(h).by # V1!Last(h).by
<1>. DEFINE last == V1!Last(h)
            s == V1!Answered(h).slot
<1>1. h # <<>>
  <2>1. Turn(A, 1, 1).slot # 0
    BY DEF Turn
  <2>. QED BY <2>1, NoReplies
<1>2. last \in Replied /\ V1!Answered(h) \in Replied /\ s # 0
  BY <1>1, LastReply
<1>3. last.slot \in 0..2 /\ s \in 0..2 /\ last.by \in Node
  BY <1>2 DEF Replied
<1>4. last.slot \in {0, 1, 2} /\ s \in {1, 2}
  BY <1>2, <1>3
<1>5. \A n, r, k : V1!Turn(n, r, k).slot = k
  BY DEF V1!Turn
<1>6. last.result = "complete"
  <2>. SUFFICES ASSUME last.result # "complete" PROVE FALSE
    OBVIOUS
  <2>1. V1!TurnAfter(h).slot \in {1, 2}
    BY <1>1, <1>4, <1>5, TurnAfterCases
  <2>. QED BY <2>1
<1>7. last.slot # 0
  BY <1>1, <1>6, OutcomeCases
<1>8. V1!Answered(h) = last
  BY <1>7 DEF V1!Answered
<1>9. V1!TurnAfter(h) = V1!Turn(V1!Other(last.by), last.round, 0)
  BY <1>1, <1>6, <1>8, TurnAfterCases
<1>10. V1!Other(last.by) = Peer(last.by) /\ Peer(last.by) # last.by
  BY <1>3, TurnTypes
<1>11. V1!TurnAfter(h) = Turn(Peer(last.by), last.round, 0)
  BY <1>9, <1>10 DEF V1!Turn, Turn
<1>. QED BY <1>1, <1>6, <1>7, <1>10, <1>11 DEF Turn

LEMMA ConfirmsAppend ==
    ASSUME NEW h \in Seq(Replied), ConfirmsProposal(h), NEW r \in Replied,
           r.slot = 0 => /\ h # <<>>
                         /\ V1!Last(h).result = "complete" /\ V1!Last(h).slot # 0
                         /\ V1!Last(h).by # r.by
    PROVE  ConfirmsProposal(Append(h, r))
<1>. PICK g : g = Append(h, r)
  OBVIOUS
<1>1. Len(h) \in Nat /\ Len(g) = Len(h) + 1 /\ g[Len(h) + 1] = r
      /\ \A k \in 1..Len(h) : g[k] = h[k]
  OBVIOUS
<1>2. SUFFICES ASSUME NEW k \in 1..Len(g), g[k].slot = 0
               PROVE  /\ k > 1
                      /\ g[k - 1].result = "complete" /\ g[k - 1].slot # 0
                      /\ g[k - 1].by # g[k].by
  BY DEF ConfirmsProposal
<1>3. CASE k \in 1..Len(h)
  <2>1. h[k].slot = 0
    BY <1>1, <1>2, <1>3
  <2>2. /\ k > 1 /\ h[k - 1].result = "complete" /\ h[k - 1].slot # 0
        /\ h[k - 1].by # h[k].by
    BY <1>3, <2>1 DEF ConfirmsProposal
  <2>3. k - 1 \in 1..Len(h)
    BY <1>1, <1>3, <2>2
  <2>. QED BY <1>1, <1>3, <2>2, <2>3
<1>4. CASE k = Len(h) + 1
  <2>1. r.slot = 0
    BY <1>1, <1>2, <1>4
  <2>2. Len(h) \in 1..Len(h) /\ V1!Last(h) = h[Len(h)]
    BY <2>1, LastReply
  <2>3. k - 1 = Len(h) /\ k > 1 /\ g[k - 1] = h[Len(h)] /\ g[k] = r
    BY <1>1, <1>4, <2>2
  <2>. QED BY <2>1, <2>2, <2>3
<1>5. k \in 1..Len(h) \/ k = Len(h) + 1
  BY <1>1, <1>2
<1>. QED BY <1>3, <1>4, <1>5

-----------------------------------------------------------------------------
(* A legal event keeps the projection good.                                 *)

LEMMA StepGood ==
    ASSUME NEW v, Good(v), NEW ev \in Event, Legal(v, ev)
    PROVE  Good(Apply(v, ev))
<1>. DEFINE w == Apply(v, ev)
<1>. PICK n : n = Len(v.replies)
  OBVIOUS
<1>1. /\ v \in ViewType /\ v.id \in Id /\ v.turn \in Turns \cup {NoTurn}
      /\ v.status \in Status /\ v.replies \in Seq(Replied) /\ n \in Nat
      /\ v.id[2] \in Nat
      /\ IF v.turn = NoTurn THEN v.id[2] <= n ELSE v.id[2] = n + 1
  <2>1. v \in ViewType /\ IF v.turn = NoTurn THEN v.id[2] <= n ELSE v.id[2] = n + 1
    BY DEF Good
  <2>2. v.id \in Id /\ v.turn \in Turns \cup {NoTurn} /\ v.status \in Status
        /\ v.replies \in Seq(Replied)
    BY <2>1 DEF ViewType
  <2>3. v.id[2] \in Nat /\ n \in Nat
    BY <2>2 DEF Id
  <2>. QED BY <2>1, <2>2, <2>3
<1>2. ev.type = "claimed" => v.turn # NoTurn /\ v.id = ev.id
  BY DEF Legal
<1>3. /\ w \in ViewType /\ w.valid = v.valid
      /\ w.status = IF ev.type = "created" THEN "active"
                    ELSE IF ev.type = "ended" THEN ev.status ELSE v.status
      /\ w.id = IF ev.type = "opened" THEN ev.id ELSE v.id
      /\ w.turn = IF ev.type = "opened" THEN ev.turn
                  ELSE IF ev.type \in {"recorded", "ended"} THEN NoTurn ELSE v.turn
      /\ w.proposal = IF ev.type = "proposed" THEN ev.turn
                      ELSE IF ev.type \in {"rejected", "ended"} THEN NoTurn
                      ELSE v.proposal
      /\ w.replies = IF ev.type = "recorded"
                     THEN Append(v.replies, Answer(ev.turn, ev.result))
                     ELSE v.replies
  BY <1>1, <1>2, ApplyFields
<1>. SUFFICES Good(w)
  OBVIOUS
<1>. HIDE DEF w
<1>4. w.valid
  BY <1>3 DEF Good
<1>5. IF w.turn = NoTurn THEN w.id[2] <= Len(w.replies)
      ELSE w.id[2] = Len(w.replies) + 1
  <2>1. CASE ev.type = "opened"
    <3>1. ev.id[2] = n + 1 /\ ev.turn \in Turns
      BY <2>1, EventFields DEF Legal
    <3>2. w.turn # NoTurn /\ w.id[2] = n + 1 /\ w.replies = v.replies
      BY <1>3, <2>1, <3>1, TurnTypes
    <3>. QED BY <3>2
  <2>2. CASE ev.type = "recorded"
    <3>. PICK r : r = Answer(ev.turn, ev.result)
      OBVIOUS
    <3>1. w.turn = NoTurn /\ w.id = v.id /\ w.replies = Append(v.replies, r)
      BY <1>3, <2>2
    <3>2. Len(w.replies) = n + 1
      BY <1>1, <3>1
    <3>. QED BY <1>1, <3>1, <3>2
  <2>3. CASE ev.type = "ended"
    <3>1. v.turn = NoTurn /\ w.turn = NoTurn /\ w.id = v.id /\ w.replies = v.replies
      BY <1>3, <2>3 DEF Legal
    <3>. QED BY <1>1, <3>1
  <2>4. CASE ev.type \notin {"opened", "recorded", "ended"}
    <3>1. w.turn = v.turn /\ w.id = v.id /\ w.replies = v.replies
      BY <1>3, <2>4
    <3>. QED BY <1>1, <3>1
  <2>. QED BY <2>1, <2>2, <2>3, <2>4
<1>6. CASE ev.type = "created"
  <2>1. v.status = "unknown"
    BY <1>6 DEF Legal
  <2>2. v.turn = NoTurn /\ v.replies = <<>>
    BY <2>1 DEF Good, EmptyView
  <2>3. w.status = "active" /\ w.turn = NoTurn /\ w.replies = v.replies
    BY <1>3, <1>6, <2>2
  <2>. QED BY <1>3, <1>4, <1>5, <2>3 DEF Good
<1>7. CASE ev.type = "changed"
  <2>1. w = v
    BY <1>7, ApplyChanged DEF w
  <2>. QED BY <2>1
<1>8. CASE ev.type = "opened"
  <2>1. v.status = "active" /\ Due(v, ev.turn)
    BY <1>8 DEF Legal
  <2>2. w.status = "active" /\ w.turn = ev.turn /\ w.replies = v.replies
        /\ w.proposal = v.proposal
    BY <1>3, <1>8, <2>1
  <2>3. Due(w, w.turn)
    BY <2>1, <2>2 DEF Due
  <2>. QED BY <1>3, <1>4, <1>5, <2>2, <2>3 DEF Good
<1>9. CASE ev.type = "claimed"
  <2>1. w.status = v.status /\ w.turn = v.turn /\ w.replies = v.replies
        /\ w.proposal = v.proposal
    BY <1>3, <1>9
  <2>2. v.turn # NoTurn /\ v.status = "active" /\ Due(v, v.turn)
    BY <1>9 DEF Legal, Good
  <2>3. Due(w, w.turn)
    BY <2>1, <2>2 DEF Due
  <2>. QED BY <1>3, <1>4, <1>5, <2>1, <2>2, <2>3 DEF Good
<1>10. CASE ev.type = "recorded"
  <2>1. v.turn # NoTurn /\ ev.turn = v.turn
    BY <1>10 DEF Legal
  <2>2. v.status = "active" /\ Due(v, v.turn) /\ ConfirmsProposal(v.replies)
    BY <2>1 DEF Good
  <2>. PICK r : r = Answer(ev.turn, ev.result)
    OBVIOUS
  <2>3. r \in Replied /\ r.slot = v.turn.slot /\ r.by = v.turn.by
    BY <1>10, <2>1, EventFields, AnswerType
  <2>4. w.status = "active" /\ w.turn = NoTurn /\ w.replies = Append(v.replies, r)
    BY <1>3, <1>10, <2>2
  <2>5. r.slot = 0 => /\ v.replies # <<>>
                      /\ V1!Last(v.replies).result = "complete"
                      /\ V1!Last(v.replies).slot # 0
                      /\ V1!Last(v.replies).by # r.by
    BY <1>1, <2>2, <2>3, DueConfirmation DEF Due
  <2>6. ConfirmsProposal(w.replies)
    BY <1>1, <2>2, <2>3, <2>4, <2>5, ConfirmsAppend
  <2>. QED BY <1>3, <1>4, <1>5, <2>4, <2>6 DEF Good
<1>11. CASE ev.type \in {"proposed", "rejected"}
  <2>1. v.status = "active" /\ v.turn = NoTurn
    BY <1>11 DEF Legal
  <2>2. w.status = "active" /\ w.turn = NoTurn /\ w.replies = v.replies
    BY <1>3, <1>11, <2>1
  <2>. QED BY <1>3, <1>4, <1>5, <2>2 DEF Good
<1>12. CASE ev.type = "ended"
  <2>1. ev.status = V1!Outcome(v.replies)
    BY <1>12 DEF Legal
  <2>2. ev.status \in {"completed", "blocked", "error"}
    BY <1>12, EventFields
  <2>3. w.status = ev.status /\ w.turn = NoTurn /\ w.replies = v.replies
    BY <1>3, <1>12
  <2>. QED BY <1>3, <1>4, <1>5, <2>1, <2>2, <2>3 DEF Good
<1>13. ev.type \in EventType
  BY EventFields
<1>. QED BY <1>6, <1>7, <1>8, <1>9, <1>10, <1>11, <1>12, <1>13 DEF EventType

-----------------------------------------------------------------------------
(* Sound logs: every event was legal when it was appended.                  *)

LEMMA Concat ==
    ASSUME NEW h \in Seq(Event), NEW q \in Seq(Event)
    PROVE  /\ Len(h) \in Nat /\ Len(q) \in Nat
           /\ h \o q \in Seq(Event) /\ Len(h \o q) = Len(h) + Len(q)
           /\ \A i \in 1..Len(h) : (h \o q)[i] = h[i]
           /\ \A j \in 1..Len(q) : (h \o q)[Len(h) + j] = q[j]
<1>1. Len(h) \in Nat /\ Len(q) \in Nat
      /\ h \o q \in Seq(Event) /\ Len(h \o q) = Len(h) + Len(q)
  OBVIOUS
<1>2. \A i \in 1..(Len(h) + Len(q)) :
          (h \o q)[i] = IF i <= Len(h) THEN h[i] ELSE q[i - Len(h)]
  BY ConcatProperties
<1>3. ASSUME NEW i \in 1..Len(h) PROVE (h \o q)[i] = h[i]
  BY <1>1, <1>2
<1>4. ASSUME NEW j \in 1..Len(q) PROVE (h \o q)[Len(h) + j] = q[j]
  <2>1. Len(h) + j \in 1..(Len(h) + Len(q)) /\ ~ (Len(h) + j <= Len(h))
        /\ (Len(h) + j) - Len(h) = j
    BY <1>1
  <2>. QED BY <1>2, <2>1
<1>. QED BY <1>1, <1>3, <1>4

\* What is projected from a prefix does not depend on what follows it.
LEMMA ViewsPrefix ==
    ASSUME NEW h \in Seq(Event), NEW q \in Seq(Event)
    PROVE  \A i \in 0..Len(h) : Views(h \o q)[i] = Views(h)[i]
<1>. DEFINE g == h \o q
            T == {i \in Nat : Views(g)[i] = Views(h)[i]}
<1>1. Len(h) \in Nat /\ Len(g) \in Nat /\ Len(h) <= Len(g)
      /\ \A i \in 1..Len(h) : g[i] = h[i]
  <2>1. Len(h) \in Nat /\ Len(q) \in Nat /\ Len(g) = Len(h) + Len(q)
    BY Concat
  <2>2. Len(g) \in Nat /\ Len(h) <= Len(g)
    BY <2>1
  <2>. QED BY <2>1, <2>2, Concat
<1>. HIDE DEF g
<1>2. 0 \in T
  BY <1>1, ViewsDef
<1>3. ASSUME NEW i \in 0..(Len(h) - 1), i \in T PROVE i + 1 \in T
  <2>1. i + 1 \in 1..Len(h) /\ i + 1 \in 1..Len(g) /\ (i + 1) - 1 = i /\ i + 1 \in Nat
    BY <1>1, <1>3
  <2>2. Views(h)[i + 1] = Apply(Views(h)[i], h[i + 1])
        /\ Views(g)[i + 1] = Apply(Views(g)[i], g[i + 1])
    BY <1>1, <2>1, ViewsDef
  <2>3. Views(g)[i] = Views(h)[i] /\ g[i + 1] = h[i + 1]
    BY <1>1, <1>3, <2>1
  <2>. QED BY <2>1, <2>2, <2>3
<1>. HIDE DEF T
<1>4. 0..Len(h) \subseteq T
  BY <1>1, <1>2, <1>3, IntervalInduction
<1>. QED BY <1>4 DEF T, g

\* Every log can be read, if only as one whose projection fails.
LEMMA ViewsType ==
    ASSUME NEW h \in Seq(Event)
    PROVE  /\ \A i \in 0..Len(h) : Views(h)[i] \in ViewType
           /\ Project(h) \in ViewType
<1>. DEFINE T == {i \in Nat : Views(h)[i] \in ViewType}
<1>1. Len(h) \in Nat /\ Len(h) \in 0..Len(h) /\ \A i \in 1..Len(h) : h[i] \in Event
  OBVIOUS
<1>2. 0 \in T
  BY <1>1, ViewsDef, TurnTypes
<1>3. ASSUME NEW i \in 0..(Len(h) - 1), i \in T PROVE i + 1 \in T
  <2>1. i + 1 \in 1..Len(h) /\ (i + 1) - 1 = i /\ i + 1 \in Nat
    BY <1>1, <1>3
  <2>2. Views(h)[i + 1] = Apply(Views(h)[i], h[i + 1])
    BY <1>1, <2>1, ViewsDef
  <2>3. Views(h)[i] \in ViewType /\ h[i + 1] \in Event
    BY <1>1, <1>3, <2>1
  <2>4. Apply(Views(h)[i], h[i + 1]) \in ViewType
    BY <2>3, ApplyFields
  <2>. QED BY <2>1, <2>2, <2>4
<1>. HIDE DEF T
<1>4. 0..Len(h) \subseteq T
  BY <1>1, <1>2, <1>3, IntervalInduction
<1>5. \A i \in 0..Len(h) : Views(h)[i] \in ViewType
  BY <1>4 DEF T
<1>. QED BY <1>1, <1>5, ViewsDef

LEMMA SoundGood ==
    ASSUME NEW h, Sound(h)
    PROVE  /\ \A i \in 0..Len(h) : Good(Views(h)[i])
           /\ Good(Project(h))
<1>. DEFINE T == {i \in Nat : Good(Views(h)[i])}
<1>1. h \in Seq(Event) /\ Len(h) \in Nat /\ \A i \in 1..Len(h) : h[i] \in Event
  BY DEF Sound
<1>2. 0 \in T
  <2>1. Views(h)[0] = EmptyView
    BY <1>1, ViewsDef
  <2>2. EmptyView \in ViewType
    BY TurnTypes
  <2>3. Good(EmptyView)
    <3>1. EmptyView.valid /\ EmptyView.replies = <<>> /\ EmptyView.id = <<A, 0>>
          /\ EmptyView.turn = NoTurn /\ EmptyView.status = "unknown"
      BY DEF EmptyView, NoId
    <3>2. ConfirmsProposal(<<>>)
      BY DEF ConfirmsProposal
    <3>3. EmptyView.id[2] <= Len(EmptyView.replies)
      BY <3>1
    <3>. QED BY <2>2, <3>1, <3>2, <3>3 DEF Good
  <2>. QED BY <2>1, <2>3
<1>3. ASSUME NEW i \in 0..(Len(h) - 1), i \in T PROVE i + 1 \in T
  <2>1. i + 1 \in 1..Len(h) /\ (i + 1) - 1 = i /\ i \in Nat /\ i + 1 \in Nat
    BY <1>1, <1>3
  <2>2. Views(h)[i + 1] = Apply(Views(h)[i], h[i + 1])
    BY <1>1, <2>1, ViewsDef
  <2>3. Legal(Views(h)[i], h[i + 1])
    BY <2>1 DEF Sound
  <2>4. Good(Views(h)[i])
    BY <1>3
  <2>5. Good(Apply(Views(h)[i], h[i + 1]))
    BY <1>1, <2>1, <2>3, <2>4, StepGood
  <2>. QED BY <2>1, <2>2, <2>5
<1>. HIDE DEF T
<1>4. 0..Len(h) \subseteq T
  BY <1>1, <1>2, <1>3, IntervalInduction
<1>5. \A i \in 0..Len(h) : Good(Views(h)[i])
  BY <1>4 DEF T
<1>6. Project(h) = Views(h)[Len(h)] /\ Len(h) \in 0..Len(h)
  BY <1>1, ViewsDef
<1>. QED BY <1>5, <1>6

LEMMA SoundPrefix ==
    ASSUME NEW h \in Seq(Event), NEW q \in Seq(Event), Sound(h \o q)
    PROVE  Sound(h)
<1>1. Len(h) \in Nat /\ Len(q) \in Nat /\ Len(h \o q) = Len(h) + Len(q)
  BY Concat
<1>2. ASSUME NEW i \in 1..Len(h) PROVE Legal(Views(h)[i - 1], h[i])
  <2>1. i \in 1..Len(h \o q) /\ i - 1 \in 0..Len(h)
    BY <1>1
  <2>2. Legal(Views(h \o q)[i - 1], (h \o q)[i])
    BY <2>1 DEF Sound
  <2>3. (h \o q)[i] = h[i] /\ Views(h \o q)[i - 1] = Views(h)[i - 1]
    BY <2>1, Concat, ViewsPrefix
  <2>. QED BY <2>2, <2>3
<1>. QED BY <1>2 DEF Sound

LEMMA ProjectAppend ==
    ASSUME NEW h \in Seq(Event), NEW ev \in Event
    PROVE  /\ Project(Append(h, ev)) = Apply(Project(h), ev)
           /\ Append(h, ev) \in Seq(Event) /\ Len(Append(h, ev)) = Len(h) + 1
           /\ Len(h) \in Nat
           /\ \A i \in 1..Len(h) : Append(h, ev)[i] = h[i]
           /\ Append(h, ev)[Len(h) + 1] = ev
           /\ \A i \in 0..Len(h) : Views(Append(h, ev))[i] = Views(h)[i]
<1>. PICK g : g = Append(h, ev)
  OBVIOUS
<1>1. Len(h) \in Nat /\ g \in Seq(Event) /\ Len(g) = Len(h) + 1 /\ g[Len(h) + 1] = ev
      /\ \A i \in 1..Len(h) : g[i] = h[i]
  OBVIOUS
<1>2. g = h \o <<ev>> /\ <<ev>> \in Seq(Event)
  BY AppendIsConcat
<1>3. \A i \in 0..Len(h) : Views(g)[i] = Views(h)[i]
  BY <1>2, ViewsPrefix
<1>4. Len(g) \in 1..Len(g) /\ Len(g) - 1 = Len(h) /\ Len(h) \in 0..Len(h) /\ Len(g) \in Nat
  BY <1>1
<1>5. Project(g) = Views(g)[Len(g)] /\ Views(g)[Len(g)] = Apply(Views(g)[Len(h)], g[Len(g)])
      /\ Project(h) = Views(h)[Len(h)]
  BY <1>1, <1>4, ViewsDef
<1>6. Views(g)[Len(h)] = Project(h) /\ g[Len(g)] = ev
  BY <1>1, <1>3, <1>4, <1>5
<1>. QED BY <1>1, <1>3, <1>5, <1>6

LEMMA SoundAppend ==
    ASSUME NEW h, Sound(h), NEW ev \in Event, Legal(Project(h), ev)
    PROVE  Sound(Append(h, ev))
<1>1. h \in Seq(Event)
  BY DEF Sound
<1>. PICK g : g = Append(h, ev)
  OBVIOUS
<1>2. /\ g \in Seq(Event) /\ Len(g) = Len(h) + 1 /\ Len(h) \in Nat
      /\ \A i \in 1..Len(h) : g[i] = h[i]
      /\ g[Len(h) + 1] = ev
      /\ \A i \in 0..Len(h) : Views(g)[i] = Views(h)[i]
  BY <1>1, ProjectAppend
<1>3. ASSUME NEW i \in 1..Len(g) PROVE Legal(Views(g)[i - 1], g[i])
  <2>1. CASE i \in 1..Len(h)
    <3>1. i - 1 \in 0..Len(h)
      BY <1>2, <2>1
    <3>2. Legal(Views(h)[i - 1], h[i])
      BY <2>1 DEF Sound
    <3>. QED BY <1>2, <2>1, <3>1, <3>2
  <2>2. CASE i = Len(h) + 1
    <3>1. i - 1 = Len(h) /\ Len(h) \in 0..Len(h)
      BY <1>2, <2>2
    <3>2. Views(g)[Len(h)] = Project(h)
      BY <1>2, <3>1, ViewsDef
    <3>. QED BY <1>2, <2>2, <3>1, <3>2
  <2>3. i \in 1..Len(h) \/ i = Len(h) + 1
    BY <1>2, <1>3
  <2>. QED BY <2>1, <2>2, <2>3
<1>. QED BY <1>2, <1>3 DEF Sound

-----------------------------------------------------------------------------
(* What is legal after a log is legal after a similar one.                  *)

LEMMA SimilarLegal ==
    ASSUME NEW v, NEW w, Good(v), Good(w), Similar(v, w),
           NEW ev \in Event, Legal(v, ev)
    PROVE  /\ Legal(w, ev)
           /\ Similar(Apply(v, ev), Apply(w, ev))
<1>1. v \in ViewType /\ w \in ViewType
  BY DEF Good
<1>3. Legal(w, ev)
  BY DEF Legal, Similar, Due
<1>4. /\ ev.type = "claimed" => v.turn # NoTurn /\ v.id = ev.id
      /\ ev.type = "claimed" => w.turn # NoTurn /\ w.id = ev.id
  BY <1>3 DEF Legal
<1>. PICK v1 : v1 = Apply(v, ev)
  OBVIOUS
<1>. PICK w1 : w1 = Apply(w, ev)
  OBVIOUS
<1>. PICK r : r = Answer(ev.turn, ev.result)
  OBVIOUS
<1>5. /\ v1.status = IF ev.type = "created" THEN "active"
                     ELSE IF ev.type = "ended" THEN ev.status ELSE v.status
      /\ v1.id = IF ev.type = "opened" THEN ev.id ELSE v.id
      /\ v1.turn = IF ev.type = "opened" THEN ev.turn
                   ELSE IF ev.type \in {"recorded", "ended"} THEN NoTurn ELSE v.turn
      /\ v1.proposal = IF ev.type = "proposed" THEN ev.turn
                       ELSE IF ev.type \in {"rejected", "ended"} THEN NoTurn
                       ELSE v.proposal
      /\ v1.replies = IF ev.type = "recorded" THEN Append(v.replies, r) ELSE v.replies
  BY <1>1, <1>4, ApplyFields
<1>6. /\ w1.status = IF ev.type = "created" THEN "active"
                     ELSE IF ev.type = "ended" THEN ev.status ELSE w.status
      /\ w1.id = IF ev.type = "opened" THEN ev.id ELSE w.id
      /\ w1.turn = IF ev.type = "opened" THEN ev.turn
                   ELSE IF ev.type \in {"recorded", "ended"} THEN NoTurn ELSE w.turn
      /\ w1.proposal = IF ev.type = "proposed" THEN ev.turn
                       ELSE IF ev.type \in {"rejected", "ended"} THEN NoTurn
                       ELSE w.proposal
      /\ w1.replies = IF ev.type = "recorded" THEN Append(w.replies, r) ELSE w.replies
  BY <1>1, <1>4, ApplyFields
<1>7. v.status = w.status /\ v.id = w.id /\ v.turn = w.turn
      /\ v.proposal = w.proposal /\ v.replies = w.replies
  BY DEF Similar
<1>8. Similar(v1, w1)
  BY <1>5, <1>6, <1>7, Zenon DEF Similar
<1>. QED BY <1>3, <1>8

\* A follower that holds other recoveries of an earlier epoch than the next
\* coordinator does may take over what that coordinator has written.
LEMMA SoundExtend ==
    ASSUME NEW g \in Seq(Event), NEW h \in Seq(Event), NEW q \in Seq(Event),
           Sound(g \o q), Sound(h), Similar(Project(g), Project(h))
    PROVE  Sound(h \o q)
<1>. DEFINE gq == g \o q
            hq == h \o q
            Follows(j) == /\ Similar(Views(gq)[Len(g) + j], Views(hq)[Len(h) + j])
                          /\ Good(Views(hq)[Len(h) + j])
            T == {j \in Nat : Follows(j)}
<1>1. /\ Len(g) \in Nat /\ Len(h) \in Nat /\ Len(q) \in Nat
      /\ Len(gq) = Len(g) + Len(q) /\ Len(hq) = Len(h) + Len(q)
      /\ gq \in Seq(Event) /\ hq \in Seq(Event)
      /\ \A i \in 1..Len(h) : hq[i] = h[i]
      /\ \A j \in 1..Len(q) : gq[Len(g) + j] = q[j] /\ hq[Len(h) + j] = q[j]
  BY Concat
<1>2. \A j \in 1..Len(q) : q[j] \in Event
  OBVIOUS
<1>3. Sound(gq) /\ \A i \in 0..Len(gq) : Good(Views(gq)[i])
  BY SoundGood
<1>4. \A i \in 0..Len(h) : Views(hq)[i] = Views(h)[i]
  BY ViewsPrefix
<1>5. \A i \in 0..Len(g) : Views(gq)[i] = Views(g)[i]
  BY ViewsPrefix
<1>. HIDE DEF gq, hq
<1>6. 0 \in T
  <2>1. Len(g) + 0 = Len(g) /\ Len(h) + 0 = Len(h) /\ Len(g) \in 0..Len(g)
        /\ Len(h) \in 0..Len(h)
    BY <1>1
  <2>2. Project(g) = Views(g)[Len(g)] /\ Project(h) = Views(h)[Len(h)]
    BY <1>1, ViewsDef
  <2>3. Views(gq)[Len(g)] = Project(g) /\ Views(hq)[Len(h)] = Project(h)
    BY <1>4, <1>5, <2>1, <2>2
  <2>4. Good(Project(h))
    BY SoundGood
  <2>5. Follows(0)
    BY <2>1, <2>3, <2>4
  <2>. QED BY <2>5
<1>7. ASSUME NEW j \in 0..(Len(q) - 1), Follows(j)
      PROVE  Legal(Views(hq)[Len(h) + j], q[j + 1]) /\ Follows(j + 1)
  <2>. PICK a : a = Len(g) + j
    OBVIOUS
  <2>. PICK b : b = Len(h) + j
    OBVIOUS
  <2>1. /\ a \in Nat /\ b \in Nat /\ j + 1 \in 1..Len(q)
        /\ Len(g) + (j + 1) = a + 1 /\ Len(h) + (j + 1) = b + 1
        /\ a + 1 \in 1..Len(gq) /\ b + 1 \in 1..Len(hq)
        /\ (a + 1) - 1 = a /\ (b + 1) - 1 = b /\ a \in 0..Len(gq)
    BY <1>1, <1>7
  <2>2. gq[a + 1] = q[j + 1] /\ hq[b + 1] = q[j + 1] /\ q[j + 1] \in Event
    BY <1>1, <1>2, <2>1
  <2>3. Legal(Views(gq)[a], q[j + 1])
    BY <1>3, <2>1, <2>2 DEF Sound
  <2>4. Good(Views(gq)[a]) /\ Good(Views(hq)[b])
        /\ Similar(Views(gq)[a], Views(hq)[b])
    BY <1>3, <1>7, <2>1
  <2>5. Legal(Views(hq)[b], q[j + 1])
        /\ Similar(Apply(Views(gq)[a], q[j + 1]), Apply(Views(hq)[b], q[j + 1]))
    BY <2>1, <2>2, <2>3, <2>4, SimilarLegal
  <2>6. Good(Apply(Views(hq)[b], q[j + 1]))
    BY <2>1, <2>2, <2>4, <2>5, StepGood
  <2>7. Len(gq) \in Nat /\ Len(hq) \in Nat
    BY <1>1
  <2>8. Views(gq)[a + 1] = Apply(Views(gq)[a], q[j + 1])
        /\ Views(hq)[b + 1] = Apply(Views(hq)[b], q[j + 1])
    <3>1. Views(gq)[a + 1] = Apply(Views(gq)[(a + 1) - 1], gq[a + 1])
      BY <2>1, <2>7, ViewsDef
    <3>2. Views(hq)[b + 1] = Apply(Views(hq)[(b + 1) - 1], hq[b + 1])
      BY <2>1, <2>7, ViewsDef
    <3>. QED BY <2>1, <2>2, <3>1, <3>2
  <2>9. Follows(j + 1)
    BY <2>1, <2>5, <2>6, <2>8
  <2>. QED BY <2>5, <2>9
<1>8. \A j \in 0..(Len(q) - 1) : j \in T => j + 1 \in T
  BY <1>7
<1>9. 0..Len(q) \subseteq T
  <2>. HIDE DEF T
  <2>. QED BY <1>1, <1>6, <1>8, IntervalInduction
<1>10. ASSUME NEW i \in 1..Len(hq) PROVE Legal(Views(hq)[i - 1], hq[i])
  <2>1. CASE i \in 1..Len(h)
    <3>1. i - 1 \in 0..Len(h)
      BY <1>1, <2>1
    <3>. QED BY <1>1, <1>4, <2>1, <3>1 DEF Sound
  <2>2. CASE i > Len(h)
    <3>. PICK j : j = (i - Len(h)) - 1
      OBVIOUS
    <3>1. j \in 0..(Len(q) - 1) /\ Len(h) + j = i - 1 /\ (Len(h) + j) + 1 = i
          /\ j + 1 \in 1..Len(q) /\ Len(h) + (j + 1) = i
      BY <1>1, <1>10, <2>2
    <3>2. Follows(j)
      <4>1. j \in 0..Len(q)
        BY <1>1, <3>1
      <4>2. j \in T
        <5>. HIDE DEF T
        <5>. QED BY <1>9, <4>1
      <4>. QED BY <4>2
    <3>3. hq[i] = q[j + 1]
      BY <1>1, <3>1
    <3>4. Legal(Views(hq)[Len(h) + j], q[j + 1])
      BY <1>7, <3>1, <3>2
    <3>. QED BY <3>1, <3>3, <3>4
  <2>. QED BY <1>1, <1>10, <2>1, <2>2
<1>11. Sound(hq)
  BY <1>1, <1>10 DEF Sound
<1>. QED BY <1>11 DEF hq

-----------------------------------------------------------------------------
(* What holds of every sound log.                                           *)

\* One event of a sound log.
LEMMA SoundStep ==
    ASSUME NEW h, Sound(h), NEW i \in 1..Len(h)
    PROVE  LET v == Views(h)[i - 1]
               w == Views(h)[i]
               ev == h[i] IN
           /\ ev \in Event /\ Good(v) /\ Good(w) /\ Legal(v, ev)
           /\ v \in ViewType /\ w \in ViewType /\ i - 1 \in Nat
           /\ w = Apply(v, ev)
           /\ w.status = IF ev.type = "created" THEN "active"
                         ELSE IF ev.type = "ended" THEN ev.status ELSE v.status
           /\ w.id = IF ev.type = "opened" THEN ev.id ELSE v.id
           /\ w.turn = IF ev.type = "opened" THEN ev.turn
                       ELSE IF ev.type \in {"recorded", "ended"} THEN NoTurn ELSE v.turn
           /\ w.replies = IF ev.type = "recorded"
                          THEN Append(v.replies, Answer(ev.turn, ev.result))
                          ELSE v.replies
<1>1. h \in Seq(Event) /\ Len(h) \in Nat /\ h[i] \in Event
  BY DEF Sound
<1>2. i - 1 \in 0..Len(h) /\ i \in 0..Len(h) /\ i - 1 \in Nat
  BY <1>1
<1>. PICK v : v = Views(h)[i - 1]
  OBVIOUS
<1>3. Legal(v, h[i])
  BY DEF Sound
<1>4. Good(v) /\ Good(Views(h)[i])
  BY <1>2, SoundGood
<1>5. v \in ViewType /\ Views(h)[i] \in ViewType
  BY <1>4 DEF Good
<1>6. Views(h)[i] = Apply(v, h[i])
  BY <1>1, ViewsDef
<1>7. h[i].type = "claimed" => v.turn # NoTurn /\ v.id = h[i].id
  BY <1>3 DEF Legal
<1>8. LET w == Apply(v, h[i])
          ev == h[i] IN
      /\ w.status = IF ev.type = "created" THEN "active"
                    ELSE IF ev.type = "ended" THEN ev.status ELSE v.status
      /\ w.id = IF ev.type = "opened" THEN ev.id ELSE v.id
      /\ w.turn = IF ev.type = "opened" THEN ev.turn
                  ELSE IF ev.type \in {"recorded", "ended"} THEN NoTurn ELSE v.turn
      /\ w.replies = IF ev.type = "recorded"
                     THEN Append(v.replies, Answer(ev.turn, ev.result))
                     ELSE v.replies
  BY <1>1, <1>5, <1>7, ApplyFields
<1>. QED BY <1>1, <1>2, <1>3, <1>4, <1>5, <1>6, <1>8, Zenon

\* Turn ids grow: they count the replies.
LEMMA SoundAnsweredOnce ==
    ASSUME NEW h, Sound(h), NEW j \in 1..Len(h), NEW i \in 1..(j - 1),
           h[i].type = "recorded", h[j].type = "recorded"
    PROVE  h[i].id # h[j].id
<1>. DEFINE Said(k) == Len(Views(h)[k].replies)
<1>. PICK x : x = h[i].id[2]
  OBVIOUS
<1>. DEFINE T == {k \in Nat : x <= Said(k)}
<1>1. Len(h) \in Nat /\ i \in 1..Len(h) /\ j \in 1..Len(h) /\ j - 1 \in i..(j - 1)
      /\ i \in Nat /\ j - 1 \in Nat
  BY DEF Sound
<1>2. \A v \in ViewType : v.replies \in Seq(Replied) /\ Len(v.replies) \in Nat
  BY DEF ViewType
<1>3. ASSUME NEW k \in 1..Len(h)
      PROVE  /\ Said(k - 1) \in Nat /\ Said(k) \in Nat /\ Said(k - 1) <= Said(k)
             /\ h[k].type = "recorded" =>
                   /\ h[k].id[2] = Said(k - 1) + 1
                   /\ Said(k) = Said(k - 1) + 1
  <2>. PICK v : v = Views(h)[k - 1]
    OBVIOUS
  <2>. PICK w : w = Views(h)[k]
    OBVIOUS
  <2>. PICK ev : ev = h[k]
    OBVIOUS
  <2>. PICK r : r = Answer(ev.turn, ev.result)
    OBVIOUS
  <2>1. /\ Good(v) /\ Legal(v, ev) /\ v \in ViewType /\ w \in ViewType
        /\ w.replies = IF ev.type = "recorded" THEN Append(v.replies, r) ELSE v.replies
    BY SoundStep
  <2>2. v.replies \in Seq(Replied) /\ Len(v.replies) \in Nat /\ Len(w.replies) \in Nat
    BY <1>2, <2>1
  <2>3. CASE ev.type = "recorded"
    <3>1. v.turn # NoTurn /\ ev.id = v.id
      BY <2>1, <2>3 DEF Legal
    <3>2. v.id[2] = Len(v.replies) + 1
      BY <2>1, <3>1 DEF Good
    <3>3. Len(w.replies) = Len(v.replies) + 1
      <4>1. w.replies = Append(v.replies, r)
        BY <2>1, <2>3
      <4>. QED BY <2>2, <4>1
    <3>. QED BY <2>2, <3>1, <3>2, <3>3
  <2>4. CASE ev.type # "recorded"
    BY <2>1, <2>2, <2>4
  <2>. QED BY <2>3, <2>4
<1>. HIDE DEF Said
<1>4. x \in Nat /\ i \in T
  BY <1>1, <1>3
<1>5. ASSUME NEW k \in i..((j - 1) - 1), k \in T PROVE k + 1 \in T
  <2>1. k + 1 \in 1..Len(h) /\ (k + 1) - 1 = k /\ k + 1 \in Nat
    BY <1>1, <1>5
  <2>2. Said(k) \in Nat /\ Said(k + 1) \in Nat /\ Said(k) <= Said(k + 1) /\ x <= Said(k)
    BY <1>3, <1>5, <2>1
  <2>. QED BY <1>4, <2>1, <2>2
<1>. HIDE DEF T
<1>6. i..(j - 1) \subseteq T
  BY <1>1, <1>4, <1>5, IntervalInduction
<1>7. x <= Said(j - 1)
  BY <1>1, <1>6 DEF T
<1>8. h[j].id[2] = Said(j - 1) + 1 /\ Said(j - 1) \in Nat
  BY <1>1, <1>3
<1>. QED BY <1>4, <1>7, <1>8

\* Once over, a dialogue stays as it ended.
LEMMA SoundTerminal ==
    ASSUME NEW h, Sound(h), NEW i \in 1..Len(h),
           Views(h)[i].status \notin {"unknown", "active"}
    PROVE  /\ \A k \in i..Len(h) : Views(h)[k].status = Views(h)[i].status
           /\ \A k \in (i + 1)..Len(h) : h[k].type = "changed"
<1>. DEFINE st == Views(h)[i].status
            T == {k \in Nat : Views(h)[k].status = st}
<1>1. Len(h) \in Nat /\ i \in Nat /\ i \in i..Len(h)
  BY DEF Sound
<1>2. i \in T
  BY <1>1
<1>3. ASSUME NEW k \in i..(Len(h) - 1), Views(h)[k].status = st
      PROVE  Views(h)[k + 1].status = st /\ h[k + 1].type = "changed" /\ k + 1 \in Nat
  <2>. PICK v : v = Views(h)[k]
    OBVIOUS
  <2>. PICK ev : ev = h[k + 1]
    OBVIOUS
  <2>1. k + 1 \in 1..Len(h) /\ (k + 1) - 1 = k /\ k + 1 \in Nat
    BY <1>1, <1>3
  <2>2. Good(v) /\ Legal(v, ev) /\ ev \in Event
        /\ Views(h)[k + 1].status = IF ev.type = "created" THEN "active"
                         ELSE IF ev.type = "ended" THEN ev.status ELSE v.status
    BY <2>1, SoundStep
  <2>3. v.status \notin {"unknown", "active"}
    BY <1>3
  <2>4. v.turn = NoTurn
    BY <2>2, <2>3 DEF Good
  <2>5. ev.type = "changed"
    BY <2>2, <2>3, <2>4, EventFields DEF Legal, EventType
  <2>. QED BY <1>3, <2>1, <2>2, <2>5
<1>4. \A k \in i..(Len(h) - 1) : k \in T => k + 1 \in T
  BY <1>3
<1>5. i..Len(h) \subseteq T
  <2>. HIDE DEF T
  <2>. QED BY <1>1, <1>2, <1>4, IntervalInduction
<1>6. \A k \in i..Len(h) : Views(h)[k].status = st
  BY <1>5
<1>7. ASSUME NEW k \in (i + 1)..Len(h) PROVE h[k].type = "changed"
  <2>1. k - 1 \in i..(Len(h) - 1) /\ (k - 1) + 1 = k /\ k - 1 \in i..Len(h)
    BY <1>1, <1>7
  <2>. QED BY <1>3, <1>6, <2>1
<1>. QED BY <1>6, <1>7

\* The replies of a log are those that it projects.
LEMMA SoundReplies ==
    ASSUME NEW h, Sound(h)
    PROVE  RepliesIn(h) = Project(h).replies
<1>. DEFINE T == {k \in Nat : RepliesUpTo(h)[k] = Views(h)[k].replies}
<1>1. Len(h) \in Nat
  BY DEF Sound
<1>2. 0 \in T
  <2>1. Views(h)[0] = EmptyView /\ RepliesUpTo(h)[0] = <<>>
    BY <1>1, ViewsDef, RepliesDef
  <2>. QED BY <2>1 DEF EmptyView
<1>3. ASSUME NEW k \in 0..(Len(h) - 1), k \in T PROVE k + 1 \in T
  <2>. PICK v : v = Views(h)[k]
    OBVIOUS
  <2>. PICK ev : ev = h[k + 1]
    OBVIOUS
  <2>1. k + 1 \in 1..Len(h) /\ (k + 1) - 1 = k /\ k + 1 \in Nat
    BY <1>1, <1>3
  <2>2. /\ v \in ViewType /\ ev \in Event
        /\ Views(h)[k + 1].replies = IF ev.type = "recorded"
                          THEN Append(v.replies, Answer(ev.turn, ev.result))
                          ELSE v.replies
    BY <2>1, SoundStep
  <2>3. RepliesUpTo(h)[k + 1] = RepliesUpTo(h)[k] \o Replying(ev)
    BY <1>1, <2>1, RepliesDef
  <2>4. RepliesUpTo(h)[k] = v.replies /\ v.replies \in Seq(Replied)
    BY <1>3, <2>2 DEF ViewType
  <2>5. CASE ev.type = "recorded"
    <3>1. PICK r : r = Answer(ev.turn, ev.result)
      OBVIOUS
    <3>2. r \in Replied
      BY <2>2, <2>5, <3>1, EventFields, AnswerType
    <3>3. Replying(ev) = <<r>>
      BY <2>5, <3>1 DEF Replying
    <3>4. v.replies \o <<r>> = Append(v.replies, r)
      BY <2>4, <3>2, AppendIsConcat
    <3>. QED BY <2>1, <2>2, <2>3, <2>4, <2>5, <3>1, <3>3, <3>4
  <2>6. CASE ev.type # "recorded"
    <3>1. Replying(ev) = <<>>
      BY <2>6 DEF Replying
    <3>2. v.replies \o <<>> = v.replies
      BY <2>4, ConcatEmptySeq
    <3>. QED BY <2>1, <2>2, <2>3, <2>4, <2>6, <3>1, <3>2
  <2>. QED BY <2>5, <2>6
<1>. HIDE DEF T
<1>4. 0..Len(h) \subseteq T
  BY <1>1, <1>2, <1>3, IntervalInduction
<1>5. Len(h) \in T
  BY <1>1, <1>4
<1>. QED BY <1>1, <1>5, ViewsDef, RepliesDef DEF T

LEMMA SoundCompletion ==
    ASSUME NEW h, Sound(h), NEW i \in 1..Len(h), h[i] = Ended("completed")
    PROVE  LET replies == Project(h).replies
               k == Len(replies) IN
           /\ \A j \in 1..Len(h) : h[j].type = "ended" => i = j
           /\ k >= 2
           /\ replies[k].result = "complete" /\ replies[k - 1].result = "complete"
           /\ replies[k].by # replies[k - 1].by
<1>1. Len(h) \in Nat
  BY DEF Sound
<1>2. h[i].type = "ended" /\ h[i].status = "completed"
  BY DEF Ended
<1>3. ASSUME NEW j \in 1..Len(h), h[j].type = "ended"
      PROVE  /\ Views(h)[j].status = h[j].status
             /\ Views(h)[j].status \notin {"unknown", "active"}
             /\ \A k \in (j + 1)..Len(h) : h[k].type = "changed"
  <2>1. h[j] \in Event /\ Views(h)[j].status = h[j].status
    BY <1>3, SoundStep
  <2>2. h[j].status \in {"completed", "blocked", "error"}
    BY <1>3, <2>1, EventFields
  <2>3. Views(h)[j].status \notin {"unknown", "active"}
    BY <2>1, <2>2
  <2>. QED BY <2>1, <2>3, SoundTerminal
<1>4. ASSUME NEW j \in 1..Len(h), h[j].type = "ended" PROVE i = j
  <2>1. ~ (i < j)
    <3>1. i < j => j \in (i + 1)..Len(h)
      BY <1>1
    <3>. QED BY <1>2, <1>3, <1>4, <3>1
  <2>2. ~ (j < i)
    <3>1. j < i => i \in (j + 1)..Len(h)
      BY <1>1
    <3>. QED BY <1>2, <1>3, <1>4, <3>1
  <2>. QED BY <2>1, <2>2
<1>. PICK v : v = Project(h)
  OBVIOUS
<1>. PICK g : g = v.replies
  OBVIOUS
<1>5. v.status = "completed" /\ Good(v)
  <2>1. Views(h)[i].status = "completed" /\ Views(h)[i].status \notin {"unknown", "active"}
    BY <1>2, <1>3
  <2>2. Len(h) \in i..Len(h)
    BY <1>1
  <2>3. Views(h)[Len(h)].status = "completed"
    BY <2>1, <2>2, SoundTerminal
  <2>4. Good(v)
    BY SoundGood
  <2>. QED BY <1>1, <2>3, <2>4, ViewsDef
<1>6. V1!Outcome(g) = "completed" /\ ConfirmsProposal(g) /\ g \in Seq(Replied)
  BY <1>5 DEF Good, ViewType
<1>7. g # <<>>
  BY <1>6, NoReplies
<1>8. Len(g) \in Nat /\ Len(g) \in 1..Len(g) /\ V1!Last(g) = g[Len(g)]
      /\ V1!Last(g).result \in Result
  <2>1. V1!Last(g) \in Replied
    BY <1>6, <1>7, LastReply
  <2>. QED BY <1>6, <1>7, <2>1, LastReply DEF Replied
<1>9. V1!Last(g).result = "complete" /\ V1!Last(g).slot = 0
  BY <1>6, <1>7, <1>8, OutcomeCases DEF Result
<1>10. Len(g) > 1 /\ g[Len(g) - 1].result = "complete"
       /\ g[Len(g) - 1].by # g[Len(g)].by
  BY <1>6, <1>8, <1>9 DEF ConfirmsProposal
<1>11. Len(g) >= 2
  BY <1>8, <1>10
<1>. QED BY <1>4, <1>8, <1>9, <1>10, <1>11

-----------------------------------------------------------------------------
(* Logs of several epochs.                                                  *)

LEMMA JoinedType ==
    ASSUME NEW epochs \in Logs, NEW e \in 0..MaxEpoch
    PROVE  Joined(epochs)[e] \in Seq(Event)
<1>. DEFINE T == {k \in Nat : Joined(epochs)[k] \in Seq(Event)}
<1>1. MaxEpoch \in Nat
  BY Limits
<1>2. 0 \in T
  <2>1. Joined(epochs)[0] = <<>>
    BY JoinedDef
  <2>2. <<>> \in Seq(Event)
    OBVIOUS
  <2>. QED BY <2>1, <2>2
<1>3. ASSUME NEW k \in 0..(MaxEpoch - 1), k \in T PROVE k + 1 \in T
  <2>1. k + 1 \in Epoch /\ (k + 1) - 1 = k /\ k + 1 \in Nat
    BY <1>1 DEF Epoch
  <2>2. Joined(epochs)[k + 1] = Joined(epochs)[k] \o epochs[k + 1]
    BY <2>1, JoinedDef
  <2>3. epochs[k + 1] \in Seq(Event) /\ Joined(epochs)[k] \in Seq(Event)
    BY <1>3, <2>1 DEF Logs
  <2>4. Joined(epochs)[k] \o epochs[k + 1] \in Seq(Event)
    BY <2>3, Concat
  <2>. QED BY <2>1, <2>2, <2>4
<1>. HIDE DEF T
<1>4. 0..MaxEpoch \subseteq T
  BY <1>1, <1>2, <1>3, IntervalInduction
<1>. QED BY <1>4 DEF T

\* Logs that agree up to an epoch.
LEMMA JoinedAgree ==
    ASSUME NEW f \in Logs, NEW g \in Logs, NEW m \in 0..MaxEpoch,
           \A e \in Epoch : e <= m => f[e] = g[e]
    PROVE  \A e \in 0..m : Joined(f)[e] = Joined(g)[e]
<1>. DEFINE T == {k \in Nat : Joined(f)[k] = Joined(g)[k]}
<1>1. MaxEpoch \in Nat /\ m \in Nat
  BY Limits
<1>2. 0 \in T
  BY JoinedDef
<1>3. ASSUME NEW k \in 0..(m - 1), k \in T PROVE k + 1 \in T
  <2>1. k + 1 \in Epoch /\ (k + 1) - 1 = k /\ k + 1 \in Nat /\ k + 1 <= m
    BY <1>1 DEF Epoch
  <2>2. Joined(f)[k + 1] = Joined(f)[k] \o f[k + 1]
        /\ Joined(g)[k + 1] = Joined(g)[k] \o g[k + 1]
    BY <2>1, JoinedDef
  <2>. QED BY <1>3, <2>1, <2>2
<1>. HIDE DEF T
<1>4. 0..m \subseteq T
  BY <1>1, <1>2, <1>3, IntervalInduction
<1>. QED BY <1>4 DEF T

\* A log ends with its head.
LEMMA JoinedHead ==
    ASSUME NEW epochs \in Logs, NEW m \in 0..MaxEpoch, HeadAt(epochs, m)
    PROVE  Joined(epochs)[MaxEpoch] = Joined(epochs)[m]
<1>. DEFINE T == {k \in Nat : Joined(epochs)[k] = Joined(epochs)[m]}
<1>1. MaxEpoch \in Nat /\ m \in Nat /\ MaxEpoch \in m..MaxEpoch
  BY Limits
<1>2. m \in T
  BY <1>1
<1>3. ASSUME NEW k \in m..(MaxEpoch - 1), k \in T PROVE k + 1 \in T
  <2>1. k + 1 \in Epoch /\ (k + 1) - 1 = k /\ k + 1 \in Nat /\ k + 1 > m
        /\ k \in 0..MaxEpoch
    BY <1>1 DEF Epoch
  <2>2. Joined(epochs)[k + 1] = Joined(epochs)[k] \o epochs[k + 1]
    BY <2>1, JoinedDef
  <2>3. epochs[k + 1] = <<>>
    BY <2>1 DEF HeadAt
  <2>4. Joined(epochs)[k] \o <<>> = Joined(epochs)[k]
    <3>1. Joined(epochs)[k] \in Seq(Event)
      BY <2>1, JoinedType
    <3>. QED BY <3>1, ConcatEmptySeq
  <2>. QED BY <1>3, <2>1, <2>2, <2>3, <2>4
<1>. HIDE DEF T
<1>4. m..MaxEpoch \subseteq T
  BY <1>1, <1>2, <1>3, IntervalInduction
<1>. QED BY <1>1, <1>4 DEF T

\* What is written in the last epoch ends the history.
LEMMA JoinedExcept ==
    ASSUME NEW epochs \in Logs, NEW m \in Epoch, HeadAt(epochs, m), NEW q \in Seq(Event),
           NEW new, new = [epochs EXCEPT ![m] = q]
    PROVE  /\ new \in Logs /\ HeadAt(new, m) /\ new[m] = q
           /\ \A e \in 0..(m - 1) : Joined(new)[e] = Joined(epochs)[e]
           /\ Joined(epochs)[MaxEpoch] = Joined(epochs)[m - 1] \o epochs[m]
           /\ Joined(new)[MaxEpoch] = Joined(epochs)[m - 1] \o q
           /\ Joined(epochs)[m - 1] \in Seq(Event)
<1>1. MaxEpoch \in Nat /\ m \in 1..MaxEpoch /\ m \in 0..MaxEpoch /\ m - 1 \in 0..MaxEpoch
  BY Limits DEF Epoch
<1>2. new \in Logs /\ new[m] = q /\ \A e \in Epoch : e # m => new[e] = epochs[e]
  BY DEF Logs
<1>3. HeadAt(new, m)
  BY <1>1, <1>2 DEF HeadAt, Epoch
<1>4. \A e \in Epoch : e <= m - 1 => new[e] = epochs[e]
  BY <1>1, <1>2 DEF Epoch
<1>5. \A e \in 0..(m - 1) : Joined(new)[e] = Joined(epochs)[e]
  BY <1>1, <1>2, <1>4, JoinedAgree
<1>6. m - 1 \in 0..(m - 1)
  BY <1>1
<1>7. Joined(epochs)[MaxEpoch] = Joined(epochs)[m - 1] \o epochs[m]
  BY <1>1, JoinedHead, JoinedDef
<1>8. Joined(new)[MaxEpoch] = Joined(epochs)[m - 1] \o q
  <2>1. Joined(new)[MaxEpoch] = Joined(new)[m - 1] \o new[m]
    <3>1. Joined(new)[MaxEpoch] = Joined(new)[m]
      BY <1>1, <1>2, <1>3, JoinedHead
    <3>2. Joined(new)[m] = Joined(new)[m - 1] \o new[m]
      BY JoinedDef
    <3>. QED BY <3>1, <3>2
  <2>. QED BY <1>2, <1>5, <1>6, <2>1
<1>9. Joined(epochs)[m - 1] \in Seq(Event)
  BY <1>1, JoinedType
<1>. QED BY <1>2, <1>3, <1>5, <1>7, <1>8, <1>9

-----------------------------------------------------------------------------
(* What a reply appends: events, and legal ones.                            *)

LEMMA ConcatCons ==
    ASSUME NEW h \in Seq(Event), NEW ev \in Event, NEW q \in Seq(Event)
    PROVE  h \o (<<ev>> \o q) = Append(h, ev) \o q
<1>1. <<ev>> \in Seq(Event)
  OBVIOUS
<1>2. (h \o <<ev>>) \o q = h \o (<<ev>> \o q)
  BY <1>1, ConcatAssociative
<1>3. h \o <<ev>> = Append(h, ev)
  BY AppendIsConcat
<1>. QED BY <1>2, <1>3

LEMMA ConcatOne ==
    ASSUME NEW h \in Seq(Event), NEW ev \in Event
    PROVE  h \o <<ev>> = Append(h, ev) /\ <<ev>> \in Seq(Event)
BY AppendIsConcat

LEMMA ConsequencesEnding ==
    ASSUME NEW n, NEW view, NEW result \in {"blocked", "error"}
    PROVE  Consequences(n, view, result) = <<Ended(result)>>
BY Zenon DEF Consequences

LEMMA ConsequencesComplete ==
    ASSUME NEW n, NEW view
    PROVE  Consequences(n, view, "complete") =
               IF /\ view.turn.slot = 0 /\ view.proposal # NoTurn
                  /\ view.proposal.by # view.turn.by
               THEN <<Ended("completed")>>
               ELSE <<Proposed(view.turn),
                      Opened(NewId(n), Turn(Peer(view.turn.by), view.turn.round, 0))>>
BY Zenon DEF Consequences

LEMMA ConsequencesContinue ==
    ASSUME NEW n, NEW view
    PROVE  Consequences(n, view, "continue") =
               IF view.turn.slot = 0 /\ view.proposal # NoTurn
               THEN <<Rejected>> \o AfterRejection(n, view.proposal)
               ELSE FollowUp(n, view.turn)
BY Zenon DEF Consequences

LEMMA FollowUpCases ==
    ASSUME NEW n, NEW turn
    PROVE  /\ turn.slot = 1 =>
                 FollowUp(n, turn) = <<Opened(NewId(n), Turn(B, turn.round, 2))>>
           /\ turn.slot = 2 =>
                 FollowUp(n, turn) =
                     IF turn.round >= MaxRounds THEN <<Ended("blocked")>>
                     ELSE <<Opened(NewId(n), Turn(A, turn.round + 1, 1))>>
<1>1. 1 # 2 /\ 1 # 0 /\ 2 # 0
  OBVIOUS
<1>. QED BY <1>1, Zenon DEF FollowUp

LEMMA AfterRejectionCases ==
    ASSUME NEW n, NEW proposal \in Turns
    PROVE  /\ proposal.round >= MaxRounds =>
                 AfterRejection(n, proposal) = <<Ended("blocked")>>
           /\ (proposal.round < MaxRounds /\ proposal.slot = 1) =>
                 AfterRejection(n, proposal) =
                     <<Opened(NewId(n), Turn(A, proposal.round + 1, 1))>>
           /\ (proposal.round < MaxRounds /\ proposal.slot = 2) =>
                 AfterRejection(n, proposal) =
                     <<Opened(NewId(n), Turn(B, proposal.round + 1, 2))>>
<1>1. 1 # 2 /\ 1 # 0 /\ 2 # 0
  OBVIOUS
<1>2. proposal.round < MaxRounds <=> ~ (proposal.round >= MaxRounds)
  BY TurnTypes DEF Turns
<1>3. proposal.round >= MaxRounds =>
          AfterRejection(n, proposal) = <<Ended("blocked")>>
  BY <1>1, <1>2, Zenon DEF AfterRejection
<1>4. (proposal.round < MaxRounds /\ proposal.slot = 1) =>
          AfterRejection(n, proposal) =
              <<Opened(NewId(n), Turn(A, proposal.round + 1, 1))>>
  BY <1>1, <1>2, Zenon DEF AfterRejection
<1>5. (proposal.round < MaxRounds /\ proposal.slot = 2) =>
          AfterRejection(n, proposal) =
              <<Opened(NewId(n), Turn(B, proposal.round + 1, 2))>>
  BY <1>1, <1>2, Zenon DEF AfterRejection
<1>. QED BY <1>3, <1>4, <1>5

\* What a handler appends are events, whatever log it has read.
LEMMA ConsequencesType ==
    ASSUME NEW n \in Node, NEW view \in ViewType, view.turn \in Turns,
           NEW result \in Result, NewId(n) \in Id
    PROVE  Consequences(n, view, result) \in Seq(Event)
<1>. PICK turn : turn = view.turn
  OBVIOUS
<1>. PICK p : p = view.proposal
  OBVIOUS
<1>. PICK id : id = NewId(n)
  OBVIOUS
<1>1. /\ turn.by \in Node /\ turn.round \in 1..MaxRounds /\ turn.slot \in {0, 1, 2}
      /\ Peer(turn.by) \in Node
  <2>1. turn.by \in Node /\ turn.round \in 1..MaxRounds /\ turn.slot \in 0..2
    BY DEF Turns
  <2>2. 0..2 = {0, 1, 2}
    OBVIOUS
  <2>. QED BY <2>1, <2>2, TurnTypes
<1>2. A \in Node /\ B \in Node /\ 0 \in 0..2 /\ 1 \in 0..2 /\ 2 \in 0..2
  BY TurnTypes
<1>3. ASSUME NEW x \in Node, NEW r \in 1..MaxRounds, NEW s \in 0..2
      PROVE  <<Opened(id, Turn(x, r, s))>> \in Seq(Event)
  <2>1. Opened(id, Turn(x, r, s)) \in Event
    BY TurnTypes, EventTypes
  <2>. QED BY <2>1
<1>4. \A st \in {"completed", "blocked", "error"} : <<Ended(st)>> \in Seq(Event)
  BY EventTypes
<1>5. CASE result \in {"blocked", "error"}
  BY <1>4, <1>5, ConsequencesEnding
<1>6. CASE result = "complete"
  <2>. PICK next : next = Turn(Peer(turn.by), turn.round, 0)
    OBVIOUS
  <2>1. next \in Turns
    BY <1>1, <1>2, TurnTypes
  <2>2. Proposed(turn) \in Event /\ Opened(id, next) \in Event
    BY <2>1, EventTypes
  <2>3. <<Proposed(turn), Opened(id, next)>> \in Seq(Event)
    BY <2>2
  <2>. QED BY <1>4, <1>6, <2>3, ConsequencesComplete
<1>7. ASSUME turn.slot # 0 PROVE FollowUp(n, turn) \in Seq(Event)
  <2>1. CASE turn.slot = 1
    BY <1>1, <1>2, <1>3, <2>1, FollowUpCases
  <2>2. CASE turn.slot = 2 /\ turn.round >= MaxRounds
    BY <1>4, <2>2, FollowUpCases
  <2>3. CASE turn.slot = 2 /\ ~ (turn.round >= MaxRounds)
    <3>1. turn.round + 1 \in 1..MaxRounds
      BY <1>1, <2>3, TurnTypes
    <3>. QED BY <1>2, <1>3, <2>3, <3>1, FollowUpCases
  <2>. QED BY <1>1, <1>7, <2>1, <2>2, <2>3
<1>8. FollowUp(n, turn) \in Seq(Event)
  <2>1. turn.slot = 0 => FollowUp(n, turn) = <<>>
    <3>1. 1 # 2 /\ 1 # 0 /\ 2 # 0
      OBVIOUS
    <3>. QED BY <3>1, Zenon DEF FollowUp
  <2>2. <<>> \in Seq(Event)
    OBVIOUS
  <2>. QED BY <1>7, <2>1, <2>2
<1>9. ASSUME p \in Turns PROVE AfterRejection(n, p) \in Seq(Event)
  <2>1. p.round \in 1..MaxRounds /\ p.slot \in 0..2
    BY <1>9 DEF Turns
  <2>2. p.slot \in {0, 1, 2}
    BY <2>1
  <2>3. ~ (p.round >= MaxRounds) <=> p.round < MaxRounds
    BY <2>1, TurnTypes
  <2>4. p.round < MaxRounds => p.round + 1 \in 1..MaxRounds
    BY <2>1, TurnTypes
  <2>5. (p.round < MaxRounds /\ p.slot = 0) => AfterRejection(n, p) = <<>>
    <3>1. 1 # 2 /\ 1 # 0 /\ 2 # 0
      OBVIOUS
    <3>. QED BY <2>3, <3>1, Zenon DEF AfterRejection
  <2>6. <<>> \in Seq(Event)
    OBVIOUS
  <2>. QED BY <1>2, <1>3, <1>4, <1>9, <2>2, <2>3, <2>4, <2>5, <2>6, AfterRejectionCases
<1>10. CASE result = "continue"
  <2>1. p # NoTurn => p \in Turns
    BY DEF ViewType
  <2>2. p # NoTurn => <<Rejected>> \o AfterRejection(n, p) \in Seq(Event)
    <3>1. <<Rejected>> \in Seq(Event)
      BY EventTypes
    <3>. QED BY <1>9, <2>1, <3>1, Concat
  <2>. QED BY <1>8, <1>10, <2>2, ConsequencesContinue
<1>. QED BY <1>5, <1>6, <1>10 DEF Result

\* A turn that is due may be opened, under an id that is new.
LEMMA OpenNext ==
    ASSUME NEW h, Sound(h), NEW id \in Id, NEW turn \in Turns,
           Project(h).status = "active", Project(h).turn = NoTurn,
           Due(Project(h), turn), id[2] = Len(Project(h).replies) + 1
    PROVE  Sound(h \o <<Opened(id, turn)>>)
<1>1. h \in Seq(Event)
  BY DEF Sound
<1>. PICK ev : ev = Opened(id, turn)
  OBVIOUS
<1>2. ev \in Event
  BY EventTypes
<1>3. ev.type = "opened" /\ ev.id = id /\ ev.turn = turn
  BY DEF Opened
<1>4. Legal(Project(h), ev)
  BY <1>3 DEF Legal
<1>5. Sound(Append(h, ev))
  BY <1>2, <1>4, SoundAppend
<1>6. h \o <<ev>> = Append(h, ev)
  BY <1>1, <1>2, ConcatOne
<1>. QED BY <1>5, <1>6

LEMMA EndNext ==
    ASSUME NEW h, Sound(h), NEW status \in {"completed", "blocked", "error"},
           Project(h).status = "active", Project(h).turn = NoTurn,
           status = V1!Outcome(Project(h).replies)
    PROVE  Sound(h \o <<Ended(status)>>)
<1>1. h \in Seq(Event)
  BY DEF Sound
<1>. PICK ev : ev = Ended(status)
  OBVIOUS
<1>2. ev \in Event
  BY EventTypes
<1>3. ev.type = "ended" /\ ev.status = status
  BY DEF Ended
<1>4. Legal(Project(h), ev)
  BY <1>3 DEF Legal
<1>5. Sound(Append(h, ev))
  BY <1>2, <1>4, SoundAppend
<1>6. h \o <<ev>> = Append(h, ev)
  BY <1>1, <1>2, ConcatOne
<1>. QED BY <1>5, <1>6

LEMMA ProposeNext ==
    ASSUME NEW h, Sound(h), NEW turn \in Turns, NEW ev,
           ev = Proposed(turn) \/ ev = Rejected,
           Project(h).status = "active", Project(h).turn = NoTurn
    PROVE  LET g == Append(h, ev) IN
           /\ Sound(g) /\ Len(g) = Len(h) + 1 /\ ev \in Event
           /\ Project(g).status = "active" /\ Project(g).turn = NoTurn
           /\ Project(g).id = Project(h).id /\ Project(g).replies = Project(h).replies
           /\ ev = Proposed(turn) => Project(g).proposal = turn
<1>1. h \in Seq(Event)
  BY DEF Sound
<1>2. ev \in Event /\ ev.type \in {"proposed", "rejected"}
      /\ (ev = Proposed(turn) => ev.type = "proposed" /\ ev.turn = turn)
  BY EventTypes DEF Proposed, Rejected
<1>3. Legal(Project(h), ev)
  BY <1>2 DEF Legal
<1>. PICK g : g = Append(h, ev)
  OBVIOUS
<1>4. Sound(g)
  BY <1>2, <1>3, SoundAppend
<1>5. Project(g) = Apply(Project(h), ev) /\ Len(g) = Len(h) + 1
  BY <1>1, <1>2, ProjectAppend
<1>6. Project(h) \in ViewType
  BY SoundGood DEF Good
<1>7. /\ Project(g).status = Project(h).status /\ Project(g).turn = Project(h).turn
      /\ Project(g).id = Project(h).id /\ Project(g).replies = Project(h).replies
      /\ ev.type = "proposed" => Project(g).proposal = ev.turn
  BY <1>2, <1>5, <1>6, ApplyFields
<1>. QED BY <1>2, <1>4, <1>5, <1>7

LEMMA RecordNext ==
    ASSUME NEW h, Sound(h), NEW result \in Result, Project(h).turn # NoTurn
    PROVE  LET v == Project(h)
               r == Answer(v.turn, result)
               ev == Recorded(v.id, v.turn, result)
               g == Append(h, ev) IN
           /\ v.turn \in Turns /\ v.id \in Id /\ v.replies \in Seq(Replied)
           /\ r \in Replied
           /\ v.status = "active" /\ Due(v, v.turn) /\ ConfirmsProposal(v.replies)
           /\ ev \in Event /\ ev.type = "recorded" /\ Legal(v, ev)
           /\ Sound(g) /\ Len(g) = Len(h) + 1 /\ Len(h) \in Nat
           /\ Project(g).status = "active" /\ Project(g).turn = NoTurn
           /\ Project(g).id = v.id /\ Project(g).proposal = v.proposal
           /\ Project(g).replies = Append(v.replies, r)
<1>. PICK v : v = Project(h)
  OBVIOUS
<1>1. h \in Seq(Event) /\ Len(h) \in Nat
  BY DEF Sound
<1>2. Good(v)
  BY SoundGood
<1>3. v \in ViewType /\ v.status = "active" /\ Due(v, v.turn)
      /\ ConfirmsProposal(v.replies)
  BY <1>2 DEF Good
<1>4. v.turn \in Turns /\ v.id \in Id /\ v.replies \in Seq(Replied)
  BY <1>3 DEF ViewType
<1>. PICK ev : ev = Recorded(v.id, v.turn, result)
  OBVIOUS
<1>5. ev \in Event
  BY <1>4, EventTypes
<1>6. ev.type = "recorded" /\ ev.id = v.id /\ ev.turn = v.turn /\ ev.result = result
  BY DEF Recorded
<1>7. Legal(v, ev)
  BY <1>6 DEF Legal
<1>. PICK g : g = Append(h, ev)
  OBVIOUS
<1>8. Sound(g)
  BY <1>5, <1>7, SoundAppend
<1>9. Project(g) = Apply(v, ev) /\ Len(g) = Len(h) + 1
  BY <1>1, <1>5, ProjectAppend
<1>. PICK r : r = Answer(v.turn, result)
  OBVIOUS
<1>10. r \in Replied
  BY <1>4, AnswerType
<1>11. /\ Project(g).status = v.status /\ Project(g).turn = NoTurn
       /\ Project(g).id = v.id /\ Project(g).proposal = v.proposal
       /\ Project(g).replies = Append(v.replies, r)
  <2>1. ev.type # "claimed" /\ ev.type \notin {"created", "opened", "proposed"}
        /\ ev.type \notin {"rejected", "ended"}
    BY <1>6
  <2>2. Answer(ev.turn, ev.result) = r
    BY <1>6
  <2>3. LET w == Apply(v, ev) IN
        /\ w.status = v.status /\ w.turn = NoTurn /\ w.id = v.id
        /\ w.proposal = v.proposal
        /\ w.replies = Append(v.replies, Answer(ev.turn, ev.result))
    <3>1. v \in ViewType
      BY <1>3
    <3>. PICK w : w = Apply(v, ev)
      OBVIOUS
    <3>2. /\ w.status = v.status /\ w.id = v.id /\ w.turn = NoTurn
          /\ w.proposal = v.proposal
          /\ w.replies = Append(v.replies, Answer(ev.turn, ev.result))
      <4>1. w = [v EXCEPT !.replies = Append(@, Answer(ev.turn, ev.result)),
                          !.turn = NoTurn]
        <5>1. ev.type = "recorded"
          BY <1>6
        <5>. QED BY <5>1, ApplyRecorded, Zenon
      <4>2. /\ w.status = v.status /\ w.id = v.id /\ w.proposal = v.proposal
            /\ w.turn = NoTurn
        BY <3>1, <4>1 DEF ViewType
      <4>3. w.replies = Append(v.replies, Answer(ev.turn, ev.result))
        BY <3>1, <4>1 DEF ViewType
      <4>. QED BY <4>2, <4>3
    <3>. QED BY <3>2
  <2>. QED BY <1>9, <2>2, <2>3
<1>. QED BY <1>1, <1>3, <1>4, <1>5, <1>6, <1>7, <1>8, <1>9, <1>10, <1>11

\* What follows a reply, of the state that the reply leaves.
LEMMA ReplySound ==
    ASSUME NEW n \in Node, NEW result \in Result, NEW h, h = History(n), Sound(h),
           NEW v, v = Project(h), v.turn # NoTurn
    PROVE  LET q == <<Recorded(v.id, v.turn, result)>> \o Consequences(n, v, result) IN
           q \in Seq(Event) /\ Sound(h \o q)
<1>. PICK ev : ev = Recorded(v.id, v.turn, result)
  OBVIOUS
<1>. PICK r : r = Answer(v.turn, result)
  OBVIOUS
<1>. PICK g : g = Append(h, ev)
  OBVIOUS
<1>. PICK turn : turn = v.turn
  OBVIOUS
<1>. PICK id : id = NewId(n)
  OBVIOUS
<1>1. /\ turn \in Turns /\ v.replies \in Seq(Replied)
      /\ r \in Replied
      /\ Due(v, turn) /\ ConfirmsProposal(v.replies)
      /\ ev \in Event
      /\ Sound(g) /\ Len(g) = Len(h) + 1 /\ Len(h) \in Nat
      /\ Project(g).status = "active" /\ Project(g).turn = NoTurn
      /\ Project(g).id = v.id /\ Project(g).proposal = v.proposal
      /\ Project(g).replies = Append(v.replies, r)
  BY RecordNext
<1>2. h \in Seq(Event) /\ g \in Seq(Event)
  BY <1>1 DEF Sound
<1>. PICK k : k = Len(v.replies) + 2
  OBVIOUS
<1>3. id \in Id /\ id[2] = k /\ k \in Nat
  <2>1. id = <<n, k>>
    BY DEF NewId, View
  <2>2. k \in Nat
    BY <1>1
  <2>. QED BY <2>1, <2>2 DEF Id
<1>4. turn.by \in Node /\ turn.round \in 1..MaxRounds /\ turn.slot \in 0..2
      /\ turn.slot \in {0, 1, 2}
  <2>1. turn.by \in Node /\ turn.round \in 1..MaxRounds /\ turn.slot \in 0..2
    BY <1>1 DEF Turns
  <2>2. 0..2 = {0, 1, 2}
    OBVIOUS
  <2>. QED BY <2>1, <2>2
<1>5. r.by = turn.by /\ r.slot = turn.slot /\ r.round = turn.round /\ r.result = result
      /\ TurnOf(r) = turn
  BY <1>1, AnswerType
<1>. PICK q : q = Project(g).replies
  OBVIOUS
<1>6. q # <<>> /\ V1!Last(q) = r /\ (r.slot # 0 => V1!Answered(q) = r)
      /\ id[2] = Len(q) + 1
  <2>1. q # <<>> /\ V1!Last(q) = r /\ (r.slot # 0 => V1!Answered(q) = r)
        /\ Len(q) = Len(v.replies) + 1
    BY <1>1, LastAfter
  <2>. QED BY <1>1, <1>3, <2>1
\* The slot of the turn that a declined proposal stands for.
<1>. PICK p : p = v.proposal
  OBVIOUS
<1>7. ASSUME turn.slot = 0
      PROVE  /\ p \in Turns /\ p # NoTurn /\ p.slot \in {1, 2} /\ p.by # turn.by
             /\ p.round \in 1..MaxRounds
             /\ V1!Answered(q).round = p.round /\ V1!Answered(q).slot = p.slot
  <2>1. V1!TurnAfter(v.replies) = turn /\ V1!Outcome(v.replies) = "active"
        /\ p = TurnOf(V1!Last(v.replies))
    BY <1>1, <1>7 DEF Due
  <2>. PICK last : last = V1!Last(v.replies)
    OBVIOUS
  <2>2. v.replies # <<>> /\ last.slot # 0 /\ turn.by # last.by
    BY <1>1, <1>7, <2>1, DueConfirmation
  <2>3. last \in Replied /\ last = v.replies[Len(v.replies)]
        /\ Len(v.replies) \in Nat /\ Len(v.replies) \in 1..Len(v.replies)
    BY <1>1, <2>2, LastReply
  <2>4. Len(v.replies) > 0
    BY <2>3
  <2>5. V1!Answered(q) = last
    BY <1>1, <1>5, <1>7, <2>3, <2>4, LastAfter
  <2>6. last.by \in Node /\ last.round \in 1..MaxRounds /\ last.slot \in 0..2
    BY <2>3 DEF Replied
  <2>7. p \in Turns /\ p.by = last.by /\ p.round = last.round /\ p.slot = last.slot
    BY <2>1, <2>6, TurnTypes DEF TurnOf
  <2>8. p.slot \in {1, 2}
    BY <2>2, <2>6, <2>7
  <2>9. p # NoTurn
    BY <2>7, TurnTypes
  <2>. QED BY <2>2, <2>5, <2>6, <2>7, <2>8, <2>9
<1>8. Sound(g \o Consequences(n, v, result)) /\ Consequences(n, v, result) \in Seq(Event)
  <2>1. CASE result \in {"blocked", "error"}
    <3>1. Consequences(n, v, result) = <<Ended(result)>>
      BY <2>1, ConsequencesEnding
    <3>2. V1!Outcome(q) = result
      BY <1>5, <1>6, <2>1, OutcomeCases
    <3>3. Ended(result) \in Event
      BY <2>1, EventTypes
    <3>4. Sound(g \o <<Ended(result)>>)
      BY <1>1, <2>1, <3>2, EndNext
    <3>. QED BY <1>2, <3>1, <3>3, <3>4, ConcatOne
  <2>2. CASE result = "complete" /\ turn.slot = 0
    <3>1. Consequences(n, v, result) = <<Ended("completed")>>
      BY <1>7, <2>2, ConsequencesComplete
    <3>2. V1!Outcome(q) = "completed"
      BY <1>5, <1>6, <2>2, OutcomeCases
    <3>3. Ended("completed") \in Event
      BY EventTypes
    <3>4. Sound(g \o <<Ended("completed")>>)
      BY <1>1, <3>2, EndNext
    <3>. QED BY <1>2, <3>1, <3>3, <3>4, ConcatOne
  <2>3. CASE result = "complete" /\ turn.slot # 0
    <3>. PICK next : next = Turn(Peer(turn.by), turn.round, 0)
      OBVIOUS
    <3>1. Consequences(n, v, result) = <<Proposed(turn), Opened(id, next)>>
      BY <2>3, ConsequencesComplete
    <3>. PICK g2 : g2 = Append(g, Proposed(turn))
      OBVIOUS
    <3>2. /\ Sound(g2) /\ Len(g2) = Len(g) + 1 /\ Proposed(turn) \in Event
          /\ Project(g2).status = "active" /\ Project(g2).turn = NoTurn
          /\ Project(g2).id = Project(g).id /\ Project(g2).replies = q
          /\ Project(g2).proposal = turn
      BY <1>1, ProposeNext
    <3>3. next \in Turns /\ next = V1!Turn(V1!Other(turn.by), turn.round, 0)
      BY <1>4, TurnTypes
    <3>4. V1!Outcome(q) = "active" /\ V1!TurnAfter(q) = next
      BY <1>5, <1>6, <2>3, <3>3, OutcomeCases, TurnAfterCases
    <3>5. Due(Project(g2), next)
      BY <1>5, <1>6, <3>2, <3>4 DEF Due
    <3>6. id[2] = Len(Project(g2).replies) + 1
      BY <1>6, <3>2
    <3>7. Sound(g2 \o <<Opened(id, next)>>)
      BY <1>3, <3>2, <3>3, <3>5, <3>6, OpenNext
    <3>8. Opened(id, next) \in Event
      BY <1>3, <3>3, EventTypes
    <3>9. <<Opened(id, next)>> \in Seq(Event)
      BY <3>8
    <3>10. g \o (<<Proposed(turn)>> \o <<Opened(id, next)>>) = g2 \o <<Opened(id, next)>>
      <4>. PICK x : x = Proposed(turn)
        OBVIOUS
      <4>. PICK q1 : q1 = <<Opened(id, next)>>
        OBVIOUS
      <4>1. x \in Event /\ g \in Seq(Event) /\ q1 \in Seq(Event)
        BY <1>2, <3>2, <3>9
      <4>2. g \o (<<x>> \o q1) = Append(g, x) \o q1
        BY <4>1, ConcatCons, SMTT(20)
      <4>. QED BY <4>2
    <3>11. <<Proposed(turn), Opened(id, next)>> = <<Proposed(turn)>> \o <<Opened(id, next)>>
      OBVIOUS
    <3>12. <<Proposed(turn), Opened(id, next)>> \in Seq(Event)
      BY <3>2, <3>8
    <3>. QED BY <3>1, <3>7, <3>10, <3>11, <3>12
  <2>4. CASE result = "continue" /\ turn.slot = 0
    <3>. PICK c : c = AfterRejection(n, p)
      OBVIOUS
    <3>1. Consequences(n, v, result) = <<Rejected>> \o c
      BY <1>7, <2>4, ConsequencesContinue
    <3>. PICK g2 : g2 = Append(g, Rejected)
      OBVIOUS
    <3>2. /\ Sound(g2) /\ Len(g2) = Len(g) + 1 /\ Rejected \in Event
          /\ Project(g2).status = "active" /\ Project(g2).turn = NoTurn
          /\ Project(g2).id = Project(g).id /\ Project(g2).replies = q
      BY <1>1, ProposeNext
    <3>3. V1!Outcome(q) = IF p.round >= MaxRounds THEN "blocked" ELSE "active"
      BY <1>5, <1>6, <1>7, <2>4, OutcomeCases
    <3>4. id[2] = Len(Project(g2).replies) + 1
      BY <1>6, <3>2
    <3>5. Sound(g2 \o c) /\ c \in Seq(Event)
      <4>1. CASE p.round >= MaxRounds
        <5>1. c = <<Ended("blocked")>>
          BY <1>7, <2>4, <4>1, AfterRejectionCases
        <5>2. Sound(g2 \o <<Ended("blocked")>>)
          BY <3>2, <3>3, <4>1, EndNext
        <5>3. Ended("blocked") \in Event
          BY EventTypes
        <5>. QED BY <5>1, <5>2, <5>3
      <4>2. CASE ~ (p.round >= MaxRounds)
        <5>1. p.round + 1 \in 1..MaxRounds /\ p.round < MaxRounds
          BY <1>7, <2>4, <4>2, TurnTypes
        <5>. DEFINE next == IF p.slot = 1 THEN Turn(A, p.round + 1, 1)
                            ELSE Turn(B, p.round + 1, 2)
        <5>2. c = <<Opened(id, next)>>
          BY <1>7, <2>4, <5>1, AfterRejectionCases
        <5>3. 1 \in 0..2 /\ 2 \in 0..2
          OBVIOUS
        <5>4. /\ next \in Turns /\ next.slot # 0
              /\ next = IF p.slot = 1 THEN V1!Turn(A, p.round + 1, 1)
                        ELSE V1!Turn(B, p.round + 1, 2)
          BY <5>1, <5>3, TurnTypes
        <5>5. V1!TurnAfter(q) = IF p.slot = 1 THEN V1!Turn(A, p.round + 1, 1)
                                ELSE V1!Turn(B, p.round + 1, 2)
          BY <1>5, <1>6, <1>7, <2>4, TurnAfterCases
        <5>. HIDE DEF next
        <5>6. Due(Project(g2), next)
          BY <3>2, <3>3, <4>2, <5>4, <5>5 DEF Due
        <5>7. Sound(g2 \o <<Opened(id, next)>>)
          BY <1>3, <3>2, <3>4, <5>4, <5>6, OpenNext
        <5>8. Opened(id, next) \in Event
          BY <1>3, <5>4, EventTypes
        <5>. QED BY <5>2, <5>7, <5>8
      <4>. QED BY <4>1, <4>2
    <3>6. g \o (<<Rejected>> \o c) = g2 \o c
      BY <1>2, <3>2, <3>5, ConcatCons
    <3>7. <<Rejected>> \o c \in Seq(Event)
      BY <3>2, <3>5, Concat, ConcatOne, <1>2
    <3>. QED BY <3>1, <3>5, <3>6, <3>7
  <2>5. CASE result = "continue" /\ turn.slot # 0
    <3>. PICK c : c = FollowUp(n, turn)
      OBVIOUS
    <3>1. Consequences(n, v, result) = c
      BY <2>5, ConsequencesContinue
    <3>2. id[2] = Len(Project(g).replies) + 1
      BY <1>6
    <3>3. V1!Outcome(q) = IF turn.slot # 1 /\ turn.round >= MaxRounds
                          THEN "blocked" ELSE "active"
      BY <1>5, <1>6, <2>5, OutcomeCases
    <3>4. CASE turn.slot = 2 /\ turn.round >= MaxRounds
      <4>1. c = <<Ended("blocked")>>
        BY <3>4, FollowUpCases
      <4>2. V1!Outcome(q) = "blocked"
        BY <3>3, <3>4
      <4>3. Sound(g \o <<Ended("blocked")>>)
        BY <1>1, <4>2, EndNext
      <4>4. Ended("blocked") \in Event
        BY EventTypes
      <4>. QED BY <3>1, <4>1, <4>3, <4>4
    <3>5. CASE turn.slot = 1 \/ (turn.slot = 2 /\ ~ (turn.round >= MaxRounds))
      <4>. DEFINE next == IF turn.slot = 1 THEN Turn(B, turn.round, 2)
                          ELSE Turn(A, turn.round + 1, 1)
      <4>1. c = <<Opened(id, next)>>
        BY <3>5, FollowUpCases
      <4>2. 1 \in 0..2 /\ 2 \in 0..2 /\ (turn.slot # 1 => turn.round + 1 \in 1..MaxRounds)
        BY <1>4, <3>5, TurnTypes
      <4>3. /\ next \in Turns /\ next.slot # 0
            /\ next = IF turn.slot = 1 THEN V1!Turn(B, turn.round, 2)
                      ELSE V1!Turn(A, turn.round + 1, 1)
        BY <1>4, <4>2, TurnTypes
      <4>4. V1!TurnAfter(q) = IF turn.slot = 1 THEN V1!Turn(B, turn.round, 2)
                              ELSE V1!Turn(A, turn.round + 1, 1)
        BY <1>5, <1>6, <2>5, <3>5, TurnAfterCases
      <4>5. V1!Outcome(q) = "active"
        BY <3>3, <3>5
      <4>. HIDE DEF next
      <4>6. Due(Project(g), next)
        BY <4>3, <4>4, <4>5 DEF Due
      <4>7. Sound(g \o <<Opened(id, next)>>)
        BY <1>1, <1>3, <3>2, <4>3, <4>6, OpenNext
      <4>8. Opened(id, next) \in Event
        BY <1>3, <4>3, EventTypes
      <4>. QED BY <3>1, <4>1, <4>7, <4>8
    <3>. QED BY <1>4, <2>5, <3>4, <3>5
  <2>. QED BY <2>1, <2>2, <2>3, <2>4, <2>5 DEF Result
<1>9. h \o (<<ev>> \o Consequences(n, v, result)) = g \o Consequences(n, v, result)
  <2>. PICK c : c = Consequences(n, v, result)
    OBVIOUS
  <2>1. ev \in Event /\ h \in Seq(Event) /\ c \in Seq(Event)
    BY <1>1, <1>2, <1>8
  <2>2. h \o (<<ev>> \o c) = Append(h, ev) \o c
    BY <2>1, ConcatCons
  <2>. QED BY <2>2
<1>10. <<ev>> \o Consequences(n, v, result) \in Seq(Event)
  BY <1>1, <1>2, <1>8, ConcatOne, Concat
<1>. QED BY <1>8, <1>9, <1>10

-----------------------------------------------------------------------------
(* The state of the nodes.                                                  *)

LEMMA OwnerFacts ==
    /\ Owner(0) = B /\ Owner(1) = A
    /\ \A e \in Nat : Owner(e) \in Node /\ Owner(e + 1) = Peer(Owner(e))
<1>1. 0 % 2 = 0 /\ 1 % 2 = 1
  OBVIOUS
<1>2. ASSUME NEW e \in Nat PROVE Owner(e) \in Node /\ Owner(e + 1) = Peer(Owner(e))
  <2>1. e % 2 \in {0, 1} /\ (e % 2 = 1 <=> (e + 1) % 2 # 1)
    OBVIOUS
  <2>. QED BY <2>1, Participants DEF Owner, Peer, Node
<1>. QED BY <1>1, <1>2 DEF Owner

LEMMA StateFacts ==
    ASSUME TypeOK, NEW n \in Node
    PROVE  /\ log[n] \in Logs /\ pending[n] \in Seq(Event)
           /\ epoch[n] \in 0..MaxEpoch /\ epoch[n] \in Nat
           /\ epoch[n] > 0 => epoch[n] \in Epoch
           /\ \A e \in 0..MaxEpoch : Joined(log[n])[e] \in Seq(Event)
           /\ History(n) \in Seq(Event)
           /\ History(n) = Joined(log[n])[MaxEpoch]
           /\ History(n)' = Joined(log'[n])[MaxEpoch]
           /\ View(n) = Project(History(n)) /\ View(n)' = Project(History(n)')
           /\ View(n) \in ViewType
<1>1. log[n] \in Logs /\ pending[n] \in Seq(Event) /\ epoch[n] \in 0..MaxEpoch
  BY DEF TypeOK, Logs
<1>2. MaxEpoch \in Nat /\ MaxEpoch \in 0..MaxEpoch
  BY Limits
<1>3. epoch[n] \in Nat /\ (epoch[n] > 0 => epoch[n] \in Epoch)
  BY <1>1, <1>2 DEF Epoch
<1>4. \A e \in 0..MaxEpoch : Joined(log[n])[e] \in Seq(Event)
  BY <1>1, JoinedType
<1>5. History(n) = Joined(log[n])[MaxEpoch]
  BY ListedJoined DEF History
<1>6. History(n)' = Joined(log'[n])[MaxEpoch]
  BY ListedJoined DEF History
<1>7. History(n) \in Seq(Event)
  BY <1>2, <1>4, <1>5
<1>8. View(n) \in ViewType
  BY <1>7, ViewsType DEF View
<1>. QED BY <1>1, <1>3, <1>4, <1>5, <1>6, <1>7, <1>8 DEF View

\* What a node holds is sound, with and without what it is about to append.
LEMMA HistorySound ==
    ASSUME TypeOK, Records, NEW n \in Node
    PROVE  Sound(History(n)) /\ Good(View(n))
<1>1. Sound(History(n) \o pending[n])
  BY DEF Records
<1>2. Sound(History(n))
  BY <1>1, StateFacts, SoundPrefix
<1>. QED BY <1>2, StateFacts, SoundGood

\* A node holds q of epoch m from now on, and nothing else changes.
Writes(n, m, q) == log' = [log EXCEPT ![n][m] = q]

\* What a node holds of earlier epochs stays, and so does the log of its peer.
OnlyLast(n, m) ==
    /\ log' \in [Node -> Logs] /\ HeadAt(log'[n], m)
    /\ \A p \in Node : p # n => /\ log'[p] = log[p]
                                /\ History(p)' = History(p)
                                /\ View(p)' = View(p)
    /\ \A e \in 0..(m - 1) : Joined(log'[n])[e] = Joined(log[n])[e]

LEMMA LogUpdate ==
    ASSUME TypeOK, NEW n \in Node, NEW m \in Epoch, HeadAt(log[n], m),
           NEW q \in Seq(Event), Writes(n, m, q)
    PROVE  /\ OnlyLast(n, m)
           /\ History(n) = Joined(log[n])[m - 1] \o log[n][m]
           /\ Joined(log'[n])[MaxEpoch] = Joined(log[n])[m - 1] \o q
           /\ Joined(log[n])[m - 1] \in Seq(Event)
<1>1. log \in [Node -> Logs] /\ log[n] \in Logs
  BY DEF TypeOK, Logs
<1>. PICK new : new = [log[n] EXCEPT ![m] = q]
  OBVIOUS
<1>2. log' = [log EXCEPT ![n] = new]
  BY Zenon DEF Writes
<1>3. log'[n] = new /\ \A p \in Node : p # n => log'[p] = log[p]
  BY <1>1, <1>2
<1>4. /\ new \in Logs /\ HeadAt(new, m) /\ new[m] = q
      /\ \A e \in 0..(m - 1) : Joined(new)[e] = Joined(log[n])[e]
      /\ Joined(log[n])[MaxEpoch] = Joined(log[n])[m - 1] \o log[n][m]
      /\ Joined(new)[MaxEpoch] = Joined(log[n])[m - 1] \o q
      /\ Joined(log[n])[m - 1] \in Seq(Event)
  <2>1. log[n] \in Logs
    BY <1>1
  <2>2. HeadAt(log[n], m) /\ new = [log[n] EXCEPT ![m] = q]
    OBVIOUS
  <2>. HIDE DEF Logs
  <2>. QED BY <2>1, <2>2, JoinedExcept, Zenon
<1>5. log' \in [Node -> Logs]
  BY <1>1, <1>2, <1>4
<1>6. History(n) = Joined(log[n])[MaxEpoch] /\ History(n)' = Joined(log'[n])[MaxEpoch]
  BY StateFacts
<1>7. ASSUME NEW p \in Node, p # n
      PROVE  log'[p] = log[p] /\ History(p)' = History(p) /\ View(p)' = View(p)
  <2>1. log'[p] = log[p]
    BY <1>3, <1>7
  <2>2. History(p)' = History(p)
    BY <2>1, StateFacts
  <2>. QED BY <2>1, <2>2, StateFacts
<1>. QED BY <1>3, <1>4, <1>5, <1>6, <1>7 DEF OnlyLast

LEMMA ConcatAppend ==
    ASSUME NEW g \in Seq(Event), NEW h \in Seq(Event), NEW ev \in Event
    PROVE  g \o Append(h, ev) = Append(g \o h, ev)
<1>1. <<ev>> \in Seq(Event) /\ h \o <<ev>> = Append(h, ev)
  BY ConcatOne
<1>2. (g \o h) \o <<ev>> = g \o (h \o <<ev>>)
  BY <1>1, ConcatAssociative
<1>3. (g \o h) \o <<ev>> = Append(g \o h, ev)
  BY Concat, ConcatOne
<1>. QED BY <1>1, <1>2, <1>3

LEMMA LogAppend ==
    ASSUME TypeOK, NEW n \in Node, NEW m \in Epoch, HeadAt(log[n], m),
           NEW ev \in Event, NEW q \in Seq(Event), q = Append(log[n][m], ev),
           Writes(n, m, q)
    PROVE  /\ OnlyLast(n, m)
           /\ Joined(log[n])[m] = History(n) /\ Joined(log'[n])[m] = History(n)'
           /\ History(n)' = Append(History(n), ev)
<1>1. log[n] \in Logs
  BY StateFacts
<1>2. log[n][m] \in Seq(Event)
  BY <1>1 DEF Logs
<1>5. /\ OnlyLast(n, m)
      /\ History(n) = Joined(log[n])[m - 1] \o log[n][m]
      /\ Joined(log'[n])[MaxEpoch] = Joined(log[n])[m - 1] \o q
      /\ Joined(log[n])[m - 1] \in Seq(Event)
  BY LogUpdate
<1>6. m \in 0..MaxEpoch
  BY TurnTypes DEF Epoch
<1>7. Joined(log[n])[m] = History(n)
  BY <1>1, <1>6, JoinedHead, StateFacts
<1>8. Joined(log'[n])[m] = History(n)'
  <2>1. log'[n] \in Logs
    BY <1>5 DEF OnlyLast
  <2>2. Joined(log'[n])[m] = Joined(log'[n])[MaxEpoch]
    BY <1>5, <1>6, <2>1, JoinedHead DEF OnlyLast
  <2>. QED BY <2>2, StateFacts
<1>9. History(n)' = Append(History(n), ev)
  <2>1. Joined(log[n])[m - 1] \in Seq(Event)
    BY <1>5 DEF OnlyLast
  <2>2. Joined(log[n])[m - 1] \o Append(log[n][m], ev)
            = Append(Joined(log[n])[m - 1] \o log[n][m], ev)
    BY <1>2, <2>1, ConcatAppend
  <2>3. History(n)' = Joined(log'[n])[MaxEpoch]
    BY StateFacts
  <2>. QED BY <1>5, <2>2, <2>3 DEF OnlyLast
<1>. QED BY <1>5, <1>7, <1>8, <1>9

\* Nothing is written, and no epoch begins.
LEMMA LogSame ==
    ASSUME TypeOK, UNCHANGED <<log, epoch>>
    PROVE  /\ \A n \in Node : /\ History(n)' = History(n) /\ View(n)' = View(n)
                              /\ MayAct(n)' = MayAct(n)
                              /\ Coordinates(n)' = Coordinates(n)
           /\ BasesAgree => BasesAgree'
<1>1. ASSUME NEW n \in Node PROVE History(n)' = History(n) /\ View(n)' = View(n)
  <2>1. History(n)' = History(n)
    BY StateFacts
  <2>. QED BY <2>1, StateFacts
<1>2. ASSUME NEW n \in Node
      PROVE  MayAct(n)' = MayAct(n) /\ Coordinates(n)' = Coordinates(n)
  BY DEF MayAct, Coordinates
<1>3. ASSUME BasesAgree PROVE BasesAgree'
  BY <1>3 DEF BasesAgree, MayAct, Coordinates
<1>. QED BY <1>1, <1>2, <1>3

-----------------------------------------------------------------------------
(* The actions that write nothing.                                          *)

\* A handler starts: what it will append is legal after what the node holds.
LEMMA HandlerStarts ==
    ASSUME Always, NEW n \in Node, MayAct(n), NEW q \in Seq(Event),
           pending' = [pending EXCEPT ![n] = q],
           UNCHANGED <<log, epoch, lapsed, recovery, strayed>>
    PROVE  /\ Always'
           /\ (Admitted /\ Sound(History(n) \o q)) => Admitted'
<1>1. TypeOK /\ Heads /\ Recovering
  BY DEF Always
<1>2. /\ \A p \in Node : History(p)' = History(p) /\ View(p)' = View(p)
      /\ BasesAgree => BasesAgree'
  BY <1>1, LogSame
<1>3. \A p \in Node : pending'[p] = IF p = n THEN q ELSE pending[p]
  BY <1>1 DEF TypeOK
<1>4. Coordinates(n) /\ epoch[Peer(n)] <= epoch[n]
  BY DEF MayAct
<1>5. TypeOK'
  BY <1>1 DEF TypeOK
<1>6. Heads'
  <2>. SUFFICES ASSUME NEW p \in Node
                PROVE  /\ HeadAt(log'[p], epoch'[p])
                       /\ epoch'[p] <= epoch'[Peer(p)] + 1
                       /\ epoch'[p] > epoch'[Peer(p)] =>
                             Owner(epoch'[p]) = p /\ pending'[Peer(p)] = <<>>
                       /\ pending'[p] # <<>> => Coordinates(p)'
    BY DEF Heads
  <2>1. /\ HeadAt(log[p], epoch[p])
        /\ epoch[p] <= epoch[Peer(p)] + 1
        /\ epoch[p] > epoch[Peer(p)] => Owner(epoch[p]) = p /\ pending[Peer(p)] = <<>>
        /\ pending[p] # <<>> => Coordinates(p)
    BY <1>1 DEF Heads
  <2>2. Coordinates(p)' = Coordinates(p)
    BY DEF Coordinates
  <2>3. ASSUME epoch[p] > epoch[Peer(p)] PROVE pending'[Peer(p)] = <<>>
    <3>1. Peer(p) \in Node
      BY TurnTypes
    <3>2. Peer(p) # n
      <4>1. Peer(p) = n => p = Peer(n)
        BY TurnTypes
      <4>2. epoch[Peer(n)] \in Nat /\ epoch[n] \in Nat
        BY <1>1, TurnTypes, StateFacts
      <4>. QED BY <1>4, <2>3, <4>1, <4>2
    <3>. QED BY <1>3, <2>1, <2>3, <3>1, <3>2
  <2>. QED BY <1>3, <1>4, <2>1, <2>2, <2>3
<1>7. ASSUME Records, Sound(History(n) \o q) PROVE Records'
  <2>. SUFFICES ASSUME NEW p \in Node PROVE Sound(History(p)' \o pending'[p])
    BY DEF Records
  <2>. QED BY <1>2, <1>3, <1>7 DEF Records
<1>8. Recovering'
  BY <1>1 DEF Recovering
<1>. QED BY <1>2, <1>5, <1>6, <1>7, <1>8 DEF Always, Admitted

LEMMA ClaimStep ==
    ASSUME Always, NEW n \in Node, Claim(n)
    PROVE  Always' /\ (Admitted => Admitted')
<1>1. TypeOK
  BY DEF Always
<1>. PICK v : v = View(n)
  OBVIOUS
<1>2. v.turn # NoTurn /\ MayAct(n)
  BY DEF Claim
<1>. PICK ev : ev = Claimed(v.id)
  OBVIOUS
<1>3. v = Project(History(n)) /\ History(n) \in Seq(Event) /\ v \in ViewType
  BY <1>1, StateFacts
<1>4. ev \in Event /\ <<ev>> \in Seq(Event)
  <2>1. v.id \in Id
    BY <1>3 DEF ViewType
  <2>. QED BY <2>1, EventTypes
<1>5. ev.type = "claimed" /\ ev.id = v.id
  BY DEF Claimed
<1>6. Legal(v, ev)
  BY <1>2, <1>5 DEF Legal
<1>7. ASSUME Records PROVE Sound(History(n) \o <<ev>>)
  <2>1. Sound(History(n))
    BY <1>1, <1>7, HistorySound
  <2>2. Sound(Append(History(n), ev))
    BY <1>3, <1>4, <1>6, <2>1, SoundAppend
  <2>. QED BY <1>3, <1>4, <2>2, ConcatOne
<1>8. pending' = [pending EXCEPT ![n] = <<ev>>]
      /\ UNCHANGED <<log, epoch, lapsed, recovery, strayed>>
  BY DEF Claim
<1>9. /\ Always'
      /\ (Admitted /\ Sound(History(n) \o <<ev>>)) => Admitted'
  BY <1>2, <1>4, <1>8, HandlerStarts
<1>. QED BY <1>7, <1>9 DEF Admitted

\* What a reply appends, as events.
LEMMA ReplyTypes ==
    ASSUME TypeOK, NEW n \in Node, View(n).turn # NoTurn, NEW result \in Result
    PROVE  LET v == View(n) IN
           /\ v.id \in Id /\ v.turn \in Turns /\ NewId(n) \in Id
           /\ Recorded(v.id, v.turn, result) \in Event
           /\ Consequences(n, v, result) \in Seq(Event)
           /\ <<Recorded(v.id, v.turn, result)>> \o Consequences(n, v, result)
                  \in Seq(Event)
<1>. PICK v : v = View(n)
  OBVIOUS
<1>1. v \in ViewType /\ v.turn # NoTurn
  BY StateFacts
<1>2. v.id \in Id /\ v.turn \in Turns /\ v.replies \in Seq(Replied)
  BY <1>1 DEF ViewType
<1>3. NewId(n) \in Id
  <2>1. Len(v.replies) \in Nat
    BY <1>2, LenProperties
  <2>2. Len(v.replies) + 2 \in Nat
    BY <2>1
  <2>. QED BY <2>2 DEF NewId, Id
<1>4. Consequences(n, v, result) \in Seq(Event)
  BY <1>1, <1>2, <1>3, ConsequencesType
<1>5. Recorded(v.id, v.turn, result) \in Event
  BY <1>2, EventTypes
<1>6. <<Recorded(v.id, v.turn, result)>> \o Consequences(n, v, result) \in Seq(Event)
  <2>1. <<Recorded(v.id, v.turn, result)>> \in Seq(Event)
    BY <1>5
  <2>. QED BY <1>4, <2>1, Concat
<1>. QED BY <1>2, <1>3, <1>4, <1>5, <1>6

LEMMA ReplyStep ==
    ASSUME Always, NEW n \in Node, Reply(n)
    PROVE  Always' /\ (Admitted => Admitted')
<1>1. TypeOK
  BY DEF Always
<1>. PICK v : v = View(n)
  OBVIOUS
<1>2. v.turn # NoTurn /\ MayAct(n)
  BY DEF Reply
<1>3. PICK result \in Answers :
          pending' = [pending EXCEPT ![n] =
              <<Recorded(v.id, v.turn, result)>> \o Consequences(n, v, result)]
  BY DEF Reply
<1>4. result \in Result
  BY Limits DEF Result
<1>. PICK q : q = <<Recorded(v.id, v.turn, result)>> \o Consequences(n, v, result)
  OBVIOUS
<1>5. q \in Seq(Event) /\ v = Project(History(n))
  BY <1>1, <1>2, <1>4, ReplyTypes, StateFacts
<1>6. ASSUME Records PROVE Sound(History(n) \o q)
  <2>1. Sound(History(n))
    BY <1>1, <1>6, HistorySound
  <2>. QED BY <1>2, <1>4, <1>5, <2>1, ReplySound
<1>7. pending' = [pending EXCEPT ![n] = q]
      /\ UNCHANGED <<log, epoch, lapsed, recovery, strayed>>
  BY <1>3 DEF Reply
<1>8. Always' /\ ((Admitted /\ Sound(History(n) \o q)) => Admitted')
  BY <1>2, <1>5, <1>7, HandlerStarts
<1>. QED BY <1>6, <1>8 DEF Admitted

LEMMA CrashStep ==
    ASSUME Always, NEW n \in Node, Crash(n)
    PROVE  Always' /\ (Admitted => Admitted')
<1>1. TypeOK /\ Heads /\ Recovering
  BY DEF Always
<1>2. /\ UNCHANGED <<log, epoch, lapsed, recovery, strayed>>
      /\ pending' = [pending EXCEPT ![n] = <<>>]
  BY DEF Crash
<1>3. /\ \A p \in Node : /\ History(p)' = History(p) /\ View(p)' = View(p)
                         /\ Coordinates(p)' = Coordinates(p)
      /\ BasesAgree => BasesAgree'
  BY <1>1, <1>2, LogSame
<1>4. \A p \in Node : pending'[p] = IF p = n THEN <<>> ELSE pending[p]
  BY <1>1, <1>2 DEF TypeOK
<1>5. TypeOK'
  BY <1>1, <1>2 DEF TypeOK
<1>6. Heads'
  BY <1>1, <1>2, <1>3, <1>4, TurnTypes DEF Heads
<1>7. ASSUME Records PROVE Records'
  <2>. SUFFICES ASSUME NEW p \in Node PROVE Sound(History(p)' \o pending'[p])
    BY DEF Records
  <2>1. Sound(History(p)) /\ History(p) \in Seq(Event)
    BY <1>1, <1>7, HistorySound, StateFacts
  <2>2. History(p) \o <<>> = History(p)
    BY <2>1, ConcatEmptySeq
  <2>. QED BY <1>3, <1>4, <1>7, <2>1, <2>2 DEF Records
<1>8. Recovering'
  BY <1>1, <1>2 DEF Recovering
<1>. QED BY <1>3, <1>5, <1>6, <1>7, <1>8 DEF Always, Admitted

\* Only the clock and the supervisor move.
LEMMA WaitingSame ==
    ASSUME Always, UNCHANGED <<log, epoch, pending, strayed>>,
           lapsed' \in [Node -> BOOLEAN],
           recovery' \in [Node -> {<<>>} \cup (Epoch \X Event)],
           \A n \in Node : (recovery'[n] # recovery[n] /\ recovery'[n] # <<>>) =>
               /\ recovery'[n][1] = epoch[n] /\ Owner(epoch[n]) = n
               /\ recovery'[n][2].type = "opened"
    PROVE  Always' /\ (Admitted => Admitted')
<1>1. TypeOK /\ Heads /\ Recovering
  BY DEF Always
<1>2. /\ \A p \in Node : /\ History(p)' = History(p) /\ View(p)' = View(p)
                         /\ Coordinates(p)' = Coordinates(p)
      /\ BasesAgree => BasesAgree'
  BY <1>1, LogSame
<1>3. TypeOK'
  BY <1>1 DEF TypeOK
<1>4. Heads'
  BY <1>1, <1>2 DEF Heads
<1>5. Records => Records'
  BY <1>2 DEF Records
<1>6. Recovering'
  <2>. SUFFICES ASSUME NEW p \in Node, recovery'[p] # <<>>
                PROVE  /\ recovery'[p][1] <= epoch'[p] /\ Owner(recovery'[p][1]) = p
                       /\ recovery'[p][2].type = "opened"
    BY DEF Recovering
  <2>1. CASE recovery'[p] = recovery[p]
    BY <1>1, <2>1 DEF Recovering
  <2>2. CASE recovery'[p] # recovery[p]
    BY <1>1, <2>2, StateFacts
  <2>. QED BY <2>1, <2>2
<1>. QED BY <1>2, <1>3, <1>4, <1>5, <1>6 DEF Always, Admitted

LEMMA LapseStep ==
    ASSUME Always, NEW n \in Node, Lapse(n)
    PROVE  Always' /\ (Admitted => Admitted')
<1>1. TypeOK
  BY DEF Always
<1>2. lapsed' \in [Node -> BOOLEAN] /\ UNCHANGED <<log, epoch, pending, recovery, strayed>>
  BY <1>1 DEF Lapse, TypeOK
<1>3. recovery' \in [Node -> {<<>>} \cup (Epoch \X Event)]
  BY <1>1, <1>2 DEF TypeOK
<1>. QED BY <1>2, <1>3, WaitingSame

LEMMA RecoverReadStep ==
    ASSUME Always, NEW n \in Node, RecoverRead(n)
    PROVE  Always' /\ (Admitted => Admitted')
<1>1. TypeOK
  BY DEF Always
<1>. PICK v : v = View(n)
  OBVIOUS
<1>. PICK read : read = <<epoch[n], Opened(v.id, v.turn)>>
  OBVIOUS
<1>2. /\ Coordinates(n) /\ v.turn # NoTurn
      /\ recovery' = [recovery EXCEPT ![n] = read]
      /\ UNCHANGED <<log, epoch, pending, lapsed, strayed>>
  BY DEF RecoverRead
<1>3. epoch[n] \in Epoch /\ Owner(epoch[n]) = n
  BY <1>1, <1>2, StateFacts DEF Coordinates
<1>4. Opened(v.id, v.turn) \in Event
  <2>1. v \in ViewType
    BY <1>1, StateFacts
  <2>2. v.id \in Id /\ v.turn \in Turns
    BY <1>2, <2>1 DEF ViewType
  <2>. QED BY <2>2, EventTypes
<1>5. read \in Epoch \X Event /\ read[1] = epoch[n] /\ read[2].type = "opened"
  BY <1>3, <1>4 DEF Opened
<1>6. recovery \in [Node -> {<<>>} \cup (Epoch \X Event)] /\ lapsed \in [Node -> BOOLEAN]
  BY <1>1 DEF TypeOK
<1>7. recovery' \in [Node -> {<<>>} \cup (Epoch \X Event)]
      /\ \A p \in Node : recovery'[p] = IF p = n THEN read ELSE recovery[p]
  BY <1>2, <1>5, <1>6
<1>8. lapsed' \in [Node -> BOOLEAN] /\ UNCHANGED <<log, epoch, pending, strayed>>
  BY <1>2, <1>6
<1>9. \A p \in Node : recovery'[p] # recovery[p] =>
           /\ recovery'[p][1] = epoch[p] /\ Owner(epoch[p]) = p
           /\ recovery'[p][2].type = "opened"
  BY <1>3, <1>5, <1>7
<1>. QED BY <1>7, <1>8, <1>9, WaitingSame
-----------------------------------------------------------------------------
(* The actions that write.                                                  *)

\* Only one node may act; its peer is of the epoch before, or of the same one.
LEMMA OneActs ==
    ASSUME TypeOK, Heads, NEW n \in Node, MayAct(n)
    PROVE  /\ epoch[n] \in Epoch /\ Owner(epoch[n]) = n
           /\ ~ MayAct(Peer(n))
           /\ epoch[Peer(n)] = epoch[n] \/ epoch[Peer(n)] + 1 = epoch[n]
<1>1. epoch[n] \in Epoch /\ epoch[n] \in Nat /\ Owner(epoch[n]) = n
      /\ epoch[Peer(n)] <= epoch[n]
  BY StateFacts DEF MayAct, Coordinates
<1>2. Peer(n) \in Node /\ Peer(n) # n /\ Peer(Peer(n)) = n
  BY TurnTypes
<1>3. epoch[Peer(n)] \in Nat
  BY <1>2, StateFacts
<1>4. epoch[n] <= epoch[Peer(n)] + 1
  BY DEF Heads
<1>5. ~ MayAct(Peer(n))
  <2>. SUFFICES ASSUME MayAct(Peer(n)) PROVE FALSE
    OBVIOUS
  <2>1. epoch[n] <= epoch[Peer(n)] /\ Owner(epoch[Peer(n)]) = Peer(n)
    BY <1>2 DEF MayAct, Coordinates
  <2>2. epoch[n] = epoch[Peer(n)]
    BY <1>1, <1>3, <2>1
  <2>. QED BY <1>1, <1>2, <2>1, <2>2
<1>. QED BY <1>1, <1>3, <1>4, <1>5

\* A node with something to append is the one that may act.
LEMMA PendingActs ==
    ASSUME TypeOK, Heads, NEW n \in Node, pending[n] # <<>>
    PROVE  MayAct(n)
<1>1. Coordinates(n)
  BY DEF Heads
<1>2. Peer(n) \in Node /\ Peer(Peer(n)) = n
  BY TurnTypes
<1>3. ~ (epoch[Peer(n)] > epoch[n])
  BY <1>2 DEF Heads
<1>4. epoch[Peer(n)] \in Nat /\ epoch[n] \in Nat
  BY <1>2, StateFacts
<1>. QED BY <1>1, <1>3, <1>4 DEF MayAct

\* A transaction of a handler appends to the log of the node that may act.
LEMMA WriteAppends ==
    ASSUME Always, NEW n \in Node, Write(n), NEW m, m = epoch[n],
           NEW ev, ev = Head(pending[n]), NEW rest, rest = Tail(pending[n])
    PROVE  /\ UNCHANGED <<epoch, recovery, strayed>>
           /\ pending' = [pending EXCEPT ![n] = rest]
           /\ MayAct(n) /\ m \in Epoch /\ Owner(m) = n /\ ~ MayAct(Peer(n))
           /\ ev \in Event /\ rest \in Seq(Event) /\ pending[n] = <<ev>> \o rest
           /\ log' = [log EXCEPT ![n] = [log[n] EXCEPT ![m] = Append(log[n][m], ev)]]
           /\ OnlyLast(n, m)
           /\ History(n)' = Append(History(n), ev)
<1>1. TypeOK /\ Heads
  BY DEF Always
<1>. PICK q : q = Append(log[n][m], ev)
  OBVIOUS
<1>2. pending[n] # <<>> /\ UNCHANGED <<epoch, recovery, strayed>>
  BY DEF Write
<1>3. Writes(n, m, q)
  BY Zenon DEF Write, Writes
<1>4. pending' = [pending EXCEPT ![n] = rest]
  BY Zenon DEF Write
<1>5. MayAct(n)
  BY <1>1, <1>2, PendingActs
<1>6. m \in Epoch /\ Owner(m) = n /\ ~ MayAct(Peer(n))
  BY <1>1, <1>5, OneActs
<1>7. HeadAt(log[n], m)
  BY <1>1 DEF Heads
<1>8. ev \in Event /\ rest \in Seq(Event) /\ pending[n] = <<ev>> \o rest
  <2>1. pending[n] \in Seq(Event)
    BY <1>1, StateFacts
  <2>. PICK s : s = pending[n]
    OBVIOUS
  <2>2. s \in Seq(Event) /\ s # <<>>
    BY <1>2, <2>1
  <2>3. Head(s) \in Event /\ Tail(s) \in Seq(Event) /\ s = <<Head(s)>> \o Tail(s)
    BY <2>2
  <2>. QED BY <2>3
<1>9. q \in Seq(Event)
  <2>1. log[n][m] \in Seq(Event)
    BY <1>1, <1>6, StateFacts DEF Logs
  <2>. QED BY <1>8, <2>1
<1>10. /\ OnlyLast(n, m)
       /\ History(n)' = Append(History(n), ev)
  BY <1>1, <1>3, <1>6, <1>7, <1>8, <1>9, LogAppend
<1>11. log' = [log EXCEPT ![n] = [log[n] EXCEPT ![m] = Append(log[n][m], ev)]]
  BY <1>3, Zenon DEF Writes
<1>. QED BY <1>2, <1>4, <1>5, <1>6, <1>8, <1>10, <1>11

\* An event that its handler may append is legal after what the node holds.
LEMMA WriteSound ==
    ASSUME Always, Records, NEW n \in Node, Write(n),
           NEW ev, ev = Head(pending[n]), NEW rest, rest = Tail(pending[n])
    PROVE  /\ Sound(History(n)) /\ Sound(Append(History(n), ev))
           /\ Sound(Append(History(n), ev) \o rest)
<1>1. TypeOK
  BY DEF Always
<1>. PICK m : m = epoch[n]
  OBVIOUS
<1>2. ev \in Event /\ rest \in Seq(Event) /\ pending[n] = <<ev>> \o rest
  <2>1. ev \in Event /\ rest \in Seq(Event)
    BY WriteAppends
  <2>2. pending[n] = <<ev>> \o rest
    BY WriteAppends
  <2>. QED BY <2>1, <2>2
<1>3. Sound(History(n) \o pending[n]) /\ History(n) \in Seq(Event)
  BY <1>1, StateFacts DEF Records
<1>4. History(n) \o (<<ev>> \o rest) = Append(History(n), ev) \o rest
  BY <1>2, <1>3, ConcatCons
<1>5. Append(History(n), ev) \in Seq(Event)
  BY <1>2, <1>3
<1>6. Sound(Append(History(n), ev) \o rest)
  BY <1>2, <1>3, <1>4
<1>7. Sound(Append(History(n), ev))
  BY <1>2, <1>5, <1>6, SoundPrefix
<1>8. Sound(History(n))
  BY <1>1, HistorySound
<1>. QED BY <1>6, <1>7, <1>8

LEMMA WriteStep ==
    ASSUME Always, NEW n \in Node, Write(n)
    PROVE  Always' /\ (Admitted => Admitted')
<1>1. TypeOK /\ Heads /\ Recovering
  BY DEF Always
<1>. PICK m : m = epoch[n]
  OBVIOUS
<1>. PICK ev : ev = Head(pending[n])
  OBVIOUS
<1>. PICK rest : rest = Tail(pending[n])
  OBVIOUS
<1>2. /\ UNCHANGED <<epoch, recovery, strayed>>
      /\ pending' = [pending EXCEPT ![n] = rest]
      /\ MayAct(n) /\ m \in Epoch /\ ~ MayAct(Peer(n))
      /\ ev \in Event /\ rest \in Seq(Event)
  BY WriteAppends
<1>3. /\ OnlyLast(n, m)
      /\ History(n)' = Append(History(n), ev)
      /\ pending[n] = <<ev>> \o rest
  BY WriteAppends
<1>4. pending' \in [Node -> Seq(Event)] /\ pending'[n] = rest
       /\ \A p \in Node : p # n => pending'[p] = pending[p]
  BY <1>1, <1>2 DEF TypeOK
<1>5. TypeOK'
  <2>1. lapsed' \in [Node -> BOOLEAN]
    BY <1>1 DEF TypeOK, Write
  <2>. QED BY <1>1, <1>2, <1>3, <1>4, <2>1 DEF TypeOK, Logs, OnlyLast
<1>6. Heads'
  <2>. SUFFICES ASSUME NEW p \in Node
                PROVE  /\ HeadAt(log'[p], epoch'[p])
                       /\ epoch'[p] <= epoch'[Peer(p)] + 1
                       /\ epoch'[p] > epoch'[Peer(p)] =>
                             Owner(epoch'[p]) = p /\ pending'[Peer(p)] = <<>>
                       /\ pending'[p] # <<>> => Coordinates(p)'
    BY DEF Heads
  <2>1. /\ HeadAt(log[p], epoch[p])
        /\ epoch[p] <= epoch[Peer(p)] + 1
        /\ epoch[p] > epoch[Peer(p)] => Owner(epoch[p]) = p /\ pending[Peer(p)] = <<>>
        /\ pending[p] # <<>> => Coordinates(p)
    BY <1>1 DEF Heads
  <2>2. Coordinates(p)' = Coordinates(p)
    BY <1>2 DEF Coordinates
  <2>3. HeadAt(log'[p], epoch'[p])
    BY <1>2, <1>3, <2>1 DEF OnlyLast
  <2>4. epoch[p] > epoch[Peer(p)] => pending'[Peer(p)] = <<>>
    BY <1>2, <1>4, <2>1, TurnTypes
  <2>5. pending'[p] # <<>> => Coordinates(p)
    BY <1>2, <1>4, <2>1 DEF MayAct
  <2>. QED BY <1>2, <2>1, <2>2, <2>3, <2>4, <2>5
<1>7. ASSUME Records PROVE Records'
  <2>. SUFFICES ASSUME NEW p \in Node PROVE Sound(History(p)' \o pending'[p])
    BY DEF Records
  <2>2. CASE p # n
    BY <1>3, <1>4, <1>7, <2>2 DEF Records, OnlyLast
  <2>3. CASE p = n
    <3>1. Sound(Append(History(n), ev) \o rest)
      BY <1>7, WriteSound
    <3>. QED BY <1>3, <1>4, <2>3, <3>1
  <2>. QED BY <2>2, <2>3
<1>8. Recovering'
  BY <1>1, <1>2 DEF Recovering
<1>9. ASSUME BasesAgree PROVE BasesAgree'
  <2>. SUFFICES ASSUME NEW p \in Node, MayAct(p)'
                PROVE  Similar(Project(Joined(log'[p])[epoch'[p] - 1]),
                               Project(Joined(log'[Peer(p)])[epoch'[p] - 1]))
    BY DEF BasesAgree
  <2>1. MayAct(p)
    BY <1>2 DEF MayAct, Coordinates
  <2>2. p = n
    BY <1>2, <2>1, TurnTypes
  <2>3. epoch'[p] - 1 = m - 1 /\ m - 1 \in 0..(m - 1)
    BY <1>2, <2>2, TurnTypes DEF Epoch
  <2>4. Joined(log'[p])[m - 1] = Joined(log[p])[m - 1]
    BY <1>3, <2>2, <2>3 DEF OnlyLast
  <2>5. Joined(log'[Peer(p)])[m - 1] = Joined(log[Peer(p)])[m - 1]
    BY <1>3, <2>2, TurnTypes DEF OnlyLast
  <2>. QED BY <1>9, <2>1, <2>2, <2>3, <2>4, <2>5 DEF BasesAgree
<1>. QED BY <1>5, <1>6, <1>7, <1>8, <1>9 DEF Always, Admitted

\* A recovery whose epoch lasts appends what was read.
LEMMA RecoveryAppends ==
    ASSUME Always, NEW n \in Node, RecoverWrite(n), NEW m, m = epoch[n],
           recovery[n][1] = m, NEW ev, ev = recovery[n][2],
           NEW h, h = History(n)
    PROVE  /\ m \in Epoch /\ m \in Nat /\ Owner(m) = n
           /\ ev \in Event /\ ev.type = "opened"
           /\ h \in Seq(Event) /\ Len(h) \in Nat
           /\ log' = [log EXCEPT ![n] = [log[n] EXCEPT ![m] = Append(log[n][m], ev)]]
           /\ OnlyLast(n, m)
           /\ Joined(log[n])[m] = h /\ Joined(log'[n])[m] = History(n)'
           /\ History(n)' = Append(h, ev)
           /\ strayed' = (strayed \/ StaleReopening(n))
<1>0. TypeOK /\ Heads /\ Recovering /\ recovery[n] # <<>>
      /\ recovery \in [Node -> {<<>>} \cup (Epoch \X Event)]
  BY DEF Always, RecoverWrite, TypeOK
<1>. PICK q : q = Append(log[n][m], ev)
  OBVIOUS
<1>1. recovery[n] \in Epoch \X Event
  BY <1>0
<1>2. m \in Epoch /\ ev \in Event /\ m \in Nat
  BY <1>1 DEF Epoch
<1>3. Owner(m) = n /\ ev.type = "opened"
  BY <1>0 DEF Recovering
<1>4. h \in Seq(Event) /\ Len(h) \in Nat
  BY <1>0, StateFacts
<1>9. Writes(n, m, q) /\ strayed' = (strayed \/ StaleReopening(n))
  BY Zenon DEF RecoverWrite, Writes
<1>10. HeadAt(log[n], m)
  BY <1>0 DEF Heads
<1>11. q \in Seq(Event)
  <2>1. log[n][m] \in Seq(Event)
    BY <1>0, <1>2, StateFacts DEF Logs
  <2>. QED BY <1>2, <2>1
<1>12. /\ OnlyLast(n, m)
       /\ Joined(log[n])[m] = h /\ Joined(log'[n])[m] = History(n)'
       /\ History(n)' = Append(h, ev)
  <2>1. /\ OnlyLast(n, m)
        /\ Joined(log[n])[m] = History(n) /\ Joined(log'[n])[m] = History(n)'
        /\ History(n)' = Append(History(n), ev)
    BY <1>0, <1>2, <1>9, <1>10, <1>11, LogAppend
  <2>. QED BY <2>1, Zenon
<1>13. log' = [log EXCEPT ![n] = [log[n] EXCEPT ![m] = Append(log[n][m], ev)]]
  BY <1>9, Zenon DEF Writes
<1>. QED BY <1>2, <1>3, <1>4, <1>9, <1>12, <1>13

\* Unless it is stale, it opens the current turn once more.
LEMMA RecoverySound ==
    ASSUME Always, Records, NEW n \in Node, RecoverWrite(n), ~ strayed',
           recovery[n][1] = epoch[n], NEW ev, ev = recovery[n][2],
           NEW h, h = History(n)
    PROVE  /\ Sound(h) /\ Sound(Append(h, ev))
           /\ Similar(Project(h), Project(Append(h, ev)))
           /\ Project(Append(h, ev)).replies = Project(h).replies
<1>. PICK v : v = View(n)
  OBVIOUS
<1>1. /\ ev \in Event /\ ev.type = "opened" /\ h \in Seq(Event)
      /\ strayed' = (strayed \/ StaleReopening(n))
  <2>. PICK m : m = epoch[n]
    OBVIOUS
  <2>. QED BY RecoveryAppends
<1>2. v.turn # NoTurn /\ ev = Opened(v.id, v.turn)
  BY <1>1 DEF StaleReopening
<1>3. Sound(h) /\ Good(v) /\ v = Project(h) /\ TypeOK
  BY HistorySound, StateFacts DEF Always
<1>4. ev.id = v.id /\ ev.turn = v.turn
  BY <1>2 DEF Opened
<1>5. v \in ViewType /\ v.status = "active" /\ Due(v, v.turn)
      /\ v.id[2] = Len(v.replies) + 1
  BY <1>2, <1>3 DEF Good
<1>6. Legal(v, ev)
  BY <1>1, <1>4, <1>5 DEF Legal
<1>7. Sound(Append(h, ev))
  BY <1>1, <1>3, <1>6, SoundAppend
<1>8. Project(Append(h, ev)) = Apply(v, ev)
  BY <1>1, <1>3, ProjectAppend
<1>9. Similar(v, Apply(v, ev)) /\ Apply(v, ev).replies = v.replies
  <2>. PICK w : w = Apply(v, ev)
    OBVIOUS
  <2>1. v \in ViewType /\ ev \in Event /\ ev.type = "opened"
    BY <1>1, <1>5
  <2>2. /\ w.status = v.status /\ w.id = ev.id /\ w.turn = ev.turn
        /\ w.proposal = v.proposal /\ w.replies = v.replies
    BY <2>1, ApplyFields
  <2>. QED BY <1>4, <2>2 DEF Similar
<1>. QED BY <1>3, <1>7, <1>8, <1>9

LEMMA SimilarChain ==
    ASSUME NEW u, NEW v, NEW w, Similar(u, v), Similar(v, w)
    PROVE  Similar(u, w) /\ Similar(v, u)
BY DEF Similar

LEMMA RecoverWriteStep ==
    ASSUME Always, NEW n \in Node, RecoverWrite(n)
    PROVE  Always' /\ ((Admitted /\ ~ strayed') => Admitted')
<1>1. TypeOK /\ Heads /\ Recovering
  BY DEF Always
<1>2. /\ recovery[n] # <<>> /\ recovery' = [recovery EXCEPT ![n] = <<>>]
      /\ UNCHANGED <<epoch, pending>>
  BY DEF RecoverWrite
<1>3. /\ recovery \in [Node -> {<<>>} \cup (Epoch \X Event)]
      /\ lapsed \in [Node -> BOOLEAN] /\ strayed \in BOOLEAN
  BY <1>1 DEF TypeOK
<1>4. /\ recovery' \in [Node -> {<<>>} \cup (Epoch \X Event)]
      /\ \A p \in Node : recovery'[p] = IF p = n THEN <<>> ELSE recovery[p]
  BY <1>2, <1>3
<1>6. CASE recovery[n][1] # epoch[n]
  <2>1. UNCHANGED <<log, epoch, pending, strayed>> /\ lapsed' \in [Node -> BOOLEAN]
    BY <1>2, <1>3, <1>6 DEF RecoverWrite
  <2>2. \A p \in Node : (recovery'[p] # recovery[p] /\ recovery'[p] # <<>>) =>
            /\ recovery'[p][1] = epoch[p] /\ Owner(epoch[p]) = p
            /\ recovery'[p][2].type = "opened"
    BY <1>4
  <2>. QED BY <1>4, <2>1, <2>2, WaitingSame
<1>7. CASE recovery[n][1] = epoch[n]
  <2>. PICK m : m = epoch[n]
    OBVIOUS
  <2>. PICK h : h = History(n)
    OBVIOUS
  <2>. PICK ev : ev = recovery[n][2]
    OBVIOUS
  <2>1. /\ m \in Epoch /\ m \in Nat /\ Owner(m) = n
        /\ ev \in Event /\ ev.type = "opened"
        /\ h \in Seq(Event) /\ Len(h) \in Nat
        /\ strayed' = (strayed \/ StaleReopening(n))
    BY <1>7, RecoveryAppends
  <2>2. /\ OnlyLast(n, m)
        /\ Joined(log[n])[m] = h /\ Joined(log'[n])[m] = History(n)'
        /\ History(n)' = Append(h, ev)
    BY <1>7, RecoveryAppends
  <2>3. TypeOK'
    <3>1. lapsed' = [lapsed EXCEPT ![n] = FALSE]
      BY <1>7 DEF RecoverWrite
    <3>2. strayed' \in BOOLEAN
      BY <2>1
    <3>. QED BY <1>1, <1>2, <1>4, <2>2, <3>1, <3>2 DEF TypeOK, Logs, OnlyLast
  <2>4. Heads'
    <3>. SUFFICES ASSUME NEW p \in Node
                  PROVE  /\ HeadAt(log'[p], epoch'[p])
                         /\ epoch'[p] <= epoch'[Peer(p)] + 1
                         /\ epoch'[p] > epoch'[Peer(p)] =>
                               Owner(epoch'[p]) = p /\ pending'[Peer(p)] = <<>>
                         /\ pending'[p] # <<>> => Coordinates(p)'
      BY DEF Heads
    <3>1. /\ HeadAt(log[p], epoch[p])
          /\ epoch[p] <= epoch[Peer(p)] + 1
          /\ epoch[p] > epoch[Peer(p)] => Owner(epoch[p]) = p /\ pending[Peer(p)] = <<>>
          /\ pending[p] # <<>> => Coordinates(p)
      BY <1>1 DEF Heads
    <3>2. Coordinates(p)' = Coordinates(p)
      BY <1>2 DEF Coordinates
    <3>3. HeadAt(log'[p], epoch'[p])
      BY <1>2, <2>2, <3>1 DEF OnlyLast
    <3>. QED BY <1>2, <3>1, <3>2, <3>3
  <2>5. Recovering'
    <3>. SUFFICES ASSUME NEW p \in Node, recovery'[p] # <<>>
                  PROVE  /\ recovery'[p][1] <= epoch'[p] /\ Owner(recovery'[p][1]) = p
                         /\ recovery'[p][2].type = "opened"
      BY DEF Recovering
    <3>1. recovery'[p] = recovery[p]
      BY <1>4
    <3>. QED BY <1>1, <1>2, <3>1 DEF Recovering
  <2>6. ASSUME Admitted, ~ strayed' PROVE Admitted'
    <3>1. Records /\ BasesAgree
      BY <2>6 DEF Admitted
    <3>2. /\ Sound(h) /\ Sound(Append(h, ev))
          /\ Similar(Project(h), Project(Append(h, ev)))
      BY <1>7, <2>6, <3>1, RecoverySound
    <3>3. Records'
      <4>. SUFFICES ASSUME NEW p \in Node PROVE Sound(History(p)' \o pending'[p])
        BY DEF Records
      <4>1. CASE p # n
        BY <1>2, <2>2, <3>1, <4>1 DEF Records, OnlyLast
      <4>2. CASE p = n
        <5>1. Sound(h \o pending[n]) /\ pending[n] \in Seq(Event)
          BY <1>1, <3>1, StateFacts DEF Records
        <5>2. Append(h, ev) \in Seq(Event)
          BY <2>1
        <5>3. Sound(Append(h, ev) \o pending[n])
          BY <2>1, <3>2, <5>1, <5>2, SoundExtend
        <5>. QED BY <1>2, <2>2, <4>2, <5>3
      <4>. QED BY <4>1, <4>2
    <3>4. BasesAgree'
      <4>. SUFFICES ASSUME NEW p \in Node, MayAct(p)'
                    PROVE  Similar(Project(Joined(log'[p])[epoch'[p] - 1]),
                                   Project(Joined(log'[Peer(p)])[epoch'[p] - 1]))
        BY DEF BasesAgree
      <4>1. MayAct(p)
        BY <1>2 DEF MayAct, Coordinates
      <4>. PICK e : e = epoch[p] - 1
        OBVIOUS
      <4>2. /\ epoch[p] \in Epoch /\ Owner(epoch[p]) = p /\ e \in 0..MaxEpoch
            /\ epoch[Peer(p)] = epoch[p] \/ epoch[Peer(p)] + 1 = epoch[p]
            /\ epoch[Peer(p)] \in Nat /\ epoch'[p] - 1 = e /\ epoch[p] \in Nat
        <5>1. /\ epoch[p] \in Epoch /\ Owner(epoch[p]) = p
              /\ epoch[Peer(p)] = epoch[p] \/ epoch[Peer(p)] + 1 = epoch[p]
          BY <1>1, <4>1, OneActs
        <5>2. epoch[Peer(p)] \in Nat
          BY <1>1, TurnTypes, StateFacts
        <5>3. e \in 0..MaxEpoch /\ epoch[p] \in Nat
          BY <5>1, TurnTypes DEF Epoch
        <5>. QED BY <1>2, <5>1, <5>2, <5>3
      <4>3. Similar(Project(Joined(log[p])[e]), Project(Joined(log[Peer(p)])[e]))
        BY <3>1, <4>1 DEF BasesAgree
      <4>4. CASE p = n
        <5>1. e = m - 1 /\ e \in 0..(m - 1)
          BY <2>1, <4>2, <4>4 DEF Epoch
        <5>2. Joined(log'[p])[e] = Joined(log[p])[e]
          BY <2>2, <4>4, <5>1 DEF OnlyLast
        <5>3. Joined(log'[Peer(p)])[e] = Joined(log[Peer(p)])[e]
          BY <2>2, <4>4, TurnTypes DEF OnlyLast
        <5>. QED BY <4>2, <4>3, <5>2, <5>3
      <4>5. CASE p # n
        <5>1. Peer(p) = n /\ p = Peer(n)
          BY <4>5, TurnTypes
        \* The peer has opened the next epoch: the recovery comes at the end of
        \* this one.
        <5>2. epoch[p] = m + 1 /\ e = m
          BY <2>1, <4>2, <4>5, <5>1
        <5>3. Joined(log'[n])[e] = Append(h, ev) /\ Joined(log[n])[e] = h
          BY <2>2, <5>2
        <5>4. Joined(log'[p])[e] = Joined(log[p])[e]
          BY <2>2, <4>5 DEF OnlyLast
        <5>. PICK g : g = Joined(log[p])[e]
          OBVIOUS
        <5>5. Similar(Project(g), Project(h))
          BY <4>3, <5>1, <5>3
        <5>6. Similar(Project(g), Project(Append(h, ev)))
          BY <3>2, <5>5, SimilarChain
        <5>7. Joined(log'[p])[e] = g /\ Joined(log'[Peer(p)])[e] = Append(h, ev)
          BY <5>1, <5>3, <5>4
        <5>. QED BY <4>2, <5>6, <5>7
      <4>. QED BY <4>4, <4>5
    <3>. QED BY <3>3, <3>4 DEF Admitted
  <2>. QED BY <2>3, <2>4, <2>5, <2>6 DEF Always
<1>. QED BY <1>6, <1>7
-----------------------------------------------------------------------------
(* Replication, failover and the start of the dialogue.                     *)

\* A node learns what the node that may act has written in its epoch.
LEMMA LearnFrom ==
    ASSUME Always, NEW n \in Node, NEW p, p = Peer(n), MayAct(p),
           NEW m, m = epoch[p], HeadAt(log[n], m),
           NEW q, q = log[p][m], Writes(n, m, q),
           pending[n] = <<>>, pending[p] = <<>>,
           epoch' = [epoch EXCEPT ![n] = m], lapsed' = [lapsed EXCEPT ![n] = FALSE],
           UNCHANGED <<pending, recovery, strayed>>
    PROVE  Always' /\ (Admitted => Admitted')
<1>1. TypeOK /\ Heads /\ Recovering
  BY DEF Always
<1>2. p \in Node /\ p # n /\ Peer(p) = n /\ \A x \in Node : x = n \/ x = p
  BY TurnTypes
<1>3. m \in Epoch /\ m \in Nat /\ Owner(m) = p /\ m - 1 \in 0..MaxEpoch
      /\ m \in 0..MaxEpoch /\ m - 1 \in 0..(m - 1)
  <2>1. m \in Epoch /\ Owner(m) = p
    BY <1>1, <1>2, OneActs
  <2>. QED BY <2>1, TurnTypes DEF Epoch
<1>4. epoch[n] \in Nat /\ epoch[n] <= m
  BY <1>1, <1>2, StateFacts DEF MayAct
<1>. PICK g : g = Joined(log[p])[m - 1]
  OBVIOUS
<1>. PICK h : h = Joined(log[n])[m - 1]
  OBVIOUS
<1>5. g \in Seq(Event) /\ h \in Seq(Event) /\ q \in Seq(Event) /\ log[n][m] \in Seq(Event)
  BY <1>1, <1>2, <1>3, StateFacts DEF Logs
<1>6. ASSUME BasesAgree PROVE Similar(Project(g), Project(h))
  BY <1>2, <1>6 DEF BasesAgree
<1>7. /\ OnlyLast(n, m)
      /\ History(n) = Joined(log[n])[m - 1] \o log[n][m]
      /\ Joined(log'[n])[MaxEpoch] = Joined(log[n])[m - 1] \o q
  BY <1>1, <1>3, <1>5, LogUpdate
<1>8. ASSUME Records, BasesAgree PROVE Sound(h \o q)
  <2>1. Sound(h \o log[n][m])
    BY <1>1, <1>7, <1>8, HistorySound DEF OnlyLast
  <2>2. Sound(h)
    BY <1>5, <2>1, SoundPrefix
  <2>3. HeadAt(log[p], m) /\ log[p] \in Logs
    BY <1>1, <1>2, StateFacts DEF Heads
  <2>4. History(p) = g \o q
    <3>1. Joined(log[p])[MaxEpoch] = Joined(log[p])[m]
      BY <1>3, <2>3, JoinedHead
    <3>2. Joined(log[p])[m] = Joined(log[p])[m - 1] \o log[p][m]
      BY <1>3, JoinedDef
    <3>. QED BY <1>1, <1>2, <3>1, <3>2, StateFacts
  <2>5. Sound(g \o q)
    BY <1>1, <1>2, <1>8, <2>4, HistorySound
  <2>6. Similar(Project(g), Project(h))
    BY <1>6, <1>8
  <2>. QED BY <1>5, <2>2, <2>5, <2>6, SoundExtend
<1>9. History(n)' = h \o q
  BY <1>1, <1>7, StateFacts DEF OnlyLast
<1>10. epoch'[n] = m /\ epoch'[p] = m /\ epoch' \in [Node -> 0..MaxEpoch]
  BY <1>1, <1>2, <1>3 DEF TypeOK
<1>11. TypeOK'
  <2>1. lapsed' \in [Node -> BOOLEAN]
    BY <1>1 DEF TypeOK
  <2>. QED BY <1>1, <1>7, <1>10, <2>1 DEF TypeOK, Logs, OnlyLast
<1>12. Heads'
  <2>. SUFFICES ASSUME NEW x \in Node
                PROVE  /\ HeadAt(log'[x], epoch'[x])
                       /\ epoch'[x] <= epoch'[Peer(x)] + 1
                       /\ epoch'[x] > epoch'[Peer(x)] =>
                             Owner(epoch'[x]) = x /\ pending'[Peer(x)] = <<>>
                       /\ pending'[x] # <<>> => Coordinates(x)'
    BY DEF Heads
  <2>1. epoch'[x] = m /\ epoch'[Peer(x)] = m /\ pending'[x] = <<>>
    BY <1>2, <1>10
  <2>2. HeadAt(log'[x], m)
    BY <1>1, <1>2, <1>7 DEF Heads, OnlyLast
  <2>. QED BY <1>3, <2>1, <2>2
<1>13. ASSUME Records, BasesAgree PROVE Records'
  <2>. SUFFICES ASSUME NEW x \in Node PROVE Sound(History(x)' \o pending'[x])
    BY DEF Records
  <2>1. CASE x = n
    <3>1. Sound(h \o q) /\ h \o q \in Seq(Event)
      BY <1>8, <1>13 DEF Sound
    <3>2. (h \o q) \o <<>> = h \o q
      BY <3>1, ConcatEmptySeq
    <3>. QED BY <1>9, <2>1, <3>1, <3>2
  <2>2. CASE x # n
    BY <1>7, <1>13, <2>2 DEF Records, OnlyLast
  <2>. QED BY <2>1, <2>2
<1>14. Recovering'
  <2>. SUFFICES ASSUME NEW x \in Node, recovery'[x] # <<>>
                PROVE  /\ recovery'[x][1] <= epoch'[x] /\ Owner(recovery'[x][1]) = x
                       /\ recovery'[x][2].type = "opened"
    BY DEF Recovering
  <2>1. /\ recovery'[x] = recovery[x]
        /\ recovery[x][1] <= epoch[x] /\ Owner(recovery[x][1]) = x
        /\ recovery[x][2].type = "opened"
    BY <1>1 DEF Recovering
  <2>2. recovery[x][1] \in Nat
    <3>1. recovery[x] \in Epoch \X Event
      BY <1>1, <2>1 DEF TypeOK
    <3>. QED BY <3>1 DEF Epoch
  <2>3. epoch[x] <= epoch'[x] /\ epoch[x] \in Nat /\ epoch'[x] = m
    <3>1. CASE x = n
      BY <1>3, <1>4, <1>10, <3>1
    <3>2. CASE x = p
      BY <1>3, <1>10, <3>2
    <3>. QED BY <1>2, <3>1, <3>2
  <2>. QED BY <1>3, <2>1, <2>2, <2>3
<1>15. ASSUME BasesAgree PROVE BasesAgree'
  <2>. SUFFICES ASSUME NEW x \in Node, MayAct(x)'
                PROVE  Similar(Project(Joined(log'[x])[epoch'[x] - 1]),
                               Project(Joined(log'[Peer(x)])[epoch'[x] - 1]))
    BY DEF BasesAgree
  <2>1. x = p
    <3>1. Owner(epoch'[x]) = x
      BY DEF MayAct, Coordinates
    <3>. QED BY <1>2, <1>3, <1>10, <3>1
  <2>2. Joined(log'[p])[m - 1] = g
    BY <1>2, <1>7 DEF OnlyLast
  <2>3. Joined(log'[n])[m - 1] = h
    BY <1>3, <1>7 DEF OnlyLast
  <2>4. Similar(Project(g), Project(h))
    BY <1>6, <1>15
  <2>. QED BY <1>2, <1>10, <2>1, <2>2, <2>3, <2>4
<1>. QED BY <1>11, <1>12, <1>13, <1>14, <1>15 DEF Always, Admitted

\* What a node learns is of the node that may act, and of its epoch.
LEMMA LearnFacts ==
    ASSUME TypeOK, Heads, NEW n \in Node, Learn(n), NEW p, p = Peer(n),
           NEW m, m = epoch[p], NEW q, q = log[p][m]
    PROVE  /\ MayAct(p) /\ HeadAt(log[n], m) /\ Writes(n, m, q)
           /\ pending[n] = <<>> /\ pending[p] = <<>>
           /\ epoch' = [epoch EXCEPT ![n] = m] /\ lapsed' = [lapsed EXCEPT ![n] = FALSE]
           /\ UNCHANGED <<pending, recovery, strayed>>
<1>. PICK e : e = epoch[n]
  OBVIOUS
<1>2. p \in Node /\ p # n /\ Peer(p) = n
  BY TurnTypes
<1>3. e \in Nat /\ m \in Nat /\ epoch \in [Node -> 0..MaxEpoch]
  BY <1>2, StateFacts DEF TypeOK
<1>4. /\ e <= m + 1 /\ m <= e + 1
      /\ e > m => Owner(e) = n
      /\ m > e => Owner(m) = p
      /\ HeadAt(log[n], e) /\ HeadAt(log[p], m)
  BY <1>2 DEF Heads
<1>5. /\ pending[n] = <<>> /\ pending[p] = <<>> /\ lapsed' = [lapsed EXCEPT ![n] = FALSE]
      /\ UNCHANGED <<pending, recovery, strayed>>
  BY DEF Learn
<1>6. CASE /\ e > 0 /\ Owner(e) = p
           /\ log' = [log EXCEPT ![n][e] = log[p][e]] /\ UNCHANGED epoch
  <2>1. m = e
    <3>1. m > e => m = e + 1
      BY <1>3, <1>4
    <3>2. Owner(e + 1) # p
      BY <1>2, <1>3, <1>6, OwnerFacts, TurnTypes
    <3>. QED BY <1>2, <1>3, <1>4, <1>6, <3>1, <3>2
  <2>2. epoch' = [epoch EXCEPT ![n] = m]
    BY <1>3, <1>6, <2>1
  <2>3. MayAct(p)
    BY <1>2, <1>3, <1>6, <2>1 DEF MayAct, Coordinates
  <2>4. Writes(n, m, q)
    BY <1>6, <2>1, Zenon DEF Writes
  <2>5. HeadAt(log[n], m)
    BY <1>4, <2>1
  <2>. QED BY <1>5, <2>2, <2>3, <2>4, <2>5
<1>7. CASE /\ e < MaxEpoch /\ Owner(e + 1) = p /\ log[p][e + 1] # <<>>
           /\ log' = [log EXCEPT ![n][e + 1] = log[p][e + 1]]
           /\ epoch' = [epoch EXCEPT ![n] = e + 1]
  <2>1. m = e + 1
    <3>1. e + 1 \in Epoch
      BY <1>3, <1>7, TurnTypes DEF Epoch
    <3>2. ~ (e + 1 > m)
      BY <1>4, <1>7, <3>1 DEF HeadAt
    <3>. QED BY <1>3, <1>4, <3>2
  <2>2. epoch' = [epoch EXCEPT ![n] = m]
    BY <1>7, <2>1
  <2>3. MayAct(p)
    BY <1>2, <1>3, <1>7, <2>1 DEF MayAct, Coordinates
  <2>4. Writes(n, m, q)
    BY <1>7, <2>1, Zenon DEF Writes
  <2>5. HeadAt(log[n], m)
    BY <1>3, <1>4, <2>1 DEF HeadAt, Epoch
  <2>. QED BY <1>5, <2>2, <2>3, <2>4, <2>5
<1>. QED BY <1>6, <1>7 DEF Learn

LEMMA LearnStep ==
    ASSUME Always, NEW n \in Node, Learn(n)
    PROVE  Always' /\ (Admitted => Admitted')
<1>1. TypeOK /\ Heads
  BY DEF Always
<1>. PICK p : p = Peer(n)
  OBVIOUS
<1>. PICK m : m = epoch[p]
  OBVIOUS
<1>. PICK q : q = log[p][m]
  OBVIOUS
<1>2. /\ MayAct(p) /\ HeadAt(log[n], m) /\ Writes(n, m, q)
      /\ pending[n] = <<>> /\ pending[p] = <<>>
      /\ epoch' = [epoch EXCEPT ![n] = m] /\ lapsed' = [lapsed EXCEPT ![n] = FALSE]
      /\ UNCHANGED <<pending, recovery, strayed>>
  BY <1>1, LearnFacts
<1>. QED BY <1>2, LearnFrom

\* The participant that takes over goes on from what it holds.
LEMMA TakeOverFacts ==
    ASSUME Always, NEW n \in Node, TakeOver(n)
    PROVE  LET p == Peer(n)
               e == epoch[n]
               m == e + 1
               h == History(n) IN
           /\ e \in Nat /\ m \in Epoch /\ m \in Nat /\ m - 1 = e /\ e \in 0..(m - 1)
           /\ epoch[p] = e /\ Owner(e) = p /\ Owner(m) = n /\ e > 0
           /\ pending[n] = <<>> /\ pending[p] = <<>>
           /\ strayed' = (strayed \/ BlindTakeOver(n))
           /\ epoch' = [epoch EXCEPT ![n] = m] /\ UNCHANGED <<pending, lapsed, recovery>>
           /\ HeadAt(log[n], e) /\ OnlyLast(n, m) /\ Writes(n, m, <<Changed>>)
           /\ h \in Seq(Event) /\ Joined(log[n])[e] = h
           /\ History(p) = Joined(log[p])[e]
           /\ Changed \in Event /\ Changed.type = "changed"
           /\ History(n)' = Append(h, Changed)
           /\ Sound(h) => Sound(Append(h, Changed))
<1>. PICK e : e = epoch[n]
  OBVIOUS
<1>. PICK m : m = e + 1
  OBVIOUS
<1>. PICK p : p = Peer(n)
  OBVIOUS
<1>. PICK h : h = History(n)
  OBVIOUS
<1>1. TypeOK /\ Heads
  BY DEF Always
<1>. PICK q : q = <<Changed>>
  OBVIOUS
<1>2. p \in Node /\ p # n /\ Peer(p) = n /\ \A x \in Node : x = n \/ x = p
  BY TurnTypes
<1>3. /\ e > 0 /\ e < MaxEpoch /\ Owner(e) # n
      /\ epoch[p] = e /\ pending[p] = <<>>
      /\ strayed' = (strayed \/ BlindTakeOver(n))
      /\ epoch' = [epoch EXCEPT ![n] = m]
      /\ UNCHANGED <<pending, lapsed, recovery>>
  BY DEF TakeOver
<1>4. Writes(n, m, q)
  BY Zenon DEF TakeOver, Writes
<1>5. e \in Nat /\ m \in Epoch /\ m \in Nat /\ m - 1 = e /\ e \in 0..MaxEpoch
      /\ e \in 0..(m - 1) /\ m \in 0..MaxEpoch
  <2>1. e \in Nat
    BY <1>1, StateFacts
  <2>. QED BY <1>3, <2>1, TurnTypes DEF Epoch
<1>6. Owner(e) = p /\ Owner(m) = n
  <2>1. Owner(e) \in Node /\ Owner(e + 1) = Peer(Owner(e))
    BY <1>5, OwnerFacts
  <2>. QED BY <1>2, <1>3, <2>1
<1>7. pending[n] = <<>>
  BY <1>1, <1>3 DEF Heads, Coordinates
<1>8. HeadAt(log[n], e) /\ HeadAt(log[n], m)
  <2>1. HeadAt(log[n], e)
    BY <1>1 DEF Heads
  <2>. QED BY <1>5, <2>1 DEF HeadAt, Epoch
<1>9. q \in Seq(Event) /\ Changed \in Event
  <2>1. Changed \in Event
    BY EventTypes
  <2>. QED BY <2>1
<1>10. /\ OnlyLast(n, m)
       /\ Joined(log'[n])[MaxEpoch] = Joined(log[n])[m - 1] \o q
  BY <1>1, <1>4, <1>5, <1>8, <1>9, LogUpdate
<1>11. h \in Seq(Event) /\ Joined(log[n])[e] = h /\ History(p) = Joined(log[p])[e]
  <2>1. log[n] \in Logs /\ h \in Seq(Event) /\ h = Joined(log[n])[MaxEpoch]
    BY <1>1, StateFacts
  <2>2. Joined(log[n])[MaxEpoch] = Joined(log[n])[e]
    BY <1>5, <1>8, <2>1, JoinedHead
  <2>3. log[p] \in Logs /\ History(p) = Joined(log[p])[MaxEpoch] /\ HeadAt(log[p], e)
    BY <1>1, <1>2, <1>3, StateFacts DEF Heads
  <2>4. Joined(log[p])[MaxEpoch] = Joined(log[p])[e]
    BY <1>5, <2>3, JoinedHead
  <2>. QED BY <2>1, <2>2, <2>3, <2>4
<1>12. History(n)' = Append(h, Changed)
  <2>1. History(n)' = Joined(log'[n])[MaxEpoch]
    BY <1>1, StateFacts
  <2>2. h \o <<Changed>> = Append(h, Changed)
    BY <1>9, <1>11, ConcatOne
  <2>. QED BY <1>5, <1>10, <1>11, <2>1, <2>2 DEF OnlyLast
<1>13. Sound(h) => Sound(Append(h, Changed))
  <2>1. Legal(Project(h), Changed)
    BY DEF Legal, Changed
  <2>. QED BY <1>9, <1>11, <2>1, SoundAppend
<1>14. Changed.type = "changed"
  BY DEF Changed
<1>. QED BY <1>3, <1>4, <1>5, <1>6, <1>7, <1>8, <1>9, <1>10, <1>11, <1>12, <1>13, <1>14

LEMMA TakeOverStep ==
    ASSUME Always, NEW n \in Node, TakeOver(n)
    PROVE  Always' /\ ((Admitted /\ ~ strayed') => Admitted')
<1>1. TypeOK /\ Heads /\ Recovering
  BY DEF Always
<1>. PICK e : e = epoch[n]
  OBVIOUS
<1>. PICK m : m = e + 1
  OBVIOUS
<1>. PICK p : p = Peer(n)
  OBVIOUS
<1>. PICK h : h = History(n)
  OBVIOUS
<1>2. p \in Node /\ p # n /\ Peer(p) = n /\ \A x \in Node : x = n \/ x = p
  BY TurnTypes
<1>3. /\ e \in Nat /\ m \in Epoch /\ m \in Nat /\ m - 1 = e /\ e \in 0..(m - 1)
      /\ epoch[p] = e /\ Owner(m) = n
      /\ pending[n] = <<>> /\ pending[p] = <<>>
      /\ strayed' = (strayed \/ BlindTakeOver(n))
      /\ epoch' = [epoch EXCEPT ![n] = m] /\ UNCHANGED <<pending, lapsed, recovery>>
      /\ HeadAt(log[n], e)
  BY TakeOverFacts
<1>4. /\ OnlyLast(n, m)
      /\ h \in Seq(Event) /\ Joined(log[n])[e] = h
      /\ History(p) = Joined(log[p])[e]
      /\ History(n)' = Append(h, Changed) /\ (Sound(h) => Sound(Append(h, Changed)))
      /\ Changed \in Event
  BY TakeOverFacts
<1>5. epoch'[n] = m /\ epoch'[p] = e /\ epoch' \in [Node -> 0..MaxEpoch]
  <2>1. epoch \in [Node -> 0..MaxEpoch] /\ m \in 0..MaxEpoch
    BY <1>1, <1>3, TurnTypes DEF TypeOK, Epoch
  <2>. QED BY <1>2, <1>3, <2>1
<1>6. TypeOK'
  <2>1. strayed' \in BOOLEAN
    BY <1>1, <1>3 DEF TypeOK
  <2>. QED BY <1>1, <1>3, <1>4, <1>5, <2>1 DEF TypeOK, Logs, OnlyLast
<1>7. Heads'
  <2>. SUFFICES ASSUME NEW x \in Node
                PROVE  /\ HeadAt(log'[x], epoch'[x])
                       /\ epoch'[x] <= epoch'[Peer(x)] + 1
                       /\ epoch'[x] > epoch'[Peer(x)] =>
                             Owner(epoch'[x]) = x /\ pending'[Peer(x)] = <<>>
                       /\ pending'[x] # <<>> => Coordinates(x)'
    BY DEF Heads
  <2>1. pending'[x] = <<>> /\ pending'[Peer(x)] = <<>>
    BY <1>2, <1>3
  <2>2. CASE x = n
    BY <1>2, <1>3, <1>4, <1>5, <2>1, <2>2 DEF OnlyLast
  <2>3. CASE x = p
    <3>1. HeadAt(log'[p], e)
      BY <1>1, <1>2, <1>3, <1>4 DEF OnlyLast, Heads
    <3>2. e <= m + 1 /\ ~ (e > m)
      BY <1>3
    <3>. QED BY <1>2, <1>5, <2>1, <2>3, <3>1, <3>2
  <2>. QED BY <1>2, <2>2, <2>3
<1>8. ASSUME Records PROVE Records'
  <2>. SUFFICES ASSUME NEW x \in Node PROVE Sound(History(x)' \o pending'[x])
    BY DEF Records
  <2>1. CASE x = n
    <3>1. Sound(Append(h, Changed)) /\ Append(h, Changed) \in Seq(Event)
      BY <1>1, <1>4, <1>8, HistorySound DEF Sound
    <3>2. Append(h, Changed) \o <<>> = Append(h, Changed)
      BY <3>1, ConcatEmptySeq
    <3>. QED BY <1>3, <1>4, <2>1, <3>1, <3>2
  <2>2. CASE x # n
    BY <1>3, <1>4, <1>8, <2>2 DEF Records, OnlyLast
  <2>. QED BY <2>1, <2>2
<1>9. Recovering'
  <2>. SUFFICES ASSUME NEW x \in Node, recovery'[x] # <<>>
                PROVE  /\ recovery'[x][1] <= epoch'[x] /\ Owner(recovery'[x][1]) = x
                       /\ recovery'[x][2].type = "opened"
    BY DEF Recovering
  <2>1. /\ recovery'[x] = recovery[x]
        /\ recovery[x][1] <= epoch[x] /\ Owner(recovery[x][1]) = x
        /\ recovery[x][2].type = "opened"
    BY <1>1, <1>3 DEF Recovering
  <2>2. recovery[x][1] \in Nat
    <3>1. recovery[x] \in Epoch \X Event
      BY <1>1, <1>3, <2>1 DEF TypeOK
    <3>. QED BY <3>1 DEF Epoch
  <2>3. epoch[x] = e /\ (epoch'[x] = m \/ epoch'[x] = e)
    BY <1>2, <1>3, <1>5
  <2>. QED BY <1>3, <2>1, <2>2, <2>3
<1>10. ASSUME ~ strayed' PROVE BasesAgree'
  <2>. SUFFICES ASSUME NEW x \in Node, MayAct(x)'
                PROVE  Similar(Project(Joined(log'[x])[epoch'[x] - 1]),
                               Project(Joined(log'[Peer(x)])[epoch'[x] - 1]))
    BY DEF BasesAgree
  <2>1. x = n
    <3>1. x = p => epoch'[n] <= epoch'[p]
      BY <1>2 DEF MayAct
    <3>. QED BY <1>2, <1>3, <1>5, <3>1
  <2>2. Joined(log'[n])[e] = h
    BY <1>3, <1>4 DEF OnlyLast
  <2>3. Joined(log'[p])[e] = History(p)
    BY <1>2, <1>4 DEF OnlyLast
  <2>4. Similar(Project(h), Project(History(p)))
    <3>1. Similar(View(n), View(p))
      BY <1>3, <1>10 DEF BlindTakeOver
    <3>. QED BY <3>1 DEF View
  <2>. QED BY <1>3, <1>5, <2>1, <2>2, <2>3, <2>4
<1>. QED BY <1>6, <1>7, <1>8, <1>9, <1>10 DEF Always, Admitted

\* The first events of a dialogue.
LEMMA FirstEvents ==
    /\ Sound(<<>>) /\ <<>> \in Seq(Event)
    /\ LET opened == <<Opened(FirstId, Turn(A, 1, 1))>> IN
       opened \in Seq(Event) /\ Sound(<<Created>> \o opened)
<1>1. <<>> \in Seq(Event) /\ Len(<<>>) = 0
  OBVIOUS
<1>2. Sound(<<>>)
  BY <1>1 DEF Sound
<1>3. Project(<<>>) = EmptyView
  <2>1. Views(<<>>)[0] = EmptyView /\ Project(<<>>) = Views(<<>>)[Len(<<>>)]
    BY <1>1, ViewsDef
  <2>. QED BY <1>1, <2>1
<1>4. Created \in Event /\ Created.type = "created"
  BY EventTypes DEF Created
<1>. PICK h : h = Append(<<>>, Created)
  OBVIOUS
<1>5. h = <<Created>>
  OBVIOUS
<1>6. Sound(h)
  <2>1. Legal(Project(<<>>), Created)
    BY <1>3, <1>4 DEF Legal, EmptyView
  <2>. QED BY <1>2, <1>4, <2>1, SoundAppend
<1>7. Project(h) = Apply(EmptyView, Created) /\ Len(h) = 1
  <2>1. Project(h) = Apply(Project(<<>>), Created) /\ Len(h) = Len(<<>>) + 1
    BY <1>1, <1>4, ProjectAppend
  <2>. QED BY <1>1, <1>3, <2>1
<1>. PICK w : w = Project(h)
  OBVIOUS
<1>8. w.status = "active" /\ w.turn = NoTurn /\ w.replies = <<>>
  <2>1. /\ w.status = "active" /\ w.turn = EmptyView.turn
        /\ w.id = EmptyView.id /\ w.replies = EmptyView.replies
    BY <1>4, <1>7, TurnTypes, ApplyFields
  <2>. QED BY <2>1 DEF EmptyView, NoId
<1>. PICK turn : turn = Turn(A, 1, 1)
  OBVIOUS
<1>. PICK id : id = FirstId
  OBVIOUS
<1>9. turn \in Turns /\ turn.slot = 1
  <2>1. 1 \in 1..MaxRounds /\ 1 \in 0..2
    BY TurnTypes
  <2>. QED BY <2>1, TurnTypes
<1>10. id \in Id /\ id[2] = 1
  BY TurnTypes DEF Id, FirstId
<1>11. Due(w, turn)
  BY <1>8, <1>9, NoReplies DEF Due
<1>12. id[2] = Len(w.replies) + 1
  BY <1>8, <1>10
<1>13. Sound(h \o <<Opened(id, turn)>>)
  BY <1>6, <1>8, <1>9, <1>10, <1>11, <1>12, OpenNext
<1>14. <<Opened(id, turn)>> \in Seq(Event)
  <2>1. Opened(id, turn) \in Event
    BY <1>9, <1>10, EventTypes
  <2>. QED BY <2>1
<1>. QED BY <1>1, <1>2, <1>5, <1>13, <1>14

\* A node that has no epoch yet has no events.
LEMMA NoHistory ==
    ASSUME TypeOK, NEW n \in Node, HeadAt(log[n], 0)
    PROVE  History(n) = <<>>
<1>1. 0 \in 0..MaxEpoch /\ log[n] \in Logs /\ History(n) = Joined(log[n])[MaxEpoch]
  BY TurnTypes, StateFacts
<1>2. Joined(log[n])[MaxEpoch] = Joined(log[n])[0]
  BY <1>1, JoinedHead
<1>3. Joined(log[n])[0] = <<>>
  BY JoinedDef
<1>. QED BY <1>1, <1>2, <1>3

LEMMA CreateStep ==
    ASSUME Always, Create
    PROVE  Always' /\ Admitted'
<1>1. TypeOK /\ Heads /\ Recovering
  BY DEF Always
<1>. PICK opened : opened = <<Opened(FirstId, Turn(A, 1, 1))>>
  OBVIOUS
<1>. PICK q : q = <<Created>>
  OBVIOUS
<1>2. A \in Node /\ B \in Node /\ Peer(A) = B /\ Peer(B) = A /\ A # B
      /\ \A x \in Node : x = A \/ x = B
  BY TurnTypes DEF Node, Peer
<1>3. epoch[A] = 0 /\ epoch' = [epoch EXCEPT ![A] = 1] /\ UNCHANGED <<lapsed, recovery, strayed>>
  BY DEF Create
<1>4. 1 \in Epoch /\ 1 - 1 = 0 /\ 0 \in 0..MaxEpoch /\ 0 \in 0..(1 - 1)
      /\ 1 \in 0..MaxEpoch /\ MaxEpoch \in Nat /\ MaxEpoch \in 0..MaxEpoch
  BY TurnTypes DEF Epoch
<1>5. epoch[B] = 0
  <2>1. epoch[B] \in Nat
    BY <1>1, <1>2, StateFacts
  <2>2. epoch[B] <= 0 + 1 /\ (epoch[B] > 0 => Owner(epoch[B]) = B)
    BY <1>1, <1>2, <1>3 DEF Heads
  <2>3. epoch[B] # 1
    BY <1>2, <2>2, OwnerFacts
  <2>. QED BY <2>1, <2>2, <2>3
<1>6. ASSUME NEW x \in Node PROVE pending[x] = <<>> /\ recovery[x] = <<>>
  <2>1. epoch[x] = 0
    BY <1>2, <1>3, <1>5
  <2>2. pending[x] = <<>>
    BY <1>1, <2>1 DEF Heads, Coordinates
  <2>3. ASSUME recovery[x] # <<>> PROVE FALSE
    <3>1. recovery[x] \in Epoch \X Event
      BY <1>1, <2>3 DEF TypeOK
    <3>2. recovery[x][1] \in 1..MaxEpoch
      BY <3>1 DEF Epoch
    <3>3. recovery[x][1] <= 0
      BY <1>1, <2>1, <2>3 DEF Recovering
    <3>. QED BY <1>4, <3>2, <3>3
  <2>. QED BY <2>2, <2>3
<1>7. HeadAt(log[A], 0) /\ HeadAt(log[B], 0) /\ HeadAt(log[A], 1)
  <2>1. HeadAt(log[A], 0) /\ HeadAt(log[B], 0)
    BY <1>1, <1>2, <1>3, <1>5 DEF Heads
  <2>. QED BY <1>4, <2>1 DEF HeadAt, Epoch
<1>8. History(A) = <<>> /\ History(B) = <<>>
  BY <1>1, <1>2, <1>7, NoHistory
<1>9. /\ opened \in Seq(Event) /\ q \in Seq(Event) /\ Sound(q \o opened)
      /\ Sound(<<>>) /\ <<>> \in Seq(Event)
  <2>1. q \in Seq(Event)
    BY EventTypes
  <2>. QED BY <2>1, FirstEvents
<1>10. Writes(A, 1, q)
  BY Zenon DEF Create, Writes
<1>11. /\ log' \in [Node -> Logs] /\ HeadAt(log'[A], 1)
       /\ log'[B] = log[B] /\ History(B)' = History(B) /\ View(B)' = View(B)
       /\ Joined(log'[A])[0] = Joined(log[A])[0]
       /\ Joined(log'[A])[MaxEpoch] = Joined(log[A])[0] \o q
  <2>1. A \in Node /\ 1 \in Epoch /\ HeadAt(log[A], 1) /\ q \in Seq(Event)
    BY <1>2, <1>4, <1>7, <1>9
  <2>2. /\ OnlyLast(A, 1)
        /\ Joined(log'[A])[MaxEpoch] = Joined(log[A])[1 - 1] \o q
    BY <1>1, <1>10, <2>1, LogUpdate
  <2>. QED BY <1>2, <1>4, <2>2 DEF OnlyLast
<1>12. History(A)' = q
  <2>1. Joined(log[A])[0] = <<>>
    BY JoinedDef
  <2>2. <<>> \o q = q
    BY <1>9, ConcatEmptySeq
  <2>. QED BY <1>1, <1>2, <1>11, <2>1, <2>2, StateFacts
<1>13. pending' = [pending EXCEPT ![A] = opened]
  BY DEF Create
<1>14. /\ pending' \in [Node -> Seq(Event)] /\ pending'[A] = opened /\ pending'[B] = <<>>
       /\ epoch' \in [Node -> 0..MaxEpoch] /\ epoch'[A] = 1 /\ epoch'[B] = 0
  BY <1>1, <1>2, <1>3, <1>4, <1>5, <1>6, <1>9, <1>13 DEF TypeOK
<1>15. TypeOK'
  BY <1>1, <1>3, <1>11, <1>14 DEF TypeOK, Logs
<1>16. Heads'
  <2>. SUFFICES ASSUME NEW x \in Node
                PROVE  /\ HeadAt(log'[x], epoch'[x])
                       /\ epoch'[x] <= epoch'[Peer(x)] + 1
                       /\ epoch'[x] > epoch'[Peer(x)] =>
                             Owner(epoch'[x]) = x /\ pending'[Peer(x)] = <<>>
                       /\ pending'[x] # <<>> => Coordinates(x)'
    BY DEF Heads
  <2>2. CASE x = A
    BY <1>2, <1>11, <1>14, <2>2, OwnerFacts DEF Coordinates
  <2>3. CASE x = B
    BY <1>2, <1>7, <1>11, <1>14, <2>3
  <2>. QED BY <1>2, <2>2, <2>3
<1>17. Records'
  <2>. SUFFICES ASSUME NEW x \in Node PROVE Sound(History(x)' \o pending'[x])
    BY DEF Records
  <2>1. <<>> \o <<>> = <<>>
    BY <1>9, ConcatEmptySeq
  <2>. QED BY <1>2, <1>8, <1>9, <1>11, <1>12, <1>14, <2>1
<1>18. Recovering'
  BY <1>3, <1>6 DEF Recovering
<1>19. BasesAgree'
  <2>. SUFFICES ASSUME NEW x \in Node, MayAct(x)'
                PROVE  Similar(Project(Joined(log'[x])[epoch'[x] - 1]),
                               Project(Joined(log'[Peer(x)])[epoch'[x] - 1]))
    BY DEF BasesAgree
  <2>1. x = A
    BY <1>2, <1>14 DEF MayAct, Coordinates
  <2>2. Joined(log'[A])[0] = <<>> /\ Joined(log'[B])[0] = <<>>
    BY <1>11, JoinedDef
  <2>. QED BY <1>2, <1>4, <1>14, <2>1, <2>2 DEF Similar
<1>. QED BY <1>15, <1>16, <1>17, <1>18, <1>19 DEF Always, Admitted

LEMMA InitialState == Init => DialogueInv
<1>. SUFFICES ASSUME Init PROVE DialogueInv
  OBVIOUS
<1>1. 0 \in 0..MaxEpoch /\ <<>> \in Seq(Event)
  BY TurnTypes
<1>2. TypeOK
  BY <1>1 DEF Init, TypeOK
<1>3. \A n \in Node : /\ epoch[n] = 0 /\ pending[n] = <<>> /\ recovery[n] = <<>>
                      /\ \A e \in Epoch : log[n][e] = <<>>
  BY DEF Init
<1>4. \A n \in Node : HeadAt(log[n], 0)
  BY <1>3 DEF HeadAt
<1>5. Heads
  BY <1>3, <1>4, TurnTypes DEF Heads
<1>6. Records
  <2>. SUFFICES ASSUME NEW n \in Node PROVE Sound(History(n) \o pending[n])
    BY DEF Records
  <2>1. History(n) = <<>>
    BY <1>2, <1>4, NoHistory
  <2>2. <<>> \o <<>> = <<>>
    BY <1>1, ConcatEmptySeq
  <2>. QED BY <1>3, <2>1, <2>2, FirstEvents
<1>7. Recovering
  BY <1>3 DEF Recovering
<1>8. BasesAgree
  BY <1>3 DEF BasesAgree, MayAct, Coordinates
<1>. QED BY <1>2, <1>5, <1>6, <1>7, <1>8 DEF DialogueInv, Always, Admitted

-----------------------------------------------------------------------------
(* The theorems.                                                            *)


\* A behaviour that has strayed does not come back.
LEMMA StrayedStays == ASSUME [Next]_dialogueVars, strayed PROVE strayed'
<1>1. CASE Create
  BY <1>1 DEF Create
<1>2. CASE \E n \in Node : Claim(n)
  BY <1>2 DEF Claim
<1>3. CASE \E n \in Node : Reply(n)
  BY <1>3 DEF Reply
<1>4. CASE \E n \in Node : Write(n)
  BY <1>4 DEF Write
<1>5. CASE \E n \in Node : Crash(n)
  BY <1>5 DEF Crash
<1>6. CASE \E n \in Node : Lapse(n)
  BY <1>6 DEF Lapse
<1>7. CASE \E n \in Node : RecoverRead(n)
  BY <1>7 DEF RecoverRead
<1>8. CASE \E n \in Node : RecoverWrite(n)
  BY <1>8 DEF RecoverWrite
<1>9. CASE \E n \in Node : Learn(n)
  BY <1>9 DEF Learn
<1>10. CASE \E n \in Node : TakeOver(n)
  BY <1>10 DEF TakeOver
<1>11. CASE UNCHANGED dialogueVars
  BY <1>11 DEF dialogueVars
<1>. QED BY <1>1, <1>2, <1>3, <1>4, <1>5, <1>6, <1>7, <1>8, <1>9, <1>10, <1>11 DEF Next

\* A step of the dialogue keeps what always holds, and what the protocol admits
\* until it strays.
LEMMA DialogueStep ==
    ASSUME Always, [Next]_dialogueVars
    PROVE  /\ Always'
           /\ (Admitted /\ ~ strayed') => Admitted'
<1>1. CASE Create
  BY <1>1, CreateStep
<1>2. CASE \E n \in Node : Claim(n)
  BY <1>2, ClaimStep
<1>3. CASE \E n \in Node : Reply(n)
  BY <1>3, ReplyStep
<1>4. CASE \E n \in Node : Write(n)
  BY <1>4, WriteStep
<1>5. CASE \E n \in Node : Crash(n)
  BY <1>5, CrashStep
<1>6. CASE \E n \in Node : Lapse(n)
  BY <1>6, LapseStep
<1>7. CASE \E n \in Node : RecoverRead(n)
  BY <1>7, RecoverReadStep
<1>8. CASE \E n \in Node : RecoverWrite(n)
  BY <1>8, RecoverWriteStep
<1>9. CASE \E n \in Node : Learn(n)
  BY <1>9, LearnStep
<1>10. CASE \E n \in Node : TakeOver(n)
  BY <1>10, TakeOverStep
<1>11. CASE UNCHANGED dialogueVars
  <2>1. UNCHANGED <<log, epoch, pending, lapsed, recovery, strayed>>
    BY <1>11 DEF dialogueVars
  <2>2. lapsed' \in [Node -> BOOLEAN]
        /\ recovery' \in [Node -> {<<>>} \cup (Epoch \X Event)]
    BY <2>1 DEF Always, TypeOK
  <2>3. \A n \in Node : recovery'[n] = recovery[n]
    BY <2>1
  <2>. QED BY <2>1, <2>2, <2>3, WaitingSame
<1>. QED BY <1>1, <1>2, <1>3, <1>4, <1>5, <1>6, <1>7, <1>8, <1>9, <1>10, <1>11 DEF Next

-----------------------------------------------------------------------------
(* The theorems.                                                            *)

\* The invariant is inductive over all that the nodes and their supervisors do,
\* recoveries beside a running handler and takeovers from part of a log included
\* (dialogue.py 222-521, supervisor.py 199-276, failover.py 164-260): epochs and
\* the writers of each stay in order; and until a recovery reopens a turn that has
\* been answered since, or a node takes over without what the coordinator has
\* done, every log, with what its writer has yet to append, is one that the
\* protocol admits.
THEOREM DialogueInvariant == Spec => []DialogueInv
<1>1. ASSUME DialogueInv, [Next]_dialogueVars PROVE DialogueInv'
  <2>1. Always /\ (strayed \/ Admitted)
    BY <1>1 DEF DialogueInv
  <2>2. /\ Always'
        /\ strayed => strayed'
        /\ (Admitted /\ ~ strayed') => Admitted'
    BY <1>1, <2>1, DialogueStep, StrayedStays
  <2>. QED BY <2>1, <2>2 DEF DialogueInv
<1>. QED BY <1>1, InitialState, PTL DEF Spec

\* Logs, handlers, leases and recoveries have their types in every behaviour: no
\* dialogue, however it is interrupted or goes astray, gets past its last round or
\* reopens a turn it cannot name.
THEOREM DialogueTypeCorrect == Spec => []TypeOK
BY DialogueInvariant, PTL DEF DialogueInv, Always

\* Until a stale reopening or a blind takeover, what every node reads from its log,
\* whole or cut off at any transaction of its peer, is what the protocol makes of
\* the replies in it (dialogue.py 70-164).
THEOREM FollowsReplies == Spec => []ProjectionFollowsReplies
<1>1. DialogueInv => ProjectionFollowsReplies
  <2>. SUFFICES ASSUME DialogueInv, ~ strayed, NEW n \in Node
                PROVE  LET view == View(n) IN
                       /\ (view.status = "active" /\ view.turn # NoTurn) =>
                             /\ V1!Outcome(view.replies) = "active"
                             /\ view.turn = V1!TurnAfter(view.replies)
                       /\ view.status \notin {"unknown", "active"} =>
                             view.status = V1!Outcome(view.replies)
    BY DEF ProjectionFollowsReplies
  <2>1. Good(View(n))
    BY HistorySound DEF DialogueInv, Always, Admitted
  <2>. QED BY <2>1 DEF Good, Due
<1>. QED BY <1>1, DialogueInvariant, PTL

\* A log that cannot be projected (dialogue.py 112-117) is the work of a recovery
\* that reopened an answered turn or of a takeover that did not know all of the
\* dialogue: no crash, expiry, replication or other recovery or takeover makes one.
THEOREM NeverFails == Spec => []FailsOnlyAstray
<1>1. DialogueInv => FailsOnlyAstray
  BY HistorySound
     DEF DialogueInv, Always, Admitted, FailsOnlyAstray, ProjectionNeverFails, Good
<1>. QED BY <1>1, DialogueInvariant, PTL

\* Until a stale reopening or a blind takeover, no turn has two replies, however
\* often it was claimed, opened again or carried over to another coordinator.
THEOREM OneAnswer == Spec => []AnsweredOnce
<1>1. DialogueInv => AnsweredOnce
  <2>. SUFFICES ASSUME DialogueInv, ~ strayed, NEW n \in Node,
                       NEW j \in DOMAIN History(n), History(n)[j].type = "recorded",
                       NEW i \in 1..(j - 1), History(n)[i].type = "recorded"
                PROVE  History(n)[i].id # History(n)[j].id
    BY DEF AnsweredOnce
  <2>. PICK h : h = History(n)
    OBVIOUS
  <2>1. Sound(h)
    BY HistorySound DEF DialogueInv, Always, Admitted
  <2>2. j \in 1..Len(h)
    BY <2>1 DEF Sound
  <2>. QED BY <2>1, <2>2, SoundAnsweredOnce
<1>. QED BY <1>1, DialogueInvariant, PTL

\* Until a stale reopening or a blind takeover, the dialogue is completed by its
\* last two replies, one of each node, and ends once.
THEOREM MutualCompletion == Spec => []CompletionIsMutual
<1>1. DialogueInv => CompletionIsMutual
  <2>. SUFFICES ASSUME DialogueInv, ~ strayed,
                       NEW n \in Node, NEW i \in DOMAIN History(n),
                       History(n)[i] = Ended("completed")
                PROVE  LET evs == History(n)
                           replies == Replies(n)
                           k == Len(replies) IN
                       /\ \A j \in DOMAIN evs : evs[j].type = "ended" => i = j
                       /\ k >= 2
                       /\ replies[k].result = "complete"
                       /\ replies[k - 1].result = "complete"
                       /\ replies[k].by # replies[k - 1].by
    BY DEF CompletionIsMutual
  <2>. PICK h : h = History(n)
    OBVIOUS
  <2>1. Sound(h)
    BY HistorySound DEF DialogueInv, Always, Admitted
  <2>2. DOMAIN h = 1..Len(h) /\ h[i] = Ended("completed")
    BY <2>1 DEF Sound
  <2>3. Replies(n) = Project(h).replies
    BY <2>1, SoundReplies DEF Replies
  <2>. QED BY <2>1, <2>2, <2>3, SoundCompletion
<1>. QED BY <1>1, DialogueInvariant, PTL

-----------------------------------------------------------------------------
(* Nobody completes the dialogue alone.                                     *)

LEMMA AgreeMore ==
    ASSUME NEW S, NEW T, S \subseteq T
    PROVE  /\ \A turn : Agreeing(S, turn) => Agreeing(T, turn)
           /\ Agreed(S) => Agreed(T)
BY DEF Agreeing, Agreed

LEMMA EventsConcat ==
    ASSUME NEW h \in Seq(Event), NEW q \in Seq(Event)
    PROVE  Events(h \o q) = Events(h) \cup Events(q)
<1>. PICK g : g = h \o q
  OBVIOUS
<1>1. /\ Len(h) \in Nat /\ Len(q) \in Nat
      /\ g \in Seq(Event) /\ Len(g) = Len(h) + Len(q)
      /\ \A i \in 1..Len(h) : g[i] = h[i]
      /\ \A j \in 1..Len(q) : g[Len(h) + j] = q[j]
  BY Concat
<1>2. DOMAIN h = 1..Len(h) /\ DOMAIN q = 1..Len(q) /\ DOMAIN g = 1..Len(g)
  BY <1>1
<1>3. Events(g) \subseteq Events(h) \cup Events(q)
  <2>. SUFFICES ASSUME NEW i \in 1..Len(g) PROVE g[i] \in Events(h) \cup Events(q)
    BY <1>2 DEF Events
  <2>1. CASE i <= Len(h)
    <3>1. i \in DOMAIN h /\ g[i] = h[i]
      BY <1>1, <1>2, <2>1
    <3>. QED BY <3>1 DEF Events
  <2>2. CASE ~ (i <= Len(h))
    <3>1. i - Len(h) \in 1..Len(q) /\ Len(h) + (i - Len(h)) = i
      BY <1>1, <2>2
    <3>2. i - Len(h) \in DOMAIN q /\ g[i] = q[i - Len(h)]
      BY <1>1, <1>2, <3>1
    <3>. QED BY <3>2 DEF Events
  <2>. QED BY <2>1, <2>2
<1>4. Events(h) \subseteq Events(g)
  <2>. SUFFICES ASSUME NEW i \in 1..Len(h) PROVE h[i] \in Events(g)
    BY <1>2 DEF Events
  <2>1. i \in DOMAIN g /\ g[i] = h[i]
    BY <1>1, <1>2
  <2>. QED BY <2>1 DEF Events
<1>5. Events(q) \subseteq Events(g)
  <2>. SUFFICES ASSUME NEW j \in 1..Len(q) PROVE q[j] \in Events(g)
    BY <1>2 DEF Events
  <2>1. Len(h) + j \in DOMAIN g /\ g[Len(h) + j] = q[j]
    BY <1>1, <1>2
  <2>. QED BY <2>1 DEF Events
<1>. QED BY <1>3, <1>4, <1>5

LEMMA EventsAppend ==
    ASSUME NEW h \in Seq(Event), NEW ev \in Event
    PROVE  Events(Append(h, ev)) = Events(h) \cup {ev}
<1>1. <<ev>> \in Seq(Event) /\ h \o <<ev>> = Append(h, ev)
  BY ConcatOne
<1>2. Events(<<ev>>) = {ev}
  BY DEF Events
<1>. QED BY <1>1, <1>2, EventsConcat

\* The events of a log, all epochs together.
LEMMA JoinedEvents ==
    ASSUME NEW epochs \in Logs
    PROVE  Events(Joined(epochs)[MaxEpoch]) = Held(epochs)
<1>. DEFINE UpTo(k) == {ev \in Event : \E e \in 1..k : ev \in Events(epochs[e])}
            T == {k \in Nat : Events(Joined(epochs)[k]) = UpTo(k)}
<1>1. MaxEpoch \in Nat /\ 0 \in 0..MaxEpoch /\ MaxEpoch \in 0..MaxEpoch
  BY TurnTypes
<1>2. 0 \in T
  <2>1. Joined(epochs)[0] = <<>>
    BY JoinedDef
  <2>2. Events(<<>>) = {}
    BY DEF Events
  <2>. QED BY <2>1, <2>2
<1>3. ASSUME NEW k \in 0..(MaxEpoch - 1), k \in T PROVE k + 1 \in T
  <2>1. k + 1 \in Epoch /\ (k + 1) - 1 = k /\ k + 1 \in Nat /\ k \in 0..MaxEpoch
    BY <1>1 DEF Epoch
  <2>2. Joined(epochs)[k + 1] = Joined(epochs)[k] \o epochs[k + 1]
    BY <2>1, JoinedDef
  <2>3. Joined(epochs)[k] \in Seq(Event) /\ epochs[k + 1] \in Seq(Event)
    BY <2>1, JoinedType DEF Logs
  <2>4. Events(Joined(epochs)[k + 1]) = UpTo(k) \cup Events(epochs[k + 1])
    BY <1>3, <2>2, <2>3, EventsConcat
  <2>5. Events(epochs[k + 1]) \subseteq Event
    BY <2>3 DEF Events
  <2>6. 1..(k + 1) = 1..k \cup {k + 1}
    OBVIOUS
  <2>7. UpTo(k + 1) = UpTo(k) \cup Events(epochs[k + 1])
    <3>. HIDE DEF Events
    <3>. QED BY <2>5, <2>6
  <2>. QED BY <2>1, <2>4, <2>7
<1>4. MaxEpoch \in T
  <2>. HIDE DEF T
  <2>1. 0..MaxEpoch \subseteq T
    BY <1>1, <1>2, <1>3, IntervalInduction
  <2>. QED BY <1>1, <2>1
<1>5. \A e \in Epoch : Events(epochs[e]) \subseteq Event
  BY DEF Logs, Events
<1>6. UpTo(MaxEpoch) = Held(epochs)
  <2>. HIDE DEF Events
  <2>. QED BY <1>5 DEF Held, Epoch
<1>. QED BY <1>4, <1>6

LEMMA HeldHistory ==
    ASSUME TypeOK, NEW n \in Node
    PROVE  Events(History(n)) = Held(log[n])
BY StateFacts, JoinedEvents

\* The proposal that a view shows was made.
LEMMA ProposalMade ==
    ASSUME NEW h \in Seq(Event), Project(h).proposal # NoTurn
    PROVE  \E ev \in Events(h) : ev.type = "proposed" /\ ev.turn = Project(h).proposal
<1>. DEFINE Made(k) == \E i \in 1..k : h[i].type = "proposed"
                                       /\ h[i].turn = Views(h)[k].proposal
            T == {k \in Nat : Views(h)[k].proposal # NoTurn => Made(k)}
<1>1. Len(h) \in Nat /\ DOMAIN h = 1..Len(h)
  OBVIOUS
<1>2. 0 \in T
  <2>1. Views(h)[0] = EmptyView
    BY <1>1, ViewsDef
  <2>. QED BY <2>1 DEF EmptyView
<1>3. ASSUME NEW k \in 0..(Len(h) - 1), k \in T PROVE k + 1 \in T
  <2>1. k + 1 \in 1..Len(h) /\ (k + 1) - 1 = k /\ k + 1 \in Nat /\ k \in 0..Len(h)
    BY <1>1
  <2>. PICK v : v = Views(h)[k]
    OBVIOUS
  <2>. PICK w : w = Views(h)[k + 1]
    OBVIOUS
  <2>. PICK ev : ev = h[k + 1]
    OBVIOUS
  <2>2. w = Apply(v, ev)
    BY <1>1, <2>1, ViewsDef
  <2>3. v \in ViewType /\ ev \in Event
    BY <2>1, ViewsType
  <2>4. w.proposal = IF ev.type = "proposed" THEN ev.turn
                     ELSE IF ev.type \in {"rejected", "ended"} THEN NoTurn
                     ELSE v.proposal
    BY <2>2, <2>3, ApplyFields
  <2>. SUFFICES ASSUME w.proposal # NoTurn PROVE Made(k + 1)
    BY <2>1
  <2>5. CASE ev.type = "proposed"
    <3>1. k + 1 \in 1..(k + 1)
      BY <2>1
    <3>. QED BY <2>4, <2>5, <3>1
  <2>6. CASE ev.type # "proposed"
    <3>1. w.proposal = v.proposal /\ v.proposal # NoTurn
      BY <2>4, <2>6
    <3>2. PICK i \in 1..k : h[i].type = "proposed" /\ h[i].turn = v.proposal
      BY <1>3, <3>1
    <3>3. i \in 1..(k + 1)
      OBVIOUS
    <3>. QED BY <3>1, <3>2, <3>3
  <2>. QED BY <2>5, <2>6
<1>4. Len(h) \in T
  <2>. HIDE DEF T
  <2>1. 0..Len(h) \subseteq T
    BY <1>1, <1>2, <1>3, IntervalInduction
  <2>. QED BY <1>1, <2>1
<1>5. Project(h) = Views(h)[Len(h)]
  BY <1>1, ViewsDef
<1>6. PICK i \in 1..Len(h) : h[i].type = "proposed" /\ h[i].turn = Project(h).proposal
  BY <1>4, <1>5
<1>. QED BY <1>1, <1>6 DEF Events

\* An event that neither proposes to complete the dialogue nor completes it.
Quiet(ev) == ev.type # "proposed" /\ ev # Ended("completed")

LEMMA QuietEvents ==
    /\ Quiet(Created) /\ Quiet(Changed) /\ Quiet(Rejected) /\ Quiet(Ended("blocked"))
    /\ Quiet(Ended("error"))
    /\ \A ev : ev.type \in {"opened", "claimed", "recorded"} => Quiet(ev)
<1>1. Ended("completed").type = "ended" /\ Ended("completed").status = "completed"
  BY DEF Ended
<1>2. \A ev : ev.type \notin {"proposed", "ended"} => Quiet(ev)
  BY <1>1 DEF Quiet
<1>3. Quiet(Ended("blocked")) /\ Quiet(Ended("error"))
  BY DEF Quiet, Ended
<1>4. Created.type = "created" /\ Changed.type = "changed" /\ Rejected.type = "rejected"
  BY DEF Created, Changed, Rejected
<1>. QED BY <1>2, <1>3, <1>4

\* At most one event, the turn that follows or the end of the last round.
LEMMA FollowUpQuiet ==
    ASSUME NEW n, NEW turn, turn.slot \in {0, 1, 2}
    PROVE  \/ FollowUp(n, turn) = <<>>
           \/ \E ev : Quiet(ev) /\ FollowUp(n, turn) = <<ev>>
<1>1. 1 # 2 /\ 1 # 0 /\ 2 # 0
  OBVIOUS
<1>2. turn.slot = 0 => FollowUp(n, turn) = <<>>
  BY <1>1, Zenon DEF FollowUp
<1>3. \A next : Quiet(Opened(NewId(n), next))
  BY QuietEvents DEF Opened
<1>. QED BY <1>2, <1>3, FollowUpCases, QuietEvents

LEMMA AfterRejectionQuiet ==
    ASSUME NEW n, NEW proposal \in Turns
    PROVE  \/ AfterRejection(n, proposal) = <<>>
           \/ \E ev : Quiet(ev) /\ AfterRejection(n, proposal) = <<ev>>
<1>1. 1 # 2 /\ 1 # 0 /\ 2 # 0
  OBVIOUS
<1>2. proposal.slot \in {0, 1, 2} /\ proposal.round \in 1..MaxRounds
      /\ (proposal.round < MaxRounds <=> ~ (proposal.round >= MaxRounds))
  <2>1. proposal.slot \in 0..2 /\ proposal.round \in 1..MaxRounds
    BY DEF Turns
  <2>. QED BY <2>1, TurnTypes
<1>3. (proposal.round < MaxRounds /\ proposal.slot = 0) =>
          AfterRejection(n, proposal) = <<>>
  BY <1>1, <1>2, Zenon DEF AfterRejection
<1>4. \A next : Quiet(Opened(NewId(n), next))
  BY QuietEvents DEF Opened
<1>. QED BY <1>2, <1>3, <1>4, AfterRejectionCases, QuietEvents

\* A reply proposes to complete the dialogue, or completes it, only by saying so;
\* it completes it only as the answer to a proposal of the other node.
LEMMA ConsequencesLoud ==
    ASSUME NEW n \in Node, NEW view \in ViewType, view.turn \in Turns,
           NEW result \in Result,
           NEW k, k \in DOMAIN Consequences(n, view, result),
           NEW c, c = Consequences(n, view, result)[k]
    PROVE  /\ c.type = "proposed" => result = "complete" /\ c.turn = view.turn
           /\ c = Ended("completed") =>
                 /\ result = "complete" /\ view.proposal # NoTurn
                 /\ view.proposal.by # view.turn.by
<1>. PICK q : q = Consequences(n, view, result)
  OBVIOUS
<1>0. (~ Quiet(c) => result = "complete") /\ (c.type = "proposed" => ~ Quiet(c))
      /\ (c = Ended("completed") => ~ Quiet(c))
  <2>1. CASE result \in {"blocked", "error"}
    <3>1. q = <<Ended(result)>>
      BY <2>1, ConsequencesEnding
    <3>2. c = Ended("blocked") \/ c = Ended("error")
      BY <2>1, <3>1
    <3>. QED BY <3>2, QuietEvents DEF Quiet
  <2>2. CASE result = "continue"
    <3>1. CASE view.turn.slot = 0 /\ view.proposal # NoTurn
      <4>. PICK r : r = AfterRejection(n, view.proposal)
        OBVIOUS
      <4>1. view.proposal \in Turns
        BY <3>1 DEF ViewType
      <4>2. r = <<>> \/ \E x : Quiet(x) /\ r = <<x>>
        BY <4>1, AfterRejectionQuiet
      <4>3. q = <<Rejected>> \o r
        BY <2>2, <3>1, ConsequencesContinue
      <4>4. CASE r = <<>>
        <5>1. q = <<Rejected>>
          BY <4>3, <4>4
        <5>2. c = Rejected
          BY <5>1
        <5>. QED BY <5>2, QuietEvents DEF Quiet
      <4>5. ASSUME NEW x, Quiet(x), r = <<x>> PROVE Quiet(c)
        <5>. PICK S : S = {Rejected, x}
          OBVIOUS
        <5>1. <<Rejected>> \in Seq(S) /\ <<x>> \in Seq(S)
          OBVIOUS
        <5>2. q \in Seq(S)
          BY <4>3, <4>5, <5>1, ConcatProperties
        <5>3. c \in S
          BY <5>2
        <5>. QED BY <4>5, <5>3, QuietEvents
      <4>. QED BY <4>2, <4>4, <4>5 DEF Quiet
    <3>2. CASE ~ (view.turn.slot = 0 /\ view.proposal # NoTurn)
      <4>1. q = FollowUp(n, view.turn)
        BY <2>2, <3>2, ConsequencesContinue
      <4>2. view.turn.slot \in {0, 1, 2}
        <5>1. view.turn.slot \in 0..2
          BY DEF Turns
        <5>. QED BY <5>1
      <4>3. Quiet(c)
        BY <4>1, <4>2, FollowUpQuiet
      <4>. QED BY <4>3 DEF Quiet
    <3>. QED BY <3>1, <3>2
  <2>3. CASE result = "complete"
    BY <2>3 DEF Quiet
  <2>. QED BY <2>1, <2>2, <2>3 DEF Result
<1>1. CASE result = "complete"
  <2>1. CASE /\ view.turn.slot = 0 /\ view.proposal # NoTurn
             /\ view.proposal.by # view.turn.by
    <3>1. q = <<Ended("completed")>>
      BY <1>1, <2>1, ConsequencesComplete
    <3>2. c.type = "ended"
      BY <3>1 DEF Ended
    <3>. QED BY <1>1, <2>1, <3>2
  <2>2. CASE ~ (/\ view.turn.slot = 0 /\ view.proposal # NoTurn
                /\ view.proposal.by # view.turn.by)
    <3>. PICK next : next = Opened(NewId(n), Turn(Peer(view.turn.by), view.turn.round, 0))
      OBVIOUS
    <3>1. q = <<Proposed(view.turn), next>>
      BY <1>1, <2>2, ConsequencesComplete
    <3>2. c = Proposed(view.turn) \/ c = next
      BY <3>1
    <3>3. /\ Proposed(view.turn).type = "proposed" /\ Proposed(view.turn).turn = view.turn
          /\ next.type = "opened" /\ Ended("completed").type = "ended"
      BY DEF Proposed, Opened, Ended
    <3>. QED BY <1>1, <3>2, <3>3
  <2>. QED BY <2>1, <2>2
<1>2. CASE result # "complete"
  BY <1>0, <1>2
<1>. QED BY <1>1, <1>2

-----------------------------------------------------------------------------
(* What a handler is about to append.                                       *)

LEMMA QueueMore ==
    ASSUME NEW q, NEW S, NEW T, NEW S1, NEW T1, S \subseteq S1, T \subseteq T1,
           QueueBacked(q, S, T)
    PROVE  QueueBacked(q, S1, T1)
<1>. SUFFICES ASSUME NEW k \in 1..Len(q), NEW before, before = {q[j] : j \in 1..(k - 1)}
              PROVE  /\ q[k].type = "proposed" => Agreeing(S1 \cup before, q[k].turn)
                     /\ q[k] = Ended("completed") => Agreed(T1 \cup before)
  BY DEF QueueBacked
<1>1. /\ q[k].type = "proposed" => Agreeing(S \cup before, q[k].turn)
      /\ q[k] = Ended("completed") => Agreed(T \cup before)
  BY DEF QueueBacked
<1>2. S \cup before \subseteq S1 \cup before /\ T \cup before \subseteq T1 \cup before
  OBVIOUS
<1>. QED BY <1>1, <1>2, AgreeMore

LEMMA QueueNone ==
    ASSUME NEW S, NEW T PROVE QueueBacked(<<>>, S, T)
BY DEF QueueBacked

LEMMA QueueQuiet ==
    ASSUME NEW ev, Quiet(ev), NEW S, NEW T
    PROVE  QueueBacked(<<ev>>, S, T)
<1>1. \A k \in 1..Len(<<ev>>) : <<ev>>[k] = ev
  OBVIOUS
<1>. QED BY <1>1 DEF QueueBacked, Quiet

\* The first event is written: the rest goes on from there.
LEMMA QueueRest ==
    ASSUME NEW ev \in Event, NEW rest \in Seq(Event), NEW q, q = <<ev>> \o rest,
           NEW S, NEW T, QueueBacked(q, S, T)
    PROVE  /\ ev.type = "proposed" => Agreeing(S, ev.turn)
           /\ ev = Ended("completed") => Agreed(T)
           /\ QueueBacked(rest, S \cup {ev}, T \cup {ev})
<1>1. /\ Len(rest) \in Nat /\ Len(q) = Len(rest) + 1 /\ q[1] = ev
      /\ \A j \in 1..Len(rest) : q[j + 1] = rest[j]
  OBVIOUS
<1>2. /\ ev.type = "proposed" => Agreeing(S, ev.turn)
      /\ ev = Ended("completed") => Agreed(T)
  <2>1. 1 \in 1..Len(q) /\ {q[j] : j \in 1..(1 - 1)} = {}
    BY <1>1
  <2>2. LET before == {q[j] : j \in 1..(1 - 1)} IN
        /\ q[1].type = "proposed" => Agreeing(S \cup before, q[1].turn)
        /\ q[1] = Ended("completed") => Agreed(T \cup before)
    BY <2>1 DEF QueueBacked
  <2>3. S \cup {q[j] : j \in 1..(1 - 1)} = S /\ T \cup {q[j] : j \in 1..(1 - 1)} = T
    BY <2>1
  <2>. QED BY <1>1, <2>2, <2>3
<1>3. ASSUME NEW k \in 1..Len(rest), NEW before, before = {rest[j] : j \in 1..(k - 1)}
      PROVE  /\ rest[k].type = "proposed" =>
                    Agreeing((S \cup {ev}) \cup before, rest[k].turn)
             /\ rest[k] = Ended("completed") => Agreed((T \cup {ev}) \cup before)
  <2>. PICK older : older = {q[j] : j \in 1..((k + 1) - 1)}
    OBVIOUS
  <2>1. k + 1 \in 1..Len(q) /\ q[k + 1] = rest[k]
    BY <1>1
  <2>2. /\ q[k + 1].type = "proposed" => Agreeing(S \cup older, q[k + 1].turn)
        /\ q[k + 1] = Ended("completed") => Agreed(T \cup older)
    BY <2>1 DEF QueueBacked
  <2>3. older \subseteq {ev} \cup before
    <3>. SUFFICES ASSUME NEW j \in 1..((k + 1) - 1) PROVE q[j] \in {ev} \cup before
      OBVIOUS
    <3>1. CASE j = 1
      BY <1>1, <3>1
    <3>2. CASE j # 1
      <4>1. j - 1 \in 1..(k - 1) /\ j - 1 \in 1..Len(rest) /\ (j - 1) + 1 = j
        BY <1>1, <3>2
      <4>2. q[j] = rest[j - 1]
        BY <1>1, <4>1
      <4>. QED BY <1>3, <4>1, <4>2
    <3>. QED BY <3>1, <3>2
  <2>4. /\ S \cup older \subseteq (S \cup {ev}) \cup before
        /\ T \cup older \subseteq (T \cup {ev}) \cup before
    BY <2>3
  <2>. QED BY <2>1, <2>2, <2>4, AgreeMore
<1>. QED BY <1>2, <1>3 DEF QueueBacked

-----------------------------------------------------------------------------
(* The steps keep what the nodes hold backed.                               *)

\* An event is appended to what a node has written in an epoch of its own.
Appends(n, m, ev) ==
    log' = [log EXCEPT ![n] = [log[n] EXCEPT ![m] = Append(log[n][m], ev)]]

LEMMA AppendHolds ==
    ASSUME TypeOK, NEW n \in Node, NEW m \in Epoch, NEW ev \in Event, Appends(n, m, ev)
    PROVE  /\ \A e \in Epoch : e # m => log'[n][e] = log[n][e]
           /\ \A x \in Node : x # n => log'[x] = log[x]
           /\ Events(log'[n][m]) = Events(log[n][m]) \cup {ev}
           /\ \A e \in Epoch : Events(log[n][e]) \subseteq Events(log'[n][e])
           /\ Held(log[n]) \cup {ev} \subseteq Held(log'[n])
<1>1. log[n] \in [Epoch -> Seq(Event)] /\ log \in [Node -> [Epoch -> Seq(Event)]]
  BY DEF TypeOK
<1>. PICK grown : grown = Append(log[n][m], ev)
  OBVIOUS
<1>. PICK new : new = [log[n] EXCEPT ![m] = grown]
  OBVIOUS
<1>2. log' = [log EXCEPT ![n] = new]
  BY DEF Appends
<1>3. log'[n] = new /\ \A x \in Node : x # n => log'[x] = log[x]
  BY <1>1, <1>2
<1>4. new[m] = grown /\ \A e \in Epoch : e # m => new[e] = log[n][e]
  BY <1>1
<1>5. Events(grown) = Events(log[n][m]) \cup {ev}
  <2>1. log[n][m] \in Seq(Event)
    BY <1>1
  <2>. QED BY <2>1, EventsAppend
<1>6. \A e \in Epoch : Events(log[n][e]) \subseteq Events(new[e])
  BY <1>4, <1>5
<1>7. Held(log[n]) \cup {ev} \subseteq Held(new)
  <2>1. Held(log[n]) \subseteq Held(new)
    BY <1>6 DEF Held
  <2>2. ev \in Events(new[m])
    BY <1>4, <1>5
  <2>. QED BY <2>1, <2>2 DEF Held
<1>. QED BY <1>3, <1>4, <1>5, <1>6, <1>7

LEMMA BackedAppend ==
    ASSUME TypeOK, HeldBacked, NEW n \in Node, NEW m \in Epoch, Owner(m) = n,
           NEW ev \in Event, Appends(n, m, ev),
           ev.type = "proposed" => Agreeing(Events(log[n][m]), ev.turn),
           ev = Ended("completed") => Agreed(Held(log[n]))
    PROVE  HeldBacked'
<1>. PICK p : p = Peer(n)
  OBVIOUS
<1>1. p \in Node /\ p # n /\ Peer(p) = n /\ \A x \in Node : x = n \/ x = p
  BY TurnTypes
<1>2. log'[p] = log[p] /\ \A e \in Epoch : e # m => log'[n][e] = log[n][e]
  BY <1>1, AppendHolds
<1>3. Events(log'[n][m]) = Events(log[n][m]) \cup {ev}
  BY AppendHolds
<1>4. \A e \in Epoch : Events(log[n][e]) \subseteq Events(log'[n][e])
  BY AppendHolds
<1>5. Held(log[n]) \cup {ev} \subseteq Held(log'[n])
  BY AppendHolds
<1>6. /\ ProposalsBacked(n) /\ CompletionsBacked(n) /\ Learnt(n)
      /\ ProposalsBacked(p) /\ CompletionsBacked(p) /\ Learnt(p)
  BY <1>1 DEF HeldBacked
<1>7. ProposalsBacked(n)'
  <2>. SUFFICES ASSUME NEW e \in Epoch, NEW x \in Events(log'[n][e]), x.type = "proposed"
                PROVE  Agreeing(Events(log'[n][e]), x.turn)
    BY DEF ProposalsBacked
  <2>1. CASE x \in Events(log[n][e])
    <3>1. Agreeing(Events(log[n][e]), x.turn)
      BY <1>6, <2>1 DEF ProposalsBacked
    <3>. QED BY <1>4, <3>1, AgreeMore
  <2>2. CASE x \notin Events(log[n][e])
    <3>1. e = m /\ x = ev
      BY <1>2, <1>3, <2>2
    <3>2. Agreeing(Events(log[n][m]), ev.turn)
      BY <3>1
    <3>. QED BY <1>4, <3>1, <3>2, AgreeMore
  <2>. QED BY <2>1, <2>2
<1>8. CompletionsBacked(n)'
  <2>. SUFFICES ASSUME NEW e \in Epoch, Owner(e) = n,
                       Ended("completed") \in Events(log'[n][e])
                PROVE  Agreed(Held(log'[n]))
    BY DEF CompletionsBacked
  <2>1. Agreed(Held(log[n]))
    <3>1. CASE Ended("completed") \in Events(log[n][e])
      BY <1>6, <3>1 DEF CompletionsBacked
    <3>2. CASE Ended("completed") \notin Events(log[n][e])
      BY <1>2, <1>3, <3>2
    <3>. QED BY <3>1, <3>2
  <2>. QED BY <1>5, <2>1, AgreeMore
<1>9. Learnt(n)'
  <2>. SUFFICES ASSUME NEW e \in Epoch, Owner(e) # n
                PROVE  Events(log'[n][e]) \subseteq Events(log'[p][e])
    BY <1>1 DEF Learnt
  <2>1. Events(log[n][e]) \subseteq Events(log[p][e])
    BY <1>6 DEF Learnt
  <2>. QED BY <1>2, <2>1
<1>10. Learnt(p)'
  <2>. SUFFICES ASSUME NEW e \in Epoch, Owner(e) # p
                PROVE  Events(log'[p][e]) \subseteq Events(log'[n][e])
    BY <1>1 DEF Learnt
  <2>1. Events(log[p][e]) \subseteq Events(log[n][e])
    BY <1>1, <1>6 DEF Learnt
  <2>. QED BY <1>2, <1>4, <2>1
<1>11. ProposalsBacked(p)' /\ CompletionsBacked(p)'
  BY <1>1, <1>2, <1>6 DEF ProposalsBacked, CompletionsBacked
<1>. QED BY <1>1, <1>7, <1>8, <1>9, <1>10, <1>11 DEF HeldBacked

\* Nothing is written: it matters what the handlers are about to append.
LEMMA BackedWaits ==
    ASSUME Backed, UNCHANGED <<log, epoch>>,
           \A x \in Node : \/ pending'[x] = pending[x]
                           \/ QueueBacked(pending'[x], Events(log[x][epoch[x]]),
                                          Held(log[x]))
    PROVE  Backed'
<1>. SUFFICES ASSUME NEW x \in Node
              PROVE  /\ ProposalsBacked(x)' /\ CompletionsBacked(x)'
                     /\ PendingBacked(x)' /\ Learnt(x)'
  BY DEF Backed, HeldBacked, QueuesBacked
<1>1. ProposalsBacked(x) /\ CompletionsBacked(x) /\ PendingBacked(x) /\ Learnt(x)
  BY DEF Backed, HeldBacked, QueuesBacked
<1>2. ProposalsBacked(x)' /\ CompletionsBacked(x)' /\ Learnt(x)'
  BY <1>1 DEF ProposalsBacked, CompletionsBacked, Learnt
<1>3. PendingBacked(x)'
  BY <1>1 DEF PendingBacked
<1>. QED BY <1>2, <1>3

\* A completion answers a proposal that the coordinator holds.
LEMMA ReplyBacked ==
    ASSUME Always, Backed, NEW n \in Node, Reply(n)
    PROVE  Backed'
<1>1. TypeOK
  BY DEF Always
<1>. PICK v : v = View(n)
  OBVIOUS
<1>2. v.turn # NoTurn /\ UNCHANGED <<log, epoch>>
  BY DEF Reply
<1>3. PICK result \in Answers :
          pending' = [pending EXCEPT ![n] =
              <<Recorded(v.id, v.turn, result)>> \o Consequences(n, v, result)]
  BY DEF Reply
<1>4. result \in Result
  BY Limits DEF Result
<1>. PICK first : first = Recorded(v.id, v.turn, result)
  OBVIOUS
<1>. PICK next : next = Consequences(n, v, result)
  OBVIOUS
<1>. PICK q : q = <<first>> \o next
  OBVIOUS
<1>. PICK S : S = Events(log[n][epoch[n]])
  OBVIOUS
<1>. PICK H : H = Held(log[n])
  OBVIOUS
<1>5. /\ v \in ViewType /\ v.turn \in Turns /\ NewId(n) \in Id
      /\ first \in Event /\ next \in Seq(Event)
  BY <1>1, <1>2, <1>4, ReplyTypes, StateFacts
<1>6. /\ Len(next) \in Nat /\ Len(q) = Len(next) + 1 /\ q[1] = first
      /\ \A j \in 1..Len(next) : q[j + 1] = next[j]
  BY <1>5
<1>7. first.type = "recorded" /\ first.turn = v.turn /\ first.result = result
  BY DEF Recorded
<1>8. QueueBacked(q, S, H)
  <2>. SUFFICES ASSUME NEW k \in 1..Len(q),
                       NEW before, before = {q[j] : j \in 1..(k - 1)}
                PROVE  /\ q[k].type = "proposed" => Agreeing(S \cup before, q[k].turn)
                       /\ q[k] = Ended("completed") => Agreed(H \cup before)
    BY DEF QueueBacked
  <2>1. CASE k = 1
    <3>1. q[k].type = "recorded"
      BY <1>6, <1>7, <2>1
    <3>. QED BY <3>1 DEF Ended
  <2>2. CASE k # 1
    <3>. PICK j : j = k - 1
      OBVIOUS
    <3>1. j \in 1..Len(next) /\ j + 1 = k /\ 1 \in 1..(k - 1)
      BY <1>6, <2>2
    <3>2. first \in before /\ q[k] = next[j]
      BY <1>6, <3>1
    <3>3. j \in DOMAIN next
      BY <1>5, <3>1
    <3>. PICK c : c = q[k]
      OBVIOUS
    <3>4. /\ c.type = "proposed" => result = "complete" /\ c.turn = v.turn
          /\ c = Ended("completed") =>
                /\ result = "complete" /\ v.proposal # NoTurn
                /\ v.proposal.by # v.turn.by
      BY <1>4, <1>5, <3>2, <3>3, ConsequencesLoud
    <3>5. ASSUME c.type = "proposed" PROVE Agreeing(S \cup before, c.turn)
      BY <1>7, <3>2, <3>4, <3>5 DEF Agreeing
    <3>6. ASSUME c = Ended("completed") PROVE Agreed(H \cup before)
      <4>1. result = "complete" /\ v.proposal # NoTurn /\ v.proposal.by # v.turn.by
        BY <3>4, <3>6
      <4>2. PICK made \in Events(History(n)) :
                made.type = "proposed" /\ made.turn = v.proposal
        <5>1. History(n) \in Seq(Event) /\ v = Project(History(n))
          BY <1>1, StateFacts
        <5>. QED BY <4>1, <5>1, ProposalMade
      <4>3. made \in Held(log[n])
        BY <1>1, HeldHistory
      <4>4. PICK e \in Epoch : made \in Events(log[n][e])
        BY <4>3 DEF Held
      <4>5. Agreeing(Events(log[n][e]), v.proposal)
        BY <4>2, <4>4 DEF Backed, HeldBacked, QueuesBacked, ProposalsBacked
      <4>6. PICK agreed \in Events(log[n][e]) :
                /\ agreed.type = "recorded" /\ agreed.turn = v.proposal
                /\ agreed.result = "complete"
        BY <4>5 DEF Agreeing
      <4>7. agreed \in H
        BY <4>6 DEF Held
      <4>8. v.proposal.by \in Node /\ v.turn.by \in Node
        <5>1. v.proposal \in Turns
          BY <1>5, <4>1 DEF ViewType
        <5>. QED BY <1>5, <5>1 DEF Turns
      <4>9. \A p \in Node : p = v.turn.by \/ p = v.proposal.by
        BY <4>1, <4>8 DEF Node
      <4>. QED BY <1>7, <3>2, <4>1, <4>6, <4>7, <4>9 DEF Agreed
    <3>. QED BY <3>5, <3>6
  <2>. QED BY <2>1, <2>2
<1>9. \A x \in Node : pending'[x] = IF x = n THEN q ELSE pending[x]
  <2>1. pending' = [pending EXCEPT ![n] = q]
    BY <1>3
  <2>. QED BY <1>1, <2>1 DEF TypeOK
<1>. QED BY <1>2, <1>8, <1>9, BackedWaits

LEMMA WriteBacked ==
    ASSUME Always, Backed, NEW n \in Node, Write(n)
    PROVE  Backed'
<1>1. TypeOK
  BY DEF Always
<1>. PICK m : m = epoch[n]
  OBVIOUS
<1>. PICK ev : ev = Head(pending[n])
  OBVIOUS
<1>. PICK rest : rest = Tail(pending[n])
  OBVIOUS
<1>2. /\ UNCHANGED epoch /\ pending' = [pending EXCEPT ![n] = rest]
      /\ m \in Epoch /\ Owner(m) = n /\ ev \in Event /\ rest \in Seq(Event)
  BY WriteAppends
<1>3. Appends(n, m, ev)
  <2>1. log' = [log EXCEPT ![n] = [log[n] EXCEPT ![m] = Append(log[n][m], ev)]]
    BY Zenon DEF Write
  <2>. QED BY <2>1, Zenon DEF Appends
<1>4. pending[n] = <<ev>> \o rest
  BY WriteAppends
<1>5. QueueBacked(pending[n], Events(log[n][m]), Held(log[n])) /\ HeldBacked
  BY DEF Backed, QueuesBacked, PendingBacked
<1>6. /\ ev.type = "proposed" => Agreeing(Events(log[n][m]), ev.turn)
      /\ ev = Ended("completed") => Agreed(Held(log[n]))
      /\ QueueBacked(rest, Events(log[n][m]) \cup {ev}, Held(log[n]) \cup {ev})
  <2>. PICK q : q = pending[n]
    OBVIOUS
  <2>. PICK S : S = Events(log[n][m])
    OBVIOUS
  <2>. PICK T : T = Held(log[n])
    OBVIOUS
  <2>1. q = <<ev>> \o rest /\ QueueBacked(q, S, T)
    BY <1>4, <1>5
  <2>. QED BY <1>2, <2>1, QueueRest
<1>7. HeldBacked'
  BY <1>1, <1>2, <1>3, <1>5, <1>6, BackedAppend
<1>8. \A x \in Node : x # n => log'[x] = log[x]
  BY <1>1, <1>2, <1>3, AppendHolds
<1>9. /\ Events(log'[n][m]) = Events(log[n][m]) \cup {ev}
      /\ Held(log[n]) \cup {ev} \subseteq Held(log'[n])
  BY <1>1, <1>2, <1>3, AppendHolds
<1>10. \A x \in Node : pending'[x] = IF x = n THEN rest ELSE pending[x]
  BY <1>1, <1>2 DEF TypeOK
<1>11. QueueBacked(rest, Events(log'[n][m]), Held(log'[n]))
  <2>. PICK S : S = Events(log[n][m]) \cup {ev}
    OBVIOUS
  <2>. PICK T : T = Held(log[n]) \cup {ev}
    OBVIOUS
  <2>1. QueueBacked(rest, S, T) /\ S \subseteq Events(log'[n][m]) /\ T \subseteq Held(log'[n])
    BY <1>6, <1>9
  <2>. QED BY <2>1, QueueMore
<1>12. ASSUME NEW x \in Node PROVE PendingBacked(x)'
  <2>1. CASE x = n
    BY <1>2, <1>10, <1>11, <2>1 DEF PendingBacked
  <2>2. CASE x # n
    BY <1>2, <1>8, <1>10, <2>2 DEF PendingBacked, Backed, QueuesBacked
  <2>. QED BY <2>1, <2>2
<1>. QED BY <1>7, <1>12 DEF Backed, QueuesBacked

\* A recovery only opens a turn.
LEMMA RecoverBacked ==
    ASSUME Always, Backed, NEW n \in Node, RecoverWrite(n)
    PROVE  Backed'
<1>1. TypeOK /\ UNCHANGED <<epoch, pending>> /\ HeldBacked
  BY DEF Always, RecoverWrite, Backed
<1>2. CASE recovery[n][1] # epoch[n]
  <2>1. UNCHANGED log
    BY <1>2 DEF RecoverWrite
  <2>. QED BY <1>1, <2>1, BackedWaits
<1>3. CASE recovery[n][1] = epoch[n]
  <2>. PICK m : m = epoch[n]
    OBVIOUS
  <2>. PICK ev : ev = recovery[n][2]
    OBVIOUS
  <2>. PICK h : h = History(n)
    OBVIOUS
  <2>1. m \in Epoch /\ Owner(m) = n /\ ev \in Event /\ ev.type = "opened"
    BY <1>3, RecoveryAppends
  <2>2. Appends(n, m, ev)
    BY <1>3, RecoveryAppends DEF Appends
  <2>3. /\ ev.type = "proposed" => Agreeing(Events(log[n][m]), ev.turn)
        /\ ev = Ended("completed") => Agreed(Held(log[n]))
    BY <2>1, QuietEvents DEF Quiet
  <2>4. HeldBacked'
    BY <1>1, <2>1, <2>2, <2>3, BackedAppend
  <2>5. \A x \in Node : x # n => log'[x] = log[x]
    BY <1>1, <2>1, <2>2, AppendHolds
  <2>6. Events(log[n][m]) \subseteq Events(log'[n][m]) /\ Held(log[n]) \subseteq Held(log'[n])
    BY <1>1, <2>1, <2>2, AppendHolds
  <2>7. QueueBacked(pending[n], Events(log'[n][m]), Held(log'[n]))
    <3>1. QueueBacked(pending[n], Events(log[n][m]), Held(log[n]))
      BY DEF Backed, QueuesBacked, PendingBacked
    <3>. QED BY <2>6, <3>1, QueueMore
  <2>8. ASSUME NEW x \in Node PROVE PendingBacked(x)'
    <3>1. CASE x = n
      BY <1>1, <2>7, <3>1 DEF PendingBacked
    <3>2. CASE x # n
      BY <1>1, <2>5, <3>2 DEF PendingBacked, Backed, QueuesBacked
    <3>. QED BY <3>1, <3>2
  <2>. QED BY <2>4, <2>8 DEF Backed, QueuesBacked
<1>. QED BY <1>2, <1>3

\* The first event of an epoch.
LEMMA StartBacked ==
    ASSUME Always, Backed, NEW n \in Node, NEW m \in Epoch, Owner(m) = n,
           NEW ev \in Event, Quiet(ev), Appends(n, m, ev),
           \A x \in Node : QueueBacked(pending'[x], {}, {})
    PROVE  Backed'
<1>1. TypeOK /\ HeldBacked
  BY DEF Always, Backed
<1>2. /\ ev.type = "proposed" => Agreeing(Events(log[n][m]), ev.turn)
      /\ ev = Ended("completed") => Agreed(Held(log[n]))
  BY DEF Quiet
<1>3. HeldBacked'
  BY <1>1, <1>2, BackedAppend
<1>4. \A x \in Node : PendingBacked(x)'
  BY QueueMore DEF PendingBacked
<1>. QED BY <1>3, <1>4 DEF Backed, QueuesBacked

\* What is learnt is what its author holds backed.
LEMMA LearnBacked ==
    ASSUME Always, Backed, NEW n \in Node, Learn(n)
    PROVE  Backed'
<1>1. TypeOK /\ Heads
  BY DEF Always
<1>. PICK p : p = Peer(n)
  OBVIOUS
<1>. PICK m : m = epoch[p]
  OBVIOUS
<1>. PICK q : q = log[p][m]
  OBVIOUS
<1>2. /\ MayAct(p) /\ Writes(n, m, q) /\ pending[n] = <<>> /\ pending[p] = <<>>
      /\ UNCHANGED pending
  BY <1>1, LearnFacts
<1>3. p \in Node /\ p # n /\ Peer(p) = n /\ \A x \in Node : x = n \/ x = p
  BY TurnTypes
<1>4. m \in Epoch /\ Owner(m) = p
  BY <1>1, <1>2, <1>3, OneActs
<1>5. log[n] \in [Epoch -> Seq(Event)] /\ log \in [Node -> [Epoch -> Seq(Event)]]
  BY <1>1 DEF TypeOK
<1>. PICK new : new = [log[n] EXCEPT ![m] = q]
  OBVIOUS
<1>6. log'[n] = new /\ log'[p] = log[p]
  <2>1. log' = [log EXCEPT ![n] = new]
    BY <1>2, Zenon DEF Writes
  <2>. QED BY <1>3, <1>5, <2>1
<1>7. new[m] = q /\ \A e \in Epoch : e # m => new[e] = log[n][e]
  BY <1>4, <1>5
<1>8. /\ ProposalsBacked(n) /\ CompletionsBacked(n) /\ Learnt(n)
      /\ ProposalsBacked(p) /\ CompletionsBacked(p) /\ Learnt(p)
  BY <1>3 DEF Backed, HeldBacked, QueuesBacked
<1>9. \A e \in Epoch : Events(log[n][e]) \subseteq Events(new[e])
  <2>1. Events(log[n][m]) \subseteq Events(log[p][m])
    BY <1>3, <1>4, <1>8 DEF Learnt
  <2>. QED BY <1>7, <2>1
<1>10. Held(log[n]) \subseteq Held(new)
  BY <1>9 DEF Held
<1>11. ProposalsBacked(n)'
  <2>. SUFFICES ASSUME NEW e \in Epoch, NEW x \in Events(new[e]), x.type = "proposed"
                PROVE  Agreeing(Events(new[e]), x.turn)
    BY <1>6 DEF ProposalsBacked
  <2>. QED BY <1>7, <1>8 DEF ProposalsBacked
<1>12. CompletionsBacked(n)'
  <2>. SUFFICES ASSUME NEW e \in Epoch, Owner(e) = n, Ended("completed") \in Events(new[e])
                PROVE  Agreed(Held(new))
    BY <1>6 DEF CompletionsBacked
  <2>1. new[e] = log[n][e]
    BY <1>3, <1>4, <1>7
  <2>2. Agreed(Held(log[n]))
    BY <1>8, <2>1 DEF CompletionsBacked
  <2>. QED BY <1>10, <2>2, AgreeMore
<1>13. Learnt(n)'
  <2>. SUFFICES ASSUME NEW e \in Epoch, Owner(e) # n
                PROVE  Events(new[e]) \subseteq Events(log[p][e])
    BY <1>6 DEF Learnt
  <2>. QED BY <1>7, <1>8 DEF Learnt
<1>14. Learnt(p)'
  <2>. SUFFICES ASSUME NEW e \in Epoch, Owner(e) # p
                PROVE  Events(log[p][e]) \subseteq Events(new[e])
    BY <1>3, <1>6 DEF Learnt
  <2>1. Events(log[p][e]) \subseteq Events(log[n][e])
    BY <1>3, <1>8 DEF Learnt
  <2>. QED BY <1>9, <2>1
<1>15. ProposalsBacked(p)' /\ CompletionsBacked(p)'
  BY <1>6, <1>8 DEF ProposalsBacked, CompletionsBacked
<1>16. \A x \in Node : PendingBacked(x)'
  <2>1. \A x \in Node : pending'[x] = <<>>
    BY <1>2, <1>3
  <2>. QED BY <2>1, QueueNone DEF PendingBacked
<1>17. \A x \in Node : /\ ProposalsBacked(x)' /\ CompletionsBacked(x)' /\ Learnt(x)'
  BY <1>3, <1>11, <1>12, <1>13, <1>14, <1>15
<1>. QED BY <1>16, <1>17 DEF Backed, HeldBacked, QueuesBacked

LEMMA BackedStep ==
    ASSUME Always, Backed, [Next]_dialogueVars
    PROVE  Backed'
<1>1. TypeOK /\ Heads
  BY DEF Always
<1>2. pending \in [Node -> Seq(Event)] /\ log \in [Node -> [Epoch -> Seq(Event)]]
  BY <1>1 DEF TypeOK
<1>3. ASSUME UNCHANGED <<log, epoch, pending>> PROVE Backed'
  BY <1>3, BackedWaits
<1>4. CASE Create
  <2>. PICK opened : opened = Opened(FirstId, Turn(A, 1, 1))
    OBVIOUS
  <2>1. epoch[A] = 0 /\ pending' = [pending EXCEPT ![A] = <<opened>>]
        /\ log' = [log EXCEPT ![A][1] = <<Created>>]
    BY <1>4 DEF Create
  <2>2. log' = [log EXCEPT ![A] = [log[A] EXCEPT ![1] = <<Created>>]]
    BY <2>1, Zenon
  <2>3. A \in Node /\ 1 \in Epoch /\ Owner(1) = A
    BY TurnTypes, OwnerFacts DEF Epoch
  <2>4. log[A][1] = <<>>
    BY <1>1, <2>1, <2>3 DEF Heads, HeadAt
  <2>5. ASSUME NEW x \in Node PROVE QueueBacked(pending'[x], {}, {})
    <3>1. CASE x = A
      <4>1. opened.type = "opened" /\ pending'[x] = <<opened>>
        BY <1>2, <2>1, <3>1 DEF Opened
      <4>. QED BY <4>1, QueueQuiet, QuietEvents
    <3>2. CASE x # A
      <4>1. x = B /\ Peer(A) = B /\ Peer(B) = A /\ B \in Node
        BY <3>2, TurnTypes DEF Node, Peer
      <4>2. pending[x] # <<>> => epoch[B] > 0 /\ Owner(epoch[B]) = B
        BY <1>1, <4>1 DEF Heads, Coordinates
      <4>3. epoch[B] <= 1 /\ epoch[B] \in Nat
        BY <1>1, <2>1, <4>1, StateFacts DEF Heads
      <4>4. pending[x] = <<>>
        BY <4>2, <4>3, OwnerFacts, TurnTypes
      <4>5. pending'[x] = <<>>
        BY <1>2, <2>1, <3>2, <4>4
      <4>. QED BY <4>5, QueueNone
    <3>. QED BY <3>1, <3>2
  <2>6. Created \in Event /\ Quiet(Created)
    BY EventTypes, QuietEvents
  <2>. PICK ev : ev = Created
    OBVIOUS
  <2>7. Appends(A, 1, ev)
    <3>1. Append(log[A][1], ev) = <<ev>>
      BY <2>4
    <3>. QED BY <2>2, <3>1 DEF Appends
  <2>. QED BY <2>3, <2>5, <2>6, <2>7, StartBacked
<1>5. ASSUME NEW n \in Node, Claim(n) PROVE Backed'
  <2>. PICK ev : ev = Claimed(View(n).id)
    OBVIOUS
  <2>1. pending' = [pending EXCEPT ![n] = <<ev>>] /\ UNCHANGED <<log, epoch>>
    BY <1>5 DEF Claim
  <2>2. Quiet(ev)
    <3>1. ev.type = "claimed"
      BY DEF Claimed
    <3>. QED BY <3>1, QuietEvents
  <2>3. \A x \in Node : pending'[x] = IF x = n THEN <<ev>> ELSE pending[x]
    BY <1>2, <2>1
  <2>. QED BY <2>1, <2>2, <2>3, QueueQuiet, BackedWaits
<1>6. ASSUME NEW n \in Node, Crash(n) PROVE Backed'
  <2>1. pending' = [pending EXCEPT ![n] = <<>>] /\ UNCHANGED <<log, epoch>>
    BY <1>6 DEF Crash
  <2>2. \A x \in Node : pending'[x] = IF x = n THEN <<>> ELSE pending[x]
    BY <1>2, <2>1
  <2>. QED BY <2>1, <2>2, QueueNone, BackedWaits
<1>7. ASSUME NEW n \in Node, TakeOver(n) PROVE Backed'
  <2>. PICK e : e = epoch[n]
    OBVIOUS
  <2>. PICK m : m = e + 1
    OBVIOUS
  <2>. PICK p : p = Peer(n)
    OBVIOUS
  <2>. PICK h : h = History(n)
    OBVIOUS
  <2>1. /\ m \in Epoch /\ e \in Nat /\ Owner(m) = n
        /\ pending[n] = <<>> /\ pending[p] = <<>> /\ UNCHANGED pending
        /\ HeadAt(log[n], e)
    BY <1>7, TakeOverFacts
  <2>2. Writes(n, m, <<Changed>>) /\ Changed \in Event
    BY <1>7, TakeOverFacts
  <2>3. log' = [log EXCEPT ![n] = [log[n] EXCEPT ![m] = <<Changed>>]]
    BY <2>2, Zenon DEF Writes
  <2>4. log[n][m] = <<>>
    BY <2>1 DEF HeadAt
  <2>5. \A x \in Node : pending'[x] = <<>>
    BY <2>1, TurnTypes
  <2>6. ASSUME NEW x \in Node PROVE QueueBacked(pending'[x], {}, {})
    <3>1. pending'[x] = <<>>
      BY <2>5
    <3>. QED BY <3>1, QueueNone
  <2>. PICK ev : ev = Changed
    OBVIOUS
  <2>7. ev \in Event /\ Quiet(ev)
    BY <2>2, QuietEvents
  <2>8. Appends(n, m, ev)
    <3>1. Append(log[n][m], ev) = <<ev>>
      BY <2>4
    <3>. QED BY <2>3, <3>1 DEF Appends
  <2>. QED BY <2>1, <2>6, <2>7, <2>8, StartBacked
<1>8. CASE \E n \in Node : Lapse(n)
  BY <1>3, <1>8 DEF Lapse
<1>9. CASE \E n \in Node : RecoverRead(n)
  BY <1>3, <1>9 DEF RecoverRead
<1>10. CASE UNCHANGED dialogueVars
  BY <1>3, <1>10 DEF dialogueVars
<1>11. CASE \E n \in Node : Reply(n)
  BY <1>11, ReplyBacked
<1>12. CASE \E n \in Node : Write(n)
  BY <1>12, WriteBacked
<1>13. CASE \E n \in Node : RecoverWrite(n)
  BY <1>13, RecoverBacked
<1>14. CASE \E n \in Node : Learn(n)
  BY <1>14, LearnBacked
<1>. QED BY <1>4, <1>5, <1>6, <1>7, <1>8, <1>9, <1>10, <1>11, <1>12, <1>13, <1>14 DEF Next

\* Whatever has happened, stale reopenings and takeovers from part of a log
\* included, a coordinator that completes the dialogue holds a reply of each node
\* that agrees to it (dialogue.py 430-470): a proposal always comes with its
\* reply, and a confirmation follows a proposal of the other node.
THEOREM NobodyAlone == Spec => []NobodyCompletesAlone
<1>1. Init => Backed
  <2>. SUFFICES ASSUME Init, NEW n \in Node
                PROVE  /\ ProposalsBacked(n) /\ CompletionsBacked(n)
                       /\ PendingBacked(n) /\ Learnt(n)
    BY DEF Backed, HeldBacked, QueuesBacked
  <2>1. pending[n] = <<>> /\ \A e \in Epoch : log[n][e] = <<>>
    BY DEF Init
  <2>2. Events(<<>>) = {}
    BY DEF Events
  <2>3. Peer(n) \in Node /\ \A e \in Epoch : log[Peer(n)][e] = <<>>
    BY TurnTypes DEF Init
  <2>4. PendingBacked(n)
    BY <2>1, QueueNone DEF PendingBacked
  <2>. QED BY <2>1, <2>2, <2>3, <2>4 DEF ProposalsBacked, CompletionsBacked, Learnt
<1>2. DialogueInv /\ Backed /\ [Next]_dialogueVars => Backed'
  BY BackedStep DEF DialogueInv
<1>3. DialogueInv /\ Backed => NobodyCompletesAlone
  <2>. SUFFICES ASSUME DialogueInv, Backed, NEW n \in Node, NEW e \in Epoch,
                       Owner(e) = n, NEW i \in DOMAIN log[n][e],
                       log[n][e][i] = Ended("completed"), NEW p \in Node
                PROVE  \E j \in DOMAIN History(n) :
                           /\ History(n)[j].type = "recorded"
                           /\ History(n)[j].turn.by = p
                           /\ History(n)[j].result = "complete"
    BY DEF NobodyCompletesAlone
  <2>1. Ended("completed") \in Events(log[n][e])
    BY DEF Events
  <2>2. Agreed(Held(log[n]))
    BY <2>1 DEF Backed, HeldBacked, QueuesBacked, CompletionsBacked
  <2>3. Held(log[n]) = Events(History(n))
    BY HeldHistory DEF DialogueInv, Always
  <2>4. PICK ev \in Events(History(n)) :
            ev.type = "recorded" /\ ev.turn.by = p /\ ev.result = "complete"
    BY <2>2, <2>3 DEF Agreed
  <2>. QED BY <2>4 DEF Events
<1>. QED BY <1>1, <1>2, <1>3, DialogueInvariant, PTL DEF Spec

-----------------------------------------------------------------------------
(* The dialogue implements the protocol.                                    *)

\* What an event adds to the replies, and when it may.
LEMMA RepliesStep ==
    ASSUME NEW h, Sound(h), NEW ev \in Event, Sound(Append(h, ev))
    PROVE  /\ RepliesIn(h) \in Seq(Replied)
           /\ ev.type # "recorded" => RepliesIn(Append(h, ev)) = RepliesIn(h)
           /\ ev.type = "recorded" =>
                 /\ V1!Outcome(RepliesIn(h)) = "active" /\ ev.result \in Result
                 /\ RepliesIn(Append(h, ev)) =
                        Append(RepliesIn(h),
                               V1!Answer(V1!TurnAfter(RepliesIn(h)), ev.result))
<1>. PICK v : v = Project(h)
  OBVIOUS
<1>. PICK g : g = Append(h, ev)
  OBVIOUS
<1>. PICK r : r = RepliesIn(h)
  OBVIOUS
<1>1. h \in Seq(Event) /\ Len(h) \in Nat
  BY DEF Sound
<1>2. /\ Project(g) = Apply(v, ev) /\ Len(g) = Len(h) + 1 /\ g[Len(h) + 1] = ev
      /\ \A i \in 0..Len(h) : Views(g)[i] = Views(h)[i]
  BY <1>1, ProjectAppend
<1>3. r = v.replies /\ RepliesIn(g) = Apply(v, ev).replies
  BY <1>2, SoundReplies
<1>4. Good(v)
  BY SoundGood
<1>5. v \in ViewType /\ (v.turn # NoTurn => Due(v, v.turn)) /\ v.replies \in Seq(Replied)
  BY <1>4 DEF Good, ViewType
<1>6. Legal(v, ev)
  <2>1. Len(h) + 1 \in 1..Len(g) /\ (Len(h) + 1) - 1 = Len(h) /\ Len(h) \in 0..Len(h)
    BY <1>1, <1>2
  <2>2. Views(h)[Len(h)] = v
    BY <1>1, <2>1, ViewsDef
  <2>3. Legal(Views(g)[(Len(h) + 1) - 1], g[Len(h) + 1])
    BY <2>1 DEF Sound
  <2>. QED BY <1>2, <2>1, <2>2, <2>3
<1>8. Apply(v, ev).replies = IF ev.type = "recorded"
                             THEN Append(v.replies, Answer(ev.turn, ev.result))
                             ELSE v.replies
  BY <1>5, ApplyFields
<1>9. ASSUME ev.type = "recorded"
      PROVE  /\ V1!Outcome(r) = "active" /\ ev.result \in Result
             /\ Answer(ev.turn, ev.result) = V1!Answer(V1!TurnAfter(r), ev.result)
  <2>1. Due(v, ev.turn)
    BY <1>5, <1>6, <1>9 DEF Legal
  <2>2. ev.turn \in Turns /\ ev.result \in Result
    BY <1>9, EventFields
  <2>. QED BY <1>3, <2>1, <2>2, AnswerType DEF Due
<1>. QED BY <1>3, <1>5, <1>8, <1>9

\* The node that may act has gone furthest.
LEMMA ForemostActs ==
    ASSUME TypeOK, NEW n \in Node, MayAct(n)
    PROVE  Foremost = n
<1>1. Peer(n) \in Node /\ (n = A => Peer(n) = B) /\ (n = B => Peer(n) = A)
      /\ (n = A \/ n = B)
  BY TurnTypes DEF Peer, Node
<1>2. epoch[n] \in Nat /\ epoch[Peer(n)] \in Nat
  BY <1>1, StateFacts
<1>3. Owner(epoch[n]) = n /\ epoch[Peer(n)] <= epoch[n]
  BY DEF MayAct, Coordinates
<1>. QED BY <1>1, <1>2, <1>3, TurnTypes DEF Foremost

\* Whose log the replies are taken from after a step.
LEMMA ForemostNext ==
    ASSUME NEW n \in Node, NEW m, epoch'[n] = m, m \in Nat, epoch'[Peer(n)] \in Nat,
           epoch'[Peer(n)] < m \/ (epoch'[Peer(n)] = m /\ Owner(m) = n)
    PROVE  Foremost' = n
<1>1. (n = A => Peer(n) = B) /\ (n = B => Peer(n) = A) /\ (n = A \/ n = B) /\ A # B
  BY TurnTypes DEF Peer, Node
<1>. QED BY <1>1 DEF Foremost

LEMMA RepliesOf ==
    /\ Replies(Foremost) = RepliesIn(History(Foremost))
    /\ Replies(Foremost)' = RepliesIn(Listed(log'[Foremost']))
    /\ \A n : History(n) = Listed(log[n]) /\ History(n)' = Listed(log'[n])
BY DEF Replies, History

\* An event at the end of the log that has gone furthest: a reply that the
\* protocol admits, or none at all.
LEMMA ProtocolAppend ==
    ASSUME NEW h, Sound(h), NEW ev \in Event, Sound(Append(h, ev)),
           Replies(Foremost) = RepliesIn(h),
           Replies(Foremost)' = RepliesIn(Append(h, ev))
    PROVE  V1!Next \/ UNCHANGED Replies(Foremost)
<1>. PICK r : r = RepliesIn(h)
  OBVIOUS
<1>. PICK s : s = RepliesIn(Append(h, ev))
  OBVIOUS
<1>1. CASE ev.type # "recorded"
  BY <1>1, RepliesStep
<1>2. CASE ev.type = "recorded"
  <2>. PICK answer : answer = V1!Answer(V1!TurnAfter(r), ev.result)
    OBVIOUS
  <2>1. /\ V1!Outcome(r) = "active" /\ ev.result \in Result
        /\ r \in Seq(Replied) /\ s = Append(r, answer)
    BY <1>2, RepliesStep
  <2>2. s # r
    <3>1. Len(s) = Len(r) + 1 /\ Len(r) \in Nat
      BY <2>1
    <3>. QED BY <3>1
  <2>3. ev.result \in V1!Result
    BY <2>1 DEF Result, V1!Result
  <2>4. Replies(Foremost) = r /\ Replies(Foremost)' = s
    OBVIOUS
  <2>. QED BY <2>1, <2>2, <2>3, <2>4 DEF V1!Next
<1>. QED BY <1>1, <1>2

LEMMA RepliesSame ==
    ASSUME log'[Foremost'] = log[Foremost]
    PROVE  UNCHANGED Replies(Foremost)
<1>1. /\ Replies(Foremost) = RepliesIn(Listed(log[Foremost]))
      /\ Replies(Foremost)' = RepliesIn(Listed(log'[Foremost']))
  BY RepliesOf
<1>. QED BY <1>1

LEMMA ProtocolStep ==
    ASSUME Always, Records, ~ strayed', [Next]_dialogueVars
    PROVE  UNCHANGED Replies(Foremost) \/ V1!Next
<1>1. TypeOK /\ Heads
  BY DEF Always
<1>2. /\ log \in [Node -> Logs] /\ epoch \in [Node -> 0..MaxEpoch]
      /\ \A n \in Node : epoch[n] \in Nat /\ Sound(History(n))
  BY <1>1, StateFacts, HistorySound DEF TypeOK, Logs
<1>3. ASSUME UNCHANGED <<log, epoch>> PROVE UNCHANGED Replies(Foremost)
  <2>1. Foremost' = Foremost
    BY <1>3 DEF Foremost
  <2>. QED BY <1>3, <2>1, RepliesSame
<1>4. CASE Create
  <2>1. epoch[A] = 0 /\ epoch' = [epoch EXCEPT ![A] = 1]
        /\ log' = [log EXCEPT ![A][1] = <<Created>>]
    BY <1>4 DEF Create
  <2>. PICK q : q = <<Created>>
    OBVIOUS
  <2>2. Writes(A, 1, q)
    BY <2>1, Zenon DEF Writes
  <2>3. A \in Node /\ B \in Node /\ Peer(A) = B /\ A # B /\ 1 \in Epoch /\ 1 - 1 = 0
    BY TurnTypes DEF Peer, Epoch
  <2>4. epoch[B] = 0
    <3>1. epoch[B] <= 1 /\ (epoch[B] > 0 => Owner(epoch[B]) = B)
      BY <1>1, <2>1, <2>3, TurnTypes DEF Heads
    <3>. QED BY <1>2, <2>3, <3>1, OwnerFacts
  <2>5. HeadAt(log[A], 0) /\ HeadAt(log[B], 0) /\ HeadAt(log[A], 1)
    <3>1. HeadAt(log[A], 0) /\ HeadAt(log[B], 0)
      BY <1>1, <2>1, <2>3, <2>4 DEF Heads
    <3>. QED BY <3>1 DEF HeadAt, Epoch
  <2>6. Foremost = B /\ Foremost' = A
    <3>1. Foremost = B
      BY <2>1, <2>4, OwnerFacts DEF Foremost
    <3>2. epoch'[A] = 1 /\ epoch'[B] = 0
      BY <1>2, <2>1, <2>3, <2>4
    <3>. QED BY <2>3, <3>1, <3>2 DEF Foremost
  <2>7. History(A) = <<>> /\ History(B) = <<>>
    BY <1>1, <2>3, <2>5, NoHistory
  <2>8. Created \in Event /\ q \in Seq(Event) /\ <<>> \in Seq(Event)
    <3>1. Created \in Event
      BY EventTypes
    <3>. QED BY <3>1
  <2>. PICK h : h = Append(<<>>, Created)
    OBVIOUS
  <2>9. History(A)' = h
    <3>1. Joined(log'[A])[MaxEpoch] = Joined(log[A])[1 - 1] \o q
      BY <1>1, <2>2, <2>3, <2>5, <2>8, LogUpdate
    <3>2. Joined(log[A])[0] = <<>> /\ <<>> \o q = q
      BY <2>8, JoinedDef, ConcatEmptySeq
    <3>3. q = h
      OBVIOUS
    <3>. QED BY <1>1, <2>3, <3>1, <3>2, <3>3, StateFacts
  <2>10. Sound(<<>>) /\ Sound(h)
    <3>. PICK opened : opened = <<Opened(FirstId, Turn(A, 1, 1))>>
      OBVIOUS
    <3>1. Sound(<<>>) /\ opened \in Seq(Event) /\ Sound(q \o opened)
      BY FirstEvents
    <3>2. Sound(q)
      BY <2>8, <3>1, SoundPrefix
    <3>. QED BY <3>1, <3>2
  <2>11. Replies(Foremost) = RepliesIn(<<>>) /\ Replies(Foremost)' = RepliesIn(h)
    BY <2>6, <2>7, <2>9, RepliesOf
  <2>. QED BY <2>8, <2>10, <2>11, ProtocolAppend
<1>5. CASE \E n \in Node : Claim(n)
  BY <1>3, <1>5 DEF Claim
<1>6. CASE \E n \in Node : Reply(n)
  BY <1>3, <1>6 DEF Reply
<1>7. CASE \E n \in Node : Crash(n)
  BY <1>3, <1>7 DEF Crash
<1>8. CASE \E n \in Node : Lapse(n)
  BY <1>3, <1>8 DEF Lapse
<1>9. CASE \E n \in Node : RecoverRead(n)
  BY <1>3, <1>9 DEF RecoverRead
<1>10. ASSUME NEW n \in Node, Write(n) PROVE V1!Next \/ UNCHANGED Replies(Foremost)
  <2>. PICK m : m = epoch[n]
    OBVIOUS
  <2>. PICK ev : ev = Head(pending[n])
    OBVIOUS
  <2>. PICK rest : rest = Tail(pending[n])
    OBVIOUS
  <2>1. MayAct(n) /\ ev \in Event
    BY <1>10, WriteAppends
  <2>2. History(n)' = Append(History(n), ev)
    BY <1>10, WriteAppends
  <2>5. Sound(Append(History(n), ev))
    BY <1>10, WriteSound
  <2>3. Foremost = n /\ Foremost' = n
    <3>1. Foremost' = Foremost
      BY <1>10 DEF Write, Foremost
    <3>. QED BY <1>1, <2>1, <3>1, ForemostActs
  <2>4. Replies(Foremost) = RepliesIn(History(n))
        /\ Replies(Foremost)' = RepliesIn(Append(History(n), ev))
    BY <2>2, <2>3, RepliesOf
  <2>. QED BY <1>2, <2>1, <2>4, <2>5, ProtocolAppend
<1>11. ASSUME NEW n \in Node, RecoverWrite(n)
       PROVE  V1!Next \/ UNCHANGED Replies(Foremost)
  <2>1. UNCHANGED epoch /\ Foremost' = Foremost
    BY <1>11 DEF RecoverWrite, Foremost
  <2>2. CASE recovery[n][1] # epoch[n]
    <3>1. UNCHANGED log
      BY <1>11, <2>2 DEF RecoverWrite
    <3>. QED BY <1>3, <2>1, <3>1
  <2>3. CASE recovery[n][1] = epoch[n]
    <3>. PICK m : m = epoch[n]
      OBVIOUS
    <3>. PICK ev : ev = recovery[n][2]
      OBVIOUS
    <3>. PICK h : h = History(n)
      OBVIOUS
    <3>1. /\ ev \in Event
          /\ History(n)' = Append(h, ev)
          /\ \A p \in Node : p # n => log'[p] = log[p]
      BY <1>11, <2>3, RecoveryAppends DEF OnlyLast
    <3>4. Sound(h) /\ Sound(Append(h, ev))
      BY <1>11, <2>3, RecoverySound
    <3>2. CASE Foremost = n
      <4>1. Replies(Foremost) = RepliesIn(h)
            /\ Replies(Foremost)' = RepliesIn(Append(h, ev))
        BY <2>1, <3>1, <3>2, RepliesOf
      <4>. QED BY <3>1, <3>4, <4>1, ProtocolAppend
    <3>3. CASE Foremost # n
      <4>1. Foremost \in Node
        BY <1>2, OwnerFacts, TurnTypes DEF Foremost
      <4>. QED BY <2>1, <3>1, <3>3, <4>1, RepliesSame
    <3>. QED BY <3>2, <3>3
  <2>. QED BY <2>2, <2>3
<1>12. ASSUME NEW n \in Node, Learn(n) PROVE UNCHANGED Replies(Foremost)
  <2>. PICK p : p = Peer(n)
    OBVIOUS
  <2>. PICK m : m = epoch[p]
    OBVIOUS
  <2>. PICK q : q = log[p][m]
    OBVIOUS
  <2>1. /\ MayAct(p) /\ Writes(n, m, q) /\ epoch' = [epoch EXCEPT ![n] = m]
        /\ p \in Node /\ p # n /\ Peer(p) = n
    BY <1>1, <1>12, LearnFacts, TurnTypes
  <2>2. epoch'[p] = m /\ epoch'[n] = m /\ log'[p] = log[p]
    BY <1>2, <2>1 DEF Writes
  <2>3. Foremost = p /\ Foremost' = p
    <3>1. Owner(m) = p /\ m \in Nat
      BY <1>2, <2>1 DEF MayAct, Coordinates
    <3>. QED BY <1>1, <2>1, <2>2, <3>1, ForemostActs, ForemostNext
  <2>. QED BY <2>2, <2>3, RepliesSame
<1>13. ASSUME NEW n \in Node, TakeOver(n) PROVE V1!Next \/ UNCHANGED Replies(Foremost)
  <2>. PICK p : p = Peer(n)
    OBVIOUS
  <2>. PICK e : e = epoch[n]
    OBVIOUS
  <2>. PICK h : h = History(n)
    OBVIOUS
  <2>. PICK m : m = e + 1
    OBVIOUS
  <2>1. /\ e \in Nat /\ m \in Nat /\ m - 1 = e /\ epoch[p] = e /\ Owner(e) = p /\ e > 0
        /\ epoch' = [epoch EXCEPT ![n] = m]
        /\ strayed' = (strayed \/ BlindTakeOver(n))
    BY <1>13, TakeOverFacts
  <2>2. /\ Changed \in Event /\ History(n)' = Append(h, Changed)
        /\ Sound(h) => Sound(Append(h, Changed))
    BY <1>13, TakeOverFacts
  <2>3. p \in Node /\ p # n /\ Peer(p) = n
    BY TurnTypes
  <2>4. Foremost = p
    <3>1. MayAct(p)
      BY <1>2, <2>1, <2>3 DEF MayAct, Coordinates
    <3>. QED BY <1>1, <2>3, <3>1, ForemostActs
  <2>5. Foremost' = n
    <3>1. epoch'[n] = m /\ epoch'[p] = e /\ e < m
      BY <1>2, <2>1, <2>3
    <3>. QED BY <2>1, <3>1, ForemostNext
  \* The node that is replaced has recorded no other replies.
  <2>6. RepliesIn(History(p)) = RepliesIn(h)
    <3>1. Similar(View(n), View(p))
      BY <2>1 DEF BlindTakeOver
    <3>2. RepliesIn(h) = View(n).replies /\ RepliesIn(History(p)) = View(p).replies
      BY <1>2, <2>3, SoundReplies DEF View
    <3>. QED BY <3>1, <3>2 DEF Similar
  <2>7. /\ Replies(Foremost) = RepliesIn(h)
        /\ Replies(Foremost)' = RepliesIn(Append(h, Changed))
    BY <2>2, <2>4, <2>5, <2>6, RepliesOf
  <2>8. Sound(h) /\ Sound(Append(h, Changed))
    BY <1>2, <2>2
  <2>. QED BY <2>2, <2>7, <2>8, ProtocolAppend
<1>14. CASE UNCHANGED dialogueVars
  BY <1>3, <1>14 DEF dialogueVars
<1>. QED BY <1>4, <1>5, <1>6, <1>7, <1>8, <1>9, <1>10, <1>11, <1>12, <1>13, <1>14 DEF Next

\* Whatever crashes, expired claims, recoveries and changes of coordinator it
\* meets, and until a recovery reopens an answered turn or a node takes over
\* without what the coordinator has done, the dialogue that its log shows is one
\* that dialogue-v1 admits: whose turn it is, in which order and round, and how it
\* ends (dialogue.py 360-521, FEDERATED_DIALOGUE.md 71-77).
THEOREM Refinement == Spec => ImplementsV1
<1>1. Init => V1!Init
  <2>. SUFFICES ASSUME Init PROVE Replies(Foremost) = <<>>
    BY DEF V1!Init
  <2>1. DialogueInv
    BY InitialState
  <2>2. TypeOK /\ \A n \in Node : HeadAt(log[n], 0)
    BY <2>1 DEF DialogueInv, Always, Heads, Init
  <2>3. Foremost \in Node
    BY OwnerFacts, TurnTypes DEF Foremost, Init
  <2>4. History(Foremost) = <<>>
    BY <2>2, <2>3, NoHistory
  <2>5. RepliesIn(<<>>) = <<>>
    <3>1. Project(<<>>) = EmptyView
      <4>1. Views(<<>>)[0] = EmptyView /\ Project(<<>>) = Views(<<>>)[Len(<<>>)]
        BY ViewsDef
      <4>. QED BY <4>1
    <3>. QED BY <3>1, FirstEvents, SoundReplies DEF EmptyView
  <2>. QED BY <2>4, <2>5, RepliesOf
<1>2. DialogueInv /\ DialogueInv' /\ [Next]_dialogueVars =>
          [strayed' \/ UNCHANGED Replies(Foremost) \/ V1!Next]_dialogueVars
  <2>. SUFFICES ASSUME DialogueInv, [Next]_dialogueVars, ~ strayed'
                PROVE  UNCHANGED Replies(Foremost) \/ V1!Next
    OBVIOUS
  <2>1. ~ strayed
    BY StrayedStays
  <2>2. Always /\ Records
    BY <2>1 DEF DialogueInv, Admitted
  <2>. QED BY <2>2, ProtocolStep
<1>. QED BY <1>1, <1>2, DialogueInvariant, PTL DEF Spec, ImplementsV1
=============================================================================
