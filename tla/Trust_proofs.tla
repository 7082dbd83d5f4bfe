---------------------------- MODULE Trust_proofs ----------------------------
(***************************************************************************)
(* Proofs about Trust, for any guests and invitations, with a command of   *)
(* the operator at any point of an acceptance and a process stopped        *)
(* anywhere: what the two files may come to hold, and by which steps.      *)
(***************************************************************************)
EXTENDS Trust, TLAPS

\* What each process may be in the middle of.
Purpose ==
    /\ job[Node].at \in {"load", "store"} =>
        job[Node].status = "trusted" /\ job[Node].invite \in Invites
    /\ job[Node].at # "idle" => job[Node].invites[job[Node].invite] = "pending"
    /\ job[Command].at \in {"load", "store"} =>
        job[Command].status \in {"trusted", "revoked"} /\ job[Command].invite = "none"

\* An invitation that has not been printed is in no file and in no copy.
Unprinted ==
    /\ job[Command].at = "create" => job[Command].invite \notin tokens
    /\ \A i \in Invites \ tokens :
        /\ invites[i] = "absent"
        /\ job[Node].at # "idle" => job[Node].invites[i] = "absent"
        /\ job[Command].at = "create" => job[Command].invites[i] = "absent"

\* What a process has read may be older than the file, but a use that the
\* command has read is still there, and the node has read every use there is:
\* only the node records uses, one acceptance at a time.
UsesRead ==
    /\ job[Command].at = "create" =>
        \A i \in Invites : job[Command].invites[i] \in Guests =>
            invites[i] = job[Command].invites[i]
    /\ job[Node].at # "idle" =>
        \A i \in Invites : invites[i] \in Guests => job[Node].invites[i] = invites[i]

Known == {g \in Guests : peers[g] # "none"} \cup lost

\* Whoever used an invitation is known, and so is the guest whose use of it
\* the node has read or is about to record, and the one whose confirmation is
\* on its way.
UsedIsKnown ==
    /\ \A i \in Invites : invites[i] \in Guests => invites[i] \in Known
    /\ job[Node].at # "idle" =>
        \A i \in Invites : job[Node].invites[i] \in Guests => job[Node].invites[i] \in Known
    /\ job[Node].at = "consume" => job[Node].who \in Known
    /\ \A r \in replies : r[2] \in Known

Inv == TypeOK /\ Purpose /\ Unprinted /\ UsesRead /\ UsedIsKnown /\ TrustIsMutual

-----------------------------------------------------------------------------
(* A process at some stage has the record of that stage.                   *)

LEMMA NodeJob ==
    ASSUME TypeOK
    PROVE  /\ job[Node].at = "load" => job[Node] \in Loading
           /\ job[Node].at = "store" => job[Node] \in Storing
           /\ job[Node].at = "consume" => job[Node] \in Consuming
           /\ job[Node].at = "idle" => job[Node] = Idle
           /\ job[Node].at \in {"idle", "load", "store", "consume"}
    BY DEF TypeOK, Idle, Loading, Storing, Consuming

LEMMA CommandJob ==
    ASSUME TypeOK
    PROVE  /\ job[Command].at = "load" => job[Command] \in Loading
           /\ job[Command].at = "store" => job[Command] \in Storing
           /\ job[Command].at = "create" => job[Command] \in Creating
           /\ job[Command].at = "idle" => job[Command] = Idle
           /\ job[Command].at \in {"idle", "load", "store", "create"}
    BY DEF TypeOK, Idle, Loading, Storing, Creating

\* A process that takes a stage leaves the other as it is.
LEMMA Becoming ==
    ASSUME TypeOK, NEW p \in Process, NEW stage, Become(p, stage)
    PROVE  /\ job'[p] = stage
           /\ \A q \in Process \ {p} : job'[q] = job[q]
           /\ DOMAIN job' = Process
    BY DEF TypeOK, Become

LEMMA Processes == Node \in Process /\ Command \in Process /\ Node # Command
                   /\ Process = {Node, Command}
    BY DEF Process, Node, Command

-----------------------------------------------------------------------------

LEMMA InitInv == Init => Inv
  <1> SUFFICES ASSUME Init PROVE Inv
      OBVIOUS
  <1>1. TypeOK
      BY Processes DEF Init, TypeOK, Idle, PeerFile, InviteFile, NoInvites, Row, Status
  <1>2. Purpose /\ Unprinted /\ UsesRead
      BY Processes DEF Init, Purpose, Unprinted, UsesRead, Idle, NoInvites
  <1>3. UsedIsKnown /\ TrustIsMutual
      BY Processes, TrustConstants DEF Init, UsedIsKnown, TrustIsMutual, Idle, NoInvites
  <1> QED BY <1>1, <1>2, <1>3 DEF Inv

-----------------------------------------------------------------------------
(* Each action preserves the invariant.                                    *)

LEMMA LoadStep ==
    ASSUME Inv, NEW p \in Process, Load(p)
    PROVE  Inv'
  <1> USE Processes
  <1>1. PICK stage : Become(p, stage) /\ stage =
            [at |-> "store", who |-> job[p].who, status |-> job[p].status,
             invite |-> job[p].invite, invites |-> job[p].invites, peers |-> peers]
      BY DEF Load
  <1>2. /\ job'[p] = stage
        /\ \A q \in Process \ {p} : job'[q] = job[q]
        /\ DOMAIN job' = Process
      BY <1>1, Becoming DEF Inv
  <1>3. job[p] \in Loading /\ job[p].at = "load"
      BY NodeJob, CommandJob DEF Inv, Load
  <1>4. UNCHANGED <<peers, invites, tokens, expired, calls, replies, calling, hosts, lost>>
      BY DEF Load, guestVars
  <1>5. stage \in Storing
      BY <1>1, <1>3 DEF Loading, Storing, Inv, TypeOK
  <1>6. TypeOK'
      BY <1>2, <1>4, <1>5 DEF Inv, TypeOK
  <1>7. Purpose'
      BY <1>1, <1>2, <1>3, <1>4 DEF Inv, Purpose
  <1>8. Unprinted' /\ UsesRead'
      BY <1>1, <1>2, <1>3, <1>4 DEF Inv, Unprinted, UsesRead
  <1>9. UsedIsKnown' /\ TrustIsMutual'
      BY <1>1, <1>2, <1>3, <1>4 DEF Inv, UsedIsKnown, TrustIsMutual, Known
  <1> QED BY <1>6, <1>7, <1>8, <1>9 DEF Inv

\* Whoever was known still is: a row is dropped only into lost.
LEMMA StoreKnown ==
    ASSUME Inv, NEW p \in Process, Store(p)
    PROVE  /\ job[p] \in Storing
           /\ peers' \in PeerFile /\ lost' \subseteq Guests
           /\ Known \subseteq Known'
           /\ job[p].who \in Known'
  <1> USE Processes
  <1> DEFINE who == job[p].who
  <1>1. job[p] \in Storing /\ job[p].at = "store"
      BY NodeJob, CommandJob DEF Inv, Store
  <1>2. who \in Guests /\ job[p].status \in Status /\ job[p].peers \in PeerFile
      BY <1>1 DEF Storing
  <1>3. job[p].status # "none"
      BY <1>1 DEF Inv, Purpose
  <1>4. /\ peers' = [job[p].peers EXCEPT ![who] = job[p].status]
        /\ lost' = (lost \ {who}) \cup Dropped(p)
      BY DEF Store
  <1>5. peers' \in PeerFile /\ lost' \subseteq Guests
      BY <1>2, <1>4 DEF PeerFile, Dropped, Inv, TypeOK
  <1>6. peers'[who] # "none" /\ \A g \in Guests \ {who} : peers'[g] = job[p].peers[g]
      BY <1>2, <1>3, <1>4 DEF PeerFile
  <1>7. ASSUME NEW g \in Guests, g \in Known
        PROVE  g \in Known'
    <2>1. CASE g = who
        BY <1>6, <2>1 DEF Known
    <2>2. CASE g # who /\ g \in lost
        BY <1>4, <2>2 DEF Known
    <2>3. CASE g # who /\ peers[g] # "none"
        BY <1>4, <1>6, <2>3 DEF Known, Dropped
    <2> QED BY <1>7, <2>1, <2>2, <2>3 DEF Known
  <1>8. who \in Known'
      BY <1>2, <1>6 DEF Known
  <1>9. Known \subseteq Guests
      BY DEF Known, Inv, TypeOK
  <1> QED BY <1>1, <1>5, <1>7, <1>8, <1>9

LEMMA StoreStep ==
    ASSUME Inv, NEW p \in Process, Store(p)
    PROVE  Inv'
  <1> USE Processes
  <1> DEFINE stage == IF job[p].invite = "none" THEN Idle
                      ELSE [at |-> "consume", who |-> job[p].who,
                            invite |-> job[p].invite, invites |-> job[p].invites]
  <1>1. job[p] \in Storing /\ job[p].at = "store"
      BY StoreKnown DEF Store
  <1>2. /\ job'[p] = stage
        /\ \A q \in Process \ {p} : job'[q] = job[q]
        /\ DOMAIN job' = Process
      BY Becoming DEF Inv, Store
  <1>3. UNCHANGED <<invites, tokens, expired, calls, replies, calling, hosts>>
      BY DEF Store, guestVars
  <1>4. /\ p = Node => job[p].invite \in Invites
        /\ p = Command => job[p].invite = "none"
      BY <1>1 DEF Inv, Purpose
  <1>5. /\ p = Node => /\ stage \in Consuming /\ stage.at = "consume"
                       /\ stage.who = job[p].who /\ stage.invite = job[p].invite
                       /\ stage.invites = job[p].invites
        /\ p = Command => stage = Idle
      BY <1>1, <1>4, TrustConstants DEF Storing, Consuming
  <1>6. TypeOK'
      BY <1>2, <1>3, <1>5, StoreKnown DEF Inv, TypeOK
  <1>7. Purpose'
      BY <1>1, <1>2, <1>5 DEF Inv, Purpose, Idle
  <1>8. Unprinted' /\ UsesRead'
      BY <1>1, <1>2, <1>3, <1>5 DEF Inv, Unprinted, UsesRead, Idle
  <1>9. Known \subseteq Known'
      BY StoreKnown
  <1>10. UsedIsKnown'
    <2>1. \A i \in Invites : invites'[i] \in Guests => invites'[i] \in Known'
        BY <1>3, <1>9 DEF Inv, UsedIsKnown, Known
    <2>2. job'[Node].at # "idle" =>
              \A i \in Invites : job'[Node].invites[i] \in Guests => job'[Node].invites[i] \in Known'
        BY <1>1, <1>2, <1>5, <1>9 DEF Inv, UsedIsKnown, Known
    <2>3. job'[Node].at = "consume" => job'[Node].who \in Known'
      <3>1. CASE p = Node
          BY <1>2, <1>5, <3>1, StoreKnown DEF Known
      <3>2. CASE p = Command
        <4>1. job'[Node] = job[Node]
            BY <1>2, <3>2
        <4>2. job[Node].at = "consume" => job[Node].who \in Guests /\ job[Node].who \in Known
            BY NodeJob DEF Inv, UsedIsKnown, Consuming
        <4> QED BY <1>9, <4>1, <4>2 DEF Known
      <3> QED BY <3>1, <3>2
    <2>4. \A r \in replies' : r[2] \in Known'
        BY <1>3, <1>9 DEF Inv, UsedIsKnown, TypeOK, Known
    <2> QED BY <2>1, <2>2, <2>3, <2>4 DEF UsedIsKnown, Known
  <1>11. TrustIsMutual'
      BY <1>3, <1>9 DEF Inv, TrustIsMutual, Known
  <1> QED BY <1>6, <1>7, <1>8, <1>10, <1>11 DEF Inv

LEMMA StopStep ==
    ASSUME Inv, NEW p \in Process, Stop(p)
    PROVE  Inv'
  <1> USE Processes
  <1>1. /\ job'[p] = Idle
        /\ \A q \in Process \ {p} : job'[q] = job[q]
        /\ DOMAIN job' = Process
      BY Becoming DEF Inv, Stop
  <1>2. UNCHANGED <<peers, invites, tokens, expired, calls, replies, calling, hosts, lost>>
      BY DEF Stop, guestVars
  <1>3. TypeOK'
      BY <1>1, <1>2 DEF Inv, TypeOK
  <1>4. Purpose' /\ Unprinted' /\ UsesRead'
      BY <1>1, <1>2 DEF Inv, Purpose, Unprinted, UsesRead, Idle
  <1>5. UsedIsKnown' /\ TrustIsMutual'
      BY <1>1, <1>2 DEF Inv, UsedIsKnown, TrustIsMutual, Known, Idle
  <1> QED BY <1>3, <1>4, <1>5 DEF Inv

\* A command of the operator that starts to change the peers.
LEMMA CommandStep ==
    ASSUME Inv, NEW stage \in Loading \cup Storing,
           stage.status \in {"trusted", "revoked"}, stage.invite = "none",
           Become(Command, stage),
           UNCHANGED <<peers, invites, tokens, expired, calls, replies, calling, hosts, lost>>
    PROVE  Inv'
  <1> USE Processes
  <1>1. job'[Command] = stage /\ job'[Node] = job[Node] /\ DOMAIN job' = Process
      BY Becoming DEF Inv
  <1>2. stage.at # "create"
      BY DEF Loading, Storing
  <1>3. TypeOK'
      BY <1>1 DEF Inv, TypeOK
  <1>4. Purpose' /\ Unprinted' /\ UsesRead'
      BY <1>1, <1>2 DEF Inv, Purpose, Unprinted, UsesRead
  <1>5. UsedIsKnown' /\ TrustIsMutual'
      BY <1>1 DEF Inv, UsedIsKnown, TrustIsMutual, Known
  <1> QED BY <1>3, <1>4, <1>5 DEF Inv

LEMMA CreateStep ==
    ASSUME Inv, NEW i \in Invites, CreateInvite(i)
    PROVE  Inv'
  <1> USE Processes
  <1>1. /\ job'[Command] = [at |-> "create", invite |-> i, invites |-> invites]
        /\ job'[Node] = job[Node]
        /\ DOMAIN job' = Process
      BY Becoming DEF Inv, CreateInvite
  <1>2. UNCHANGED <<peers, invites, tokens, expired, calls, replies, calling, hosts, lost>>
      BY DEF CreateInvite, guestVars
  <1>3. TypeOK'
    <2>1. job'[Command] \in Creating
        BY <1>1 DEF Inv, TypeOK, Creating
    <2> QED BY <1>1, <1>2, <2>1 DEF Inv, TypeOK
  <1>4. Purpose' /\ Unprinted' /\ UsesRead'
      BY <1>1, <1>2 DEF CreateInvite, Inv, Purpose, Unprinted, UsesRead
  <1>5. UsedIsKnown' /\ TrustIsMutual'
      BY <1>1, <1>2 DEF Inv, UsedIsKnown, TrustIsMutual, Known
  <1> QED BY <1>3, <1>4, <1>5 DEF Inv

\* What is written back has no use but those of the file.
LEMMA SaveStep ==
    ASSUME Inv, SaveInvite
    PROVE  Inv'
  <1> USE Processes
  <1> DEFINE i == job[Command].invite
             rows == job[Command].invites
  <1>1. job[Command] \in Creating /\ job[Command].at = "create"
      BY CommandJob DEF Inv, SaveInvite
  <1>2. /\ job'[Command] = Idle
        /\ job'[Node] = job[Node]
        /\ DOMAIN job' = Process
      BY Becoming DEF Inv, SaveInvite
  <1>3. UNCHANGED <<peers, expired, calls, replies, calling, hosts, lost>>
      BY DEF SaveInvite, guestVars
  <1>4. i \in Invites /\ rows \in InviteFile /\ tokens' = tokens \cup {i}
      BY <1>1 DEF Creating, SaveInvite
  <1>5. invites' = [rows EXCEPT ![i] = "pending"]
      BY DEF SaveInvite
  <1>6. \A k \in Invites : invites'[k] \in Guests => invites'[k] = invites[k]
      BY <1>1, <1>4, <1>5, TrustConstants DEF Inv, UsesRead, InviteFile
  <1>7. TypeOK'
      BY <1>2, <1>3, <1>4, <1>5 DEF Inv, TypeOK, InviteFile, Row
  <1>8. Purpose' /\ Unprinted'
      BY <1>1, <1>2, <1>4, <1>5 DEF Inv, Purpose, Unprinted, Idle, InviteFile
  <1>9. UsesRead'
      BY <1>2, <1>6 DEF Inv, UsesRead, Idle
  <1>10. UsedIsKnown' /\ TrustIsMutual'
      BY <1>2, <1>3, <1>6 DEF Inv, UsedIsKnown, TrustIsMutual, Known
  <1> QED BY <1>7, <1>8, <1>9, <1>10 DEF Inv

LEMMA AcceptIncomingStep ==
    ASSUME Inv, NEW i \in Invites, NEW g \in Guests, AcceptIncoming(i, g)
    PROVE  Inv'
  <1> USE Processes
  <1>1. UNCHANGED <<peers, invites, tokens, expired, calling, hosts, lost>>
      BY DEF AcceptIncoming, guestVars
  <1>2. calls' \subseteq Invites \X Guests /\ job[Node] = Idle
      BY DEF Inv, TypeOK, AcceptIncoming
  <1>3. CASE /\ Consumable(i) /\ UNCHANGED replies
             /\ Become(Node, [at |-> "load", who |-> g, status |-> "trusted",
                              invite |-> i, invites |-> invites])
    <2>1. /\ job'[Node] = [at |-> "load", who |-> g, status |-> "trusted",
                           invite |-> i, invites |-> invites]
          /\ job'[Command] = job[Command]
          /\ DOMAIN job' = Process
        BY <1>3, Becoming DEF Inv
    <2>2. job'[Node] \in Loading
        BY <2>1 DEF Inv, TypeOK, Loading, Status
    <2>3. TypeOK'
        BY <1>1, <1>2, <1>3, <2>1, <2>2 DEF Inv, TypeOK
    <2>4. Purpose' /\ Unprinted' /\ UsesRead'
        BY <1>1, <1>3, <2>1 DEF Inv, Purpose, Unprinted, UsesRead, Consumable
    <2>5. UsedIsKnown' /\ TrustIsMutual'
        BY <1>1, <1>3, <2>1 DEF Inv, UsedIsKnown, TrustIsMutual, Known
    <2> QED BY <2>3, <2>4, <2>5 DEF Inv
  <1>4. CASE invites[i] = g /\ Confirmed(i, g) /\ UNCHANGED job
    <2>1. replies' \subseteq replies \cup {<<i, g>>} /\ g \in Known
        BY <1>4 DEF Confirmed, Inv, UsedIsKnown
    <2>2. TypeOK'
        BY <1>1, <1>2, <1>4, <2>1 DEF Inv, TypeOK
    <2>3. Purpose' /\ Unprinted' /\ UsesRead'
        BY <1>1, <1>4 DEF Inv, Purpose, Unprinted, UsesRead
    <2>4. UsedIsKnown' /\ TrustIsMutual'
        BY <1>1, <1>4, <2>1 DEF Inv, UsedIsKnown, TrustIsMutual, Known
    <2> QED BY <2>2, <2>3, <2>4 DEF Inv
  <1>5. CASE UNCHANGED <<job, replies>>
      BY <1>1, <1>2, <1>5 DEF Inv, TypeOK, Purpose, Unprinted, UsesRead, UsedIsKnown, TrustIsMutual,
                              Known
  <1> QED BY <1>3, <1>4, <1>5 DEF AcceptIncoming

\* What the node writes back has every use of the file, and perhaps one that the
\* command has undone meanwhile.
LEMMA ConsumeStep ==
    ASSUME Inv, Consume
    PROVE  Inv'
  <1> USE Processes
  <1> DEFINE i == job[Node].invite
             who == job[Node].who
             rows == job[Node].invites
  <1>1. job[Node] \in Consuming /\ job[Node].at = "consume"
      BY NodeJob DEF Inv, Consume
  <1>2. /\ job'[Node] = Idle
        /\ job'[Command] = job[Command]
        /\ DOMAIN job' = Process
      BY Becoming DEF Inv, Consume
  <1>3. UNCHANGED <<peers, tokens, expired, calls, calling, hosts, lost>>
      BY DEF Consume, guestVars
  <1>4. i \in Invites /\ who \in Guests /\ who \in Known /\ rows \in InviteFile
        /\ rows[i] = "pending"
      BY <1>1 DEF Consuming, Inv, UsedIsKnown, Purpose
  <1>5. invites' = [rows EXCEPT ![i] = who]
      BY DEF Consume
  <1>6. replies' \subseteq replies \cup {<<i, who>>}
      BY DEF Consume, Confirmed
  <1>7. TypeOK'
      BY <1>2, <1>3, <1>4, <1>5, <1>6 DEF Inv, TypeOK, InviteFile, Row
  <1>8. Purpose' /\ Unprinted'
      BY <1>1, <1>2, <1>3, <1>4, <1>5 DEF Inv, Purpose, Unprinted, Idle, InviteFile
  <1>9. UsesRead'
    <2>1. ASSUME job[Command].at = "create", NEW k \in Invites,
                 job[Command].invites[k] \in Guests
          PROVE  invites'[k] = job[Command].invites[k]
      <3>1. invites[k] = job[Command].invites[k] /\ rows[k] = invites[k]
          BY <1>1, <2>1 DEF Inv, UsesRead
      <3>2. k # i
          BY <1>4, <2>1, <3>1, TrustConstants
      <3> QED BY <1>4, <1>5, <3>1, <3>2 DEF InviteFile
    <2> QED BY <1>2, <2>1 DEF UsesRead, Idle
  <1>10. UsedIsKnown'
    <2>1. ASSUME NEW k \in Invites, invites'[k] \in Guests
          PROVE  invites'[k] \in Known
      <3>1. k = i => invites'[k] = who
          BY <1>4, <1>5 DEF InviteFile
      <3>2. k # i => invites'[k] = rows[k]
          BY <1>4, <1>5 DEF InviteFile
      <3>3. rows[k] \in Guests => rows[k] \in Known
          BY <1>1 DEF Inv, UsedIsKnown
      <3> QED BY <1>4, <2>1, <3>1, <3>2, <3>3
    <2>2. \A r \in replies' : r[2] \in Known
        BY <1>4, <1>6 DEF Inv, UsedIsKnown
    <2> QED BY <1>2, <1>3, <2>1, <2>2 DEF UsedIsKnown, Known, Idle
  <1>11. TrustIsMutual'
      BY <1>3 DEF Inv, TrustIsMutual
  <1> QED BY <1>7, <1>8, <1>9, <1>10, <1>11 DEF Inv

\* A guest records the host only on a confirmation.
LEMMA CompleteStep ==
    ASSUME Inv, NEW g \in Guests, CompleteAcceptance(g)
    PROVE  Inv'
  <1>1. /\ UNCHANGED <<peers, invites, tokens, job, expired, calls, lost>>
        /\ replies' \subseteq replies
      BY DEF CompleteAcceptance, hostVars
  <1>2. g \in Known
      BY DEF CompleteAcceptance, Inv, UsedIsKnown
  <1>3. TypeOK'
      BY <1>1 DEF CompleteAcceptance, Inv, TypeOK, Status
  <1>4. Purpose' /\ Unprinted' /\ UsesRead' /\ UsedIsKnown'
      BY <1>1 DEF Inv, Purpose, Unprinted, UsesRead, UsedIsKnown, Known
  <1>5. TrustIsMutual'
      BY <1>1, <1>2 DEF CompleteAcceptance, Inv, TrustIsMutual, TypeOK, Known
  <1> QED BY <1>3, <1>4, <1>5 DEF Inv

\* What else the guests, the network and the time do adds no trust and no
\* confirmation.
LEMMA OutsideStep ==
    ASSUME Inv,
           UNCHANGED hostVars, replies' \subseteq replies,
           calls' \subseteq Invites \X Guests, expired' \subseteq Invites,
           calling' \in [Guests -> Invites \cup {"none"}],
           hosts' \in [Guests -> Status],
           \A g \in Guests : hosts'[g] = "trusted" => hosts[g] = "trusted"
    PROVE  Inv'
  <1> USE DEF hostVars
  <1>1. TypeOK'
      BY DEF Inv, TypeOK
  <1>2. Purpose' /\ Unprinted' /\ UsesRead' /\ UsedIsKnown' /\ TrustIsMutual'
      BY DEF Inv, Purpose, Unprinted, UsesRead, UsedIsKnown, TrustIsMutual, Known
  <1> QED BY <1>1, <1>2 DEF Inv

LEMMA StepInv ==
    ASSUME Inv, [Next]_vars
    PROVE  Inv'
  <1>1. CASE \E p \in Process : Load(p) \/ Store(p) \/ Stop(p)
      BY <1>1, LoadStep, StoreStep, StopStep
  <1>2. CASE \E i \in Invites : CreateInvite(i)
      BY <1>2, CreateStep
  <1>3. CASE SaveInvite
      BY <1>3, SaveStep
  <1>4. ASSUME NEW g \in Guests, RevokePeer(g) \/ HostAccepts(g) PROVE Inv'
    <2>1. CASE RevokePeer(g)
      <3>1. [at |-> "load", who |-> g, status |-> "revoked", invite |-> "none",
             invites |-> NoInvites] \in Loading
          BY DEF Loading, Status, InviteFile, NoInvites, Row
      <3> QED BY <2>1, <3>1, CommandStep DEF RevokePeer, guestVars
    <2>2. CASE HostAccepts(g)
      <3>1. [at |-> "store", who |-> g, status |-> "trusted", invite |-> "none",
             invites |-> NoInvites, peers |-> peers] \in Storing
          BY DEF Storing, Status, InviteFile, NoInvites, Row, Inv, TypeOK
      <3> QED BY <2>2, <3>1, CommandStep DEF HostAccepts, guestVars
    <2> QED BY <1>4, <2>1, <2>2
  <1>5. CASE \E i \in Invites, g \in Guests : AcceptIncoming(i, g)
      BY <1>5, AcceptIncomingStep
  <1>6. CASE Consume
      BY <1>6, ConsumeStep
  <1>7. CASE \E g \in Guests : CompleteAcceptance(g)
      BY <1>7, CompleteStep
  <1>8. ASSUME NEW g \in Guests, GiveUp(g) PROVE Inv'
      BY <1>8, OutsideStep DEF GiveUp, Inv, TypeOK
  <1>9. ASSUME NEW g \in Guests, GuestRevokes(g) PROVE Inv'
      BY <1>9, OutsideStep DEF GuestRevokes, Inv, TypeOK, Status
  <1>10. ASSUME NEW g \in Guests, NEW i \in Invites, Accept(g, i) PROVE Inv'
      BY <1>10, OutsideStep DEF Accept, Inv, TypeOK
  <1>11. ASSUME NEW c, LoseCall(c) PROVE Inv'
      BY <1>11, OutsideStep DEF LoseCall, guestVars, Inv, TypeOK
  <1>12. ASSUME NEW i \in Invites, Expire(i) PROVE Inv'
      BY <1>12, OutsideStep DEF Expire, guestVars, Inv, TypeOK
  <1>13. CASE UNCHANGED vars
      BY <1>13, OutsideStep DEF vars, guestVars, Inv, TypeOK
  <1> QED
      BY <1>1, <1>2, <1>3, <1>4, <1>5, <1>6, <1>7, <1>8, <1>9, <1>10, <1>11,
         <1>12, <1>13 DEF Next

\* The inductive invariant: the node has read every use of an invitation that
\* the file shows, and whoever is recorded as having used one is known.
THEOREM TrustInvariant == Spec => []Inv
  <1>1. Init => Inv
      BY InitInv
  <1>2. Inv /\ [Next]_vars => Inv'
      BY StepInv
  <1> QED BY <1>1, <1>2, PTL DEF Spec

\* Every row the two files hold has one of the forms trust.py writes.
THEOREM TrustTypeCorrect == Spec => []TypeOK
  <1>1. Inv => TypeOK
      BY DEF Inv
  <1> QED BY <1>1, TrustInvariant, PTL

\* accept_incoming records the peer before the invitation and confirms last:
\* a guest that trusts the host is known to it, wherever a process stopped,
\* unless a process that had read the peers before has dropped its row.
THEOREM MutualTrust == Spec => []TrustIsMutual
  <1>1. Inv => TrustIsMutual
      BY DEF Inv
  <1> QED BY <1>1, TrustInvariant, PTL

-----------------------------------------------------------------------------
(* What a step may never do to the files.                                  *)

\* The node's update of the invitations keeps every use there is.
LEMMA ConsumeKeeps ==
    ASSUME Inv, Consume, NEW i \in Invites, invites[i] \in Guests
    PROVE  invites'[i] = invites[i]
  <1> DEFINE rows == job[Node].invites
  <1>1. job[Node] \in Consuming /\ job[Node].at = "consume"
      BY NodeJob DEF Inv, Consume
  <1>2. rows[i] = invites[i]
      BY <1>1 DEF Inv, UsesRead
  <1>3. i # job[Node].invite
      BY <1>1, <1>2, TrustConstants DEF Inv, Purpose
  <1> QED BY <1>1, <1>2, <1>3 DEF Consume, Consuming, InviteFile

LEMMA InvitesChange ==
    ASSUME [Next]_vars, ~SaveInvite, ~Consume
    PROVE  invites' = invites
  BY DEF Next, vars, hostVars, Load, Store, Stop, CreateInvite, RevokePeer, HostAccepts,
         AcceptIncoming, Accept, CompleteAcceptance, GiveUp, GuestRevokes, LoseCall, Expire

LEMMA PeersChange ==
    ASSUME [Next]_vars, peers' # peers
    PROVE  \E p \in Process : Store(p)
  BY DEF Next, vars, hostVars, Load, Stop, CreateInvite, SaveInvite, RevokePeer, HostAccepts,
         AcceptIncoming, Consume, Accept, CompleteAcceptance, GiveUp, GuestRevokes, LoseCall,
         Expire

\* A used invitation is reopened by nothing but a create_invite that has read
\* the rows before the use.
THEOREM UsedStaysUsed == Spec => OnlyCreateReopens
  <1> DEFINE Kept(i) ==
        invites[i] \in Guests /\ invites'[i] # invites[i] =>
            SaveInvite /\ job[Command].invites[i] \notin Guests
  <1>1. ASSUME Inv, [Next]_vars, NEW i \in Invites
        PROVE  Kept(i)
    <2> SUFFICES ASSUME invites[i] \in Guests, invites'[i] # invites[i]
                 PROVE  SaveInvite /\ job[Command].invites[i] \notin Guests
        OBVIOUS
    <2>1. ~Consume
        BY <1>1, ConsumeKeeps
    <2>2. SaveInvite
        BY <1>1, <2>1, InvitesChange
    <2>3. job[Command] \in Creating /\ job[Command].at = "create"
        BY <1>1, <2>2, CommandJob DEF Inv, SaveInvite
    <2>4. i # job[Command].invite => invites'[i] = job[Command].invites[i]
        BY <2>2, <2>3 DEF SaveInvite, Creating, InviteFile
    <2>5. job[Command].invites[i] \in Guests => invites[i] = job[Command].invites[i]
        BY <1>1, <2>3 DEF Inv, UsesRead
    <2>6. i # job[Command].invite
        BY <1>1, <2>3, TrustConstants DEF Inv, Unprinted
    <2> QED BY <2>2, <2>4, <2>5, <2>6
  <1>2. Inv /\ [Next]_vars => [\A i \in Invites : Kept(i)]_vars
      BY <1>1
  <1> QED BY <1>2, TrustInvariant, PTL DEF Spec, OnlyCreateReopens

\* No retry of a consumed acceptance restores a revoked peer: only an unused
\* invitation, an acceptance of the operator or rows read before the revocation.
THEOREM Revocation == Spec => RevocationHolds
  <1> DEFINE Restored(g) ==
        peers[g] = "revoked" /\ peers'[g] # "revoked" =>
            \E p \in Process :
                /\ Store(p)
                /\ \/ /\ job[p].who = g /\ peers'[g] = "trusted"
                      /\ p = Node => invites[job[p].invite] \notin Guests
                   \/ job[p].who # g /\ job[p].peers[g] # "revoked"
  <1>1. ASSUME Inv, [Next]_vars, NEW g \in Guests
        PROVE  Restored(g)
    <2> SUFFICES ASSUME peers[g] = "revoked", peers'[g] # "revoked"
                 PROVE  \E p \in Process :
                            /\ Store(p)
                            /\ \/ /\ job[p].who = g /\ peers'[g] = "trusted"
                                  /\ p = Node => invites[job[p].invite] \notin Guests
                               \/ job[p].who # g /\ job[p].peers[g] # "revoked"
        OBVIOUS
    <2>1. PICK p \in Process : Store(p)
        BY <1>1, PeersChange
    <2>2. job[p] \in Storing /\ job[p].at = "store"
        BY <1>1, <2>1, StoreKnown DEF Store
    <2>3. peers' = [job[p].peers EXCEPT ![job[p].who] = job[p].status]
        BY <2>1 DEF Store
    <2>4. CASE job[p].who # g
      <3>1. peers'[g] = job[p].peers[g]
          BY <2>2, <2>3, <2>4 DEF Storing, PeerFile
      <3> QED BY <2>1, <2>4, <3>1
    <2>5. CASE job[p].who = g
      <3>1. peers'[g] = job[p].status
          BY <2>2, <2>3, <2>5 DEF Storing, PeerFile
      <3>2. peers'[g] = "trusted"
          BY <1>1, <2>2, <3>1, Processes DEF Inv, Purpose
      <3>3. ASSUME p = Node PROVE invites[job[p].invite] \notin Guests
        <4>1. job[Node].invite \in Invites /\ job[Node].invites[job[Node].invite] = "pending"
            BY <1>1, <2>2, <3>3 DEF Inv, Purpose
        <4>2. invites[job[Node].invite] \in Guests =>
                  job[Node].invites[job[Node].invite] = invites[job[Node].invite]
            BY <1>1, <2>2, <3>3, <4>1 DEF Inv, UsesRead
        <4> QED BY <3>3, <4>1, <4>2, TrustConstants
      <3> QED BY <2>1, <2>5, <3>2, <3>3
    <2> QED BY <2>4, <2>5
  <1>2. Inv /\ [Next]_vars => [\A g \in Guests : Restored(g)]_vars
      BY <1>1
  <1> QED BY <1>2, TrustInvariant, PTL DEF Spec, RevocationHolds
=============================================================================
