-------------------------------- MODULE Trust -------------------------------
(***************************************************************************)
(* How a node comes to trust its peers (node/trust.py): it hands out an    *)
(* invitation, the guest that accepts it is recorded as trusted, confirmed *)
(* and records the host in turn; either may revoke the other later.        *)
(*                                                                         *)
(* The host keeps two files, peers.json and invites.json.  Its node        *)
(* process and its command line change them by reading a whole file and    *)
(* writing it back, and no lock keeps one from coming between the two      *)
(* steps of the other.  The guests are seen from the host only: a guest    *)
(* has what it says of the host, and at most one call under way.  An       *)
(* invitation that a guest hands out is this module with the parts         *)
(* exchanged: of it only what the host's own command writes is kept.       *)
(***************************************************************************)
EXTENDS Naturals, FiniteSets, TLC

CONSTANTS
    Guests,         \* nodes that may accept an invitation of the host
    Invites,        \* invitations the host may create
    MaxCalls        \* bound on the acceptances that are on their way at a time

Status == {"none", "trusted", "revoked"}      \* "none": no such row

ASSUME TrustConstants ==
    /\ {"absent", "pending"} \cap Guests = {}
    /\ "none" \notin Invites
    /\ MaxCalls \in Nat

VARIABLES
    peers,          \* peers.json of the host
    invites,        \* invites.json of the host; a used row names who used it
    tokens,         \* invitations printed for the operator
    expired,        \* those whose time has passed
    job,            \* what each process of the host is in the middle of
    calls,          \* acceptances on their way to the host
    replies,        \* confirmations on their way to their guest
    calling,        \* the invitation a guest waits to be confirmed
    hosts,          \* what each guest's peers.json says of the host, of what
                    \* it has accepted from the host
    lost            \* history: the peers whose row was dropped by a process that
                    \* wrote back what it had read before there was one

hostVars == <<peers, invites, tokens, job, lost>>
guestVars == <<calling, hosts>>
vars == <<hostVars, expired, calls, replies, guestVars>>

Node == "node"
Command == "command"
Process == {Node, Command}

PeerFile == [Guests -> Status]
Row == {"absent", "pending"} \cup Guests
InviteFile == [Invites -> Row]
NoInvites == [i \in Invites |-> "absent"]

Idle == [at |-> "idle"]

\* The stages of an update, with what the process has read.
Creating == [at : {"create"}, invite : Invites, invites : InviteFile]
Loading == [at : {"load"}, who : Guests, status : Status,
            invite : Invites \cup {"none"}, invites : InviteFile]
Storing == [at : {"store"}, who : Guests, status : Status,
            invite : Invites \cup {"none"}, invites : InviteFile,
            peers : PeerFile]
Consuming == [at : {"consume"}, who : Guests, invite : Invites,
              invites : InviteFile]

\* Type invariant: node/trust.py writes only rows of these forms.
TypeOK ==
    /\ peers \in PeerFile
    /\ invites \in InviteFile
    /\ tokens \subseteq Invites
    /\ expired \subseteq Invites
    /\ job[Node] \in {Idle} \cup Loading \cup Storing \cup Consuming
    /\ job[Command] \in {Idle} \cup Creating \cup Loading \cup Storing
    /\ DOMAIN job = Process
    /\ calls \subseteq Invites \X Guests
    /\ replies \subseteq Invites \X Guests
    /\ calling \in [Guests -> Invites \cup {"none"}]
    /\ hosts \in [Guests -> Status]
    /\ lost \subseteq Guests

Init ==
    /\ peers = [g \in Guests |-> "none"]
    /\ invites = NoInvites
    /\ tokens = {}
    /\ expired = {}
    /\ job = [p \in Process |-> Idle]
    /\ calls = {}
    /\ replies = {}
    /\ calling = [g \in Guests |-> "none"]
    /\ hosts = [g \in Guests |-> "none"]
    /\ lost = {}

-----------------------------------------------------------------------------
(* The two files.                                                          *)

Become(p, stage) == job' = [job EXCEPT ![p] = stage]

\* _upsert_peer reads the rows it will write back.
Load(p) ==
    /\ job[p].at = "load"
    /\ Become(p, [at |-> "store", who |-> job[p].who, status |-> job[p].status,
                  invite |-> job[p].invite, invites |-> job[p].invites,
                  peers |-> peers])
    /\ UNCHANGED <<peers, invites, tokens, expired, calls, replies, lost, guestVars>>

\* The rows that a process is about to drop, for it has read the file before
\* they were written.
Dropped(p) == {g \in Guests \ {job[p].who} :
                  peers[g] # "none" /\ job[p].peers[g] = "none"}

\* _upsert_peer replaces the file; accept_incoming has its invitation to
\* record still.
Store(p) ==
    /\ job[p].at = "store"
    /\ peers' = [job[p].peers EXCEPT ![job[p].who] = job[p].status]
    /\ lost' = (lost \ {job[p].who}) \cup Dropped(p)
    /\ Become(p, IF job[p].invite = "none" THEN Idle
                 ELSE [at |-> "consume", who |-> job[p].who,
                       invite |-> job[p].invite, invites |-> job[p].invites])
    /\ UNCHANGED <<invites, tokens, expired, calls, replies, guestVars>>

\* A process is stopped in the middle of an update.
Stop(p) ==
    /\ job[p] # Idle
    /\ Become(p, Idle)
    /\ UNCHANGED <<peers, invites, tokens, expired, calls, replies, lost, guestVars>>

-----------------------------------------------------------------------------
(* Commands of the host's operator.                                        *)

\* create_invite up to its reading of the rows.
CreateInvite(i) ==
    /\ job[Command] = Idle /\ i \notin tokens
    /\ Become(Command, [at |-> "create", invite |-> i, invites |-> invites])
    /\ UNCHANGED <<peers, invites, tokens, expired, calls, replies, lost, guestVars>>

SaveInvite ==
    /\ job[Command].at = "create"
    /\ invites' = [job[Command].invites EXCEPT ![job[Command].invite] = "pending"]
    /\ tokens' = tokens \cup {job[Command].invite}
    /\ Become(Command, Idle)
    /\ UNCHANGED <<peers, expired, calls, replies, lost, guestVars>>

\* A mutant: revoking deletes the row.
RevokePeerMutant(g) ==
    /\ job[Command] = Idle /\ peers[g] # "none"
    /\ Become(Command, [at |-> "load", who |-> g, status |-> "none",
                        invite |-> "none", invites |-> NoInvites])
    /\ UNCHANGED <<peers, invites, tokens, expired, calls, replies, lost, guestVars>>

\* revoke_peer finds the peer, then updates its row.
RevokePeer(g) ==
    /\ job[Command] = Idle /\ peers[g] # "none"
    /\ Become(Command, [at |-> "load", who |-> g, status |-> "revoked",
                        invite |-> "none", invites |-> NoInvites])
    /\ UNCHANGED <<peers, invites, tokens, expired, calls, replies, lost, guestVars>>

\* complete_acceptance, of an invitation that the peer has handed out, as far
\* as _upsert_peer's reading: whatever its row was, the peer will be trusted.
HostAccepts(g) ==
    /\ job[Command] = Idle
    /\ Become(Command, [at |-> "store", who |-> g, status |-> "trusted",
                        invite |-> "none", invites |-> NoInvites,
                        peers |-> peers])
    /\ UNCHANGED <<peers, invites, tokens, expired, calls, replies, lost, guestVars>>

-----------------------------------------------------------------------------
(* The node handles an acceptance.                                         *)

Confirmed(i, g) ==
    replies' = IF calling[g] = i THEN replies \cup {<<i, g>>} ELSE replies

\* A mutant: a used row is not told from a pending one.
ConsumableMutant(i) == invites[i] # "absent"

Consumable(i) == invites[i] = "pending"

\* accept_incoming: an unknown or expired invitation, or one another guest
\* has used, is refused; its own guest is confirmed again; a pending one
\* leads to two updates.
AcceptIncoming(i, g) ==
    /\ job[Node] = Idle /\ <<i, g>> \in calls
    /\ calls' = calls \ {<<i, g>>}
    /\ \/ /\ i \notin expired /\ Consumable(i)
          /\ Become(Node, [at |-> "load", who |-> g, status |-> "trusted",
                           invite |-> i, invites |-> invites])
          /\ UNCHANGED replies
       \/ /\ i \notin expired /\ ~Consumable(i) /\ invites[i] = g
          /\ Confirmed(i, g)
          /\ UNCHANGED job
       \/ /\ i \in expired \/ (~Consumable(i) /\ invites[i] # g)
          /\ UNCHANGED <<job, replies>>
    /\ UNCHANGED <<peers, invites, tokens, expired, lost, guestVars>>

\* A mutant: the row is marked used without its guest.
ConsumeMutant ==
    /\ job[Node].at = "consume"
    /\ invites' = [job[Node].invites EXCEPT ![job[Node].invite] = "used"]
    /\ Confirmed(job[Node].invite, job[Node].who)
    /\ Become(Node, Idle)
    /\ UNCHANGED <<peers, tokens, expired, calls, lost, guestVars>>

\* The end of accept_incoming: the rows it has read are written back with
\* this one used, and the guest is confirmed.
Consume ==
    /\ job[Node].at = "consume"
    /\ invites' = [job[Node].invites EXCEPT ![job[Node].invite] = job[Node].who]
    /\ Confirmed(job[Node].invite, job[Node].who)
    /\ Become(Node, Idle)
    /\ UNCHANGED <<peers, tokens, expired, calls, lost, guestVars>>

-----------------------------------------------------------------------------
(* The guests.                                                             *)

\* accept_invite_over_http sends an acceptance, for the first time or again.
Accept(g, i) ==
    /\ calling[g] = "none" /\ i \in tokens \ expired
    /\ calling' = [calling EXCEPT ![g] = i]
    /\ calls' = calls \cup {<<i, g>>} /\ Cardinality(calls') <= MaxCalls
    /\ UNCHANGED <<hostVars, expired, replies, hosts>>

\* complete_acceptance: the invitation is verified again.
CompleteAcceptance(g) ==
    /\ <<calling[g], g>> \in replies
    /\ hosts' = [hosts EXCEPT ![g] = IF calling[g] \in expired THEN @ ELSE "trusted"]
    /\ calling' = [calling EXCEPT ![g] = "none"]
    /\ replies' = {r \in replies : r[2] # g}
    /\ UNCHANGED <<hostVars, expired, calls>>

\* The call is refused, lost, answered too late, or its process stopped.
GiveUp(g) ==
    /\ calling[g] # "none"
    /\ calling' = [calling EXCEPT ![g] = "none"]
    /\ replies' = {r \in replies : r[2] # g}
    /\ UNCHANGED <<hostVars, expired, calls, hosts>>

GuestRevokes(g) ==
    /\ hosts[g] # "none"
    /\ hosts' = [hosts EXCEPT ![g] = "revoked"]
    /\ UNCHANGED <<hostVars, expired, calls, replies, calling>>

LoseCall(c) ==
    /\ c \in calls
    /\ calls' = calls \ {c}
    /\ UNCHANGED <<hostVars, expired, replies, guestVars>>

Expire(i) ==
    /\ i \in tokens \ expired
    /\ expired' = expired \cup {i}
    /\ UNCHANGED <<hostVars, calls, replies, guestVars>>

Next ==
    \/ \E p \in Process : Load(p) \/ Store(p) \/ Stop(p)
    \/ \E i \in Invites : CreateInvite(i) \/ Expire(i)
    \/ SaveInvite
    \/ \E g \in Guests : RevokePeer(g) \/ HostAccepts(g) \/ CompleteAcceptance(g) \/ GiveUp(g) \/ GuestRevokes(g)
    \/ \E i \in Invites, g \in Guests : AcceptIncoming(i, g) \/ Accept(g, i) \/ LoseCall(<<i, g>>)
    \/ Consume

Spec == Init /\ [][Next]_vars

-----------------------------------------------------------------------------
(* Properties.                                                             *)

\* A different node cannot reuse a consumed invitation
\* (docs/PEER_TRUST.md 29): a row that names who used it never changes.
UsedIsFinal ==
    [][\A i \in Invites : invites[i] \in Guests => invites'[i] = invites[i]]_vars

\* No number of acceptances, retries and stops reopens a used invitation, or
\* gives it to another guest: only create_invite does, when it writes back rows
\* it has read before the invitation was used (230-241).
OnlyCreateReopens ==
    [][\A i \in Invites :
        invites[i] \in Guests /\ invites'[i] # invites[i] =>
            SaveInvite /\ job[Command].invites[i] \notin Guests]_vars

\* A revoked peer stays revoked through every retry of the acceptance that
\* made it trusted: it is restored by an invitation that nobody has used, by
\* the operator who accepts one of the peer's, or by a process that writes back
\* rows it has read before the revocation (accept_incoming's branch for a used
\* row, 368-373; _upsert_peer, 170-189).
RevocationHolds ==
    [][\A g \in Guests :
        peers[g] = "revoked" /\ peers'[g] # "revoked" =>
            \E p \in Process :
                /\ Store(p)
                /\ \/ /\ job[p].who = g /\ peers'[g] = "trusted"
                      /\ p = Node => invites[job[p].invite] \notin Guests
                   \/ job[p].who # g /\ job[p].peers[g] # "revoked"]_vars

\* A guest that trusts the host is known there, trusted or revoked, whatever
\* call was lost, repeated or cut short: the peer is recorded before the
\* invitation, and the invitation before the confirmation.  Only a process that
\* writes back rows it has read before can drop it.
TrustIsMutual ==
    \A g \in Guests : hosts[g] = "trusted" => peers[g] # "none" \/ g \in lost

Symmetry == Permutations(Guests) \cup Permutations(Invites)
=============================================================================
