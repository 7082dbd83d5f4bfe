-------------------------- MODULE Failover_proofs ---------------------------
(***************************************************************************)
(* The failover layer implements the replicated log: leases are ordinary   *)
(* events, and creations, dialogue writes, renewals, takeovers and the     *)
(* supervisor's recoveries are ordinary writes, whatever the clocks say.   *)
(* What FederatedLog_proofs shows of the log holds of it here.             *)
(***************************************************************************)
EXTENDS Failover, FederatedLog_proofs

ClockInv == clock \in [Node -> Time]

\* Times and lengths make leases, and leases are contents.
LEMMA LeaseIsContent ==
    ASSUME NEW t \in Time, NEW d \in Durations, NEW grant \in BOOLEAN
    PROVE  LeaseUntil(t + d, grant) \in Content
BY LeaseBodies DEF LeaseUntil, Lease

\* A handler that appends k events looks at its first k bodies only.
LEMMA FirstBodies ==
    ASSUME NEW n \in Node, NEW e, NEW s, NEW k \in Nat, NEW bodies
    PROVE  Signed(n, e, s, bodies, k)
             = Signed(n, e, s, [i \in 1..k |-> bodies[i]], k)
BY DEF Signed

LEMMA CreateIsLogStep ==
    ASSUME ClockInv, NEW d \in Durations, NEW k \in 0..2, StartConversation(d, k)
    PROVE  Next
<1>. DEFINE lease == LeaseUntil(clock[A] + d, FALSE)
            given == <<Opened, lease>>
            bodies == [i \in 1..k |-> given[i]]
<1>1. clock[A] \in Time
  BY DEF ClockInv, Node
<1>2. lease \in Content /\ Opened \in Content
  BY <1>1, LeaseIsContent, LeaseBodies
<1>3. bodies \in Contents(k)
  <2>1. \A i \in 1..k : i = 1 \/ i = 2
    OBVIOUS
  <2>2. given[1] = Opened /\ given[2] = lease
    OBVIOUS
  <2>. HIDE DEF given, lease
  <2>. QED BY <1>2, <2>1, <2>2 DEF Contents
<1>4. Create(given, k)
  BY DEF StartConversation
<1>5. A \in Node /\ k \in Nat
  BY DEF Node
<1>6. Signed(A, 1, 1, given, k) = Signed(A, 1, 1, bodies, k)
  BY <1>5, FirstBodies
<1>7. Create(bodies, k)
  BY <1>4, <1>6 DEF Create
<1>. QED BY <1>3, <1>7 DEF Next

LEMMA TakeOverIsLogStep ==
    ASSUME NEW n \in Node, NEW t \in Time, NEW d \in Durations, NEW k \in 0..1,
           TakeOver(n, t, d, k)
    PROVE  Next
<1>. DEFINE lease == LeaseUntil(t + d, TRUE)
            given == <<lease>>
            bodies == [i \in 1..k |-> given[i]]
<1>1. bodies \in Contents(k)
  <2>1. given[1] = lease /\ \A i \in 1..k : i = 1
    OBVIOUS
  <2>2. lease \in Content
    BY LeaseIsContent
  <2>. HIDE DEF given, lease
  <2>. QED BY <2>1, <2>2 DEF Contents
<1>2. OpenEpoch(n, given, k)
  BY DEF TakeOver
<1>3. Signed(n, head[n].epoch + 1, 1, given, k)
        = Signed(n, head[n].epoch + 1, 1, bodies, k)
  <2>1. k \in Nat
    OBVIOUS
  <2>. HIDE DEF given
  <2>. QED BY <2>1, FirstBodies
<1>4. OpenEpoch(n, bodies, k)
  BY <1>2, <1>3 DEF OpenEpoch
<1>5. k \in 0..MaxBatch
  BY Bounds
<1>. QED BY <1>1, <1>4, <1>5 DEF Next

LEMMA RenewIsLogStep ==
    ASSUME NEW n \in Node, NEW t \in Time, NEW d \in Durations, Renew(n, t, d)
    PROVE  Next
<1>. DEFINE lease == LeaseUntil(t + d, FALSE)
            given == <<lease>>
            bodies == [i \in 1..1 |-> given[i]]
<1>1. bodies \in Contents(1)
  <2>1. given[1] = lease /\ \A i \in 1..1 : i = 1
    OBVIOUS
  <2>2. lease \in Content
    BY LeaseIsContent
  <2>. HIDE DEF given, lease
  <2>. QED BY <2>1, <2>2 DEF Contents
<1>2. LocalAction(n, given, 1)
  BY DEF Renew
<1>3. Appended(n, given, 1) = Appended(n, bodies, 1)
  <2>. HIDE DEF given
  <2>. QED BY FirstBodies DEF Appended
<1>4. LocalAction(n, bodies, 1)
  BY <1>2, <1>3 DEF LocalAction, Append
<1>5. 1 \in 1..MaxBatch
  BY Bounds
<1>. QED BY <1>1, <1>4, <1>5 DEF Next

LEMMA DialogueIsLogStep ==
    ASSUME NEW n \in Node, NEW k \in 1..MaxBatch, DialogueWrite(n, k)
    PROVE  Next
<1>. DEFINE bodies == [i \in 1..k |-> Turn]
<1>1. bodies \in Contents(k)
  BY LeaseBodies DEF Contents
<1>2. LocalAction(n, bodies, k) \/ RemoteAction(n, bodies, k)
  BY DEF DialogueWrite
<1>. QED BY <1>1, <1>2 DEF Next

\* Every step of the failover layer is one of the log, or leaves it alone.
LEMMA StepIsLogStep ==
    ASSUME ClockInv, [FailoverNext]_failoverVars
    PROVE  [Next]_logVars
<1>1. \A n \in Node : \A t \in PassTimes(n) : t \in Time
  BY DEF PassTimes
<1>2. ASSUME NEW d \in Durations, NEW k \in 0..2, StartConversation(d, k)
      PROVE  Next
  BY <1>2, CreateIsLogStep
<1>3. ASSUME NEW n \in Node, NEW k \in 1..MaxBatch, DialogueWrite(n, k)
      PROVE  Next
  BY <1>3, DialogueIsLogStep
<1>4. ASSUME NEW n \in Node, Recover(n)
      PROVE  Next
  BY <1>4, LeaseBodies DEF Recover, Next
<1>5. ASSUME NEW n \in Node, NEW d \in Durations, Renew(n, clock[n], d)
      PROVE  Next
  BY <1>5, RenewIsLogStep DEF ClockInv
<1>6. ASSUME NEW n \in Node, Tick(n)
      PROVE  Next
  <2>1. PICK t \in PassTimes(n), d \in Durations :
            TickRenew(n, t, d) \/ TakeOver(n, t, d, 1)
    BY <1>6 DEF Tick
  <2>2. t \in Time
    BY <1>1
  <2>3. TickRenew(n, t, d) => Next
    BY <2>2, RenewIsLogStep DEF TickRenew
  <2>4. TakeOver(n, t, d, 1) => Next
    BY <2>2, TakeOverIsLogStep
  <2>. QED BY <2>1, <2>3, <2>4
<1>7. ASSUME NEW n \in Node, NEW t \in Time, NEW d \in Durations, TakeOver(n, t, d, 0)
      PROVE  Next
  BY <1>7, TakeOverIsLogStep
<1>8. ASSUME NEW n \in Node, Advance(n)
      PROVE  UNCHANGED logVars
  BY <1>8 DEF Advance
<1>9. Exchange => Next
  BY DEF Exchange, Next
<1>10. UNCHANGED failoverVars => UNCHANGED logVars
  BY DEF failoverVars
<1>. QED
  BY <1>2, <1>3, <1>4, <1>5, <1>6, <1>7, <1>8, <1>9, <1>10 DEF FailoverNext

\* Only the passing of time moves a clock, and no further than its bound.
LEMMA StepKeepsClock ==
    ASSUME ClockInv, [FailoverNext]_failoverVars
    PROVE  ClockInv'
<1>1. ASSUME NEW n \in Node, Advance(n)
      PROVE  ClockInv'
  <2>1. clock[n] \in Time /\ clock[n] + 1 \in Time
    BY <1>1, LeaseBounds DEF Advance, ClockInv, Time
  <2>. QED BY <1>1, <2>1 DEF Advance, ClockInv
<1>2. ASSUME UNCHANGED clock
      PROVE  ClockInv'
  BY <1>2 DEF ClockInv
<1>. QED
  BY <1>1, <1>2 DEF FailoverNext, failoverVars, StartConversation, DialogueWrite,
     Recover, Renew, Tick, TickRenew, TakeOver, Exchange

LEMMA ClockInvariant == FailoverSpec => []ClockInv
<1>1. FailoverInit => ClockInv
  BY LeaseBounds DEF FailoverInit, ClockInv, Time
<1>. QED BY <1>1, StepKeepsClock, PTL DEF FailoverSpec

\* The failover layer implements the replicated log (failover.py writes only
\* through append_local and advance_epoch).
THEOREM ImplementsLog == FailoverSpec => Spec
<1>1. FailoverInit => Init
  BY DEF FailoverInit
<1>2. ClockInv /\ [FailoverNext]_failoverVars => [Next]_logVars
  BY StepIsLogStep
<1>. QED BY <1>1, <1>2, ClockInvariant, PTL DEF FailoverSpec, Spec

\* Type correctness of the log and the clocks under failover.
THEOREM FailoverTypeCorrect == FailoverSpec => []ClockTypeOK
<1>1. TypeOK /\ ClockInv => ClockTypeOK
  BY DEF ClockTypeOK, ClockInv
<1>. QED BY <1>1, ClockInvariant, ImplementsLog, TypeCorrect, PTL

\* Under failover, with any clocks, any lease lengths and any takeovers: what a
\* coordinator counts as acknowledged its peer holds, the two logs agree on
\* every position they share, and an epoch that was left is final.
THEOREM FailoverKeepsLog ==
    FailoverSpec => []AckedIsHeld /\ []LogAgreement /\ EpochSealed
BY ImplementsLog, AcknowledgedIsDurable, Agreement, Sealed, PTL
=============================================================================
