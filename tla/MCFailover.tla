----------------------------- MODULE MCFailover -----------------------------
(* Failover on a small instance: an event is one of the protocol's own, a    *)
(* lease, or one of the dialogue's.                                          *)
EXTENDS Failover

MCBody == {Created, Changed, Opened, Turn, Reopened} \cup Lease
=============================================================================
