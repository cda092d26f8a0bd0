------------------------------- MODULE Leases -------------------------------
(***************************************************************************)
(* The lease table of internal/delivery/delivery.go: at most one lease per *)
(* replica and key, kept in the memory of the process and never written to *)
(* the database.                                                           *)
(*                                                                         *)
(* The code stores the instant a lease expires and compares it with the    *)
(* clock.  Here a lease carries the time it has left, which is the same    *)
(* information without a clock that grows for ever.  A lease with no time  *)
(* left and a missing one get the same answer from ValidateAck, the only   *)
(* reader, so both are NoLease.                                            *)
(***************************************************************************)
EXTENDS Integers

CONSTANTS TTL,         \* lease_ttl_ms as a Duration, in ticks
          MaxRetries   \* max_retries

\* validateProtocol refuses lease_ttl_ms <= 0 and a negative max_retries.  A TTL
\* of 0 stands for one that is not positive as a Duration (see Topology): such a
\* lease has expired when it is granted.
ASSUME ProtocolAssumption == TTL \in Nat /\ MaxRetries \in Nat

Lease   == [version : Int, left : 0 .. TTL]
NoLease == [version |-> 0, left |-> 0]

\* Lease.Valid
Live(l) == l.left > 0

\* GrantLease: a new lease replaces whatever was there.
GrantLease(table, r, k, v) ==
    [table EXCEPT ![r][k] = [version |-> v, left |-> TTL]]

\* Mutant of ReleaseLease: the lease is kept.
KeepLease(table, r, k) == table

\* ReleaseLease
ReleaseLease(table, r, k) == [table EXCEPT ![r][k] = NoLease]

\* Mutant of Aged: a lease that has run out goes on running.
AgedBelowZero(l) == [l EXCEPT !.left = @ - 1]

\* One tick of the wall clock.
Aged(l) == IF l.left <= 1 THEN NoLease ELSE [l EXCEPT !.left = @ - 1]

\* ValidateAck, for a replica that exists: the kind of the answer.
ValidateAck(l, v) == IF ~Live(l)          THEN "no_lease"
                     ELSE IF v # l.version THEN "version_mismatch"
                     ELSE "ok"

\* Mutant of RetryAllowed: off by one.
RetryAllowedOnceMore(n) == n <= MaxRetries + 1

\* DecideRetry
RetryAllowed(n) == n <= MaxRetries

=============================================================================
