----------------------------- MODULE MCTopology -----------------------------
(***************************************************************************)
(* An instance of Topology for TLC.                                        *)
(***************************************************************************)
EXTENDS Topology

CONSTANTS c1, c2, ks1, ks2, r1

\* Parameters at the limits and past them; without an ordering and with an
\* unknown one; a time to live that just fits in a Duration of the width that
\* the run scales it down to, and one that does not.
Proposals ==
    {[retries |-> 100, ttl |-> 104857, timeout |-> 1, ordering |-> ""],
     [retries |-> 0, ttl |-> 0, timeout |-> 1, ordering |-> "sequential"],
     [retries |-> 101, ttl |-> 1, timeout |-> 1, ordering |-> "logical"],
     [retries |-> 0, ttl |-> 1, timeout |-> 0, ordering |-> "logical"],
     [retries |-> 0, ttl |-> 1, timeout |-> 1, ordering |-> "other"],
     [retries |-> 0, ttl |-> 104858, timeout |-> 1, ordering |-> "logical"]}

=============================================================================
