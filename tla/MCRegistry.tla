----------------------------- MODULE MCRegistry -----------------------------
(***************************************************************************)
(* Instances of Registry for TLC.                                          *)
(***************************************************************************)
EXTENDS Registry, TLC

CONSTANTS w1, w2, c1, s1, s2, r1, k1, m1, m2

Msg(kind) ==
    [body |-> [kind |-> kind, key |-> k1, version |-> 1, replica |-> r1],
     retries |-> 0]

\* A message that is delivered to a registered replica, and one that is refused.
RegistryContent == {Msg("update"), Msg("ack")}

\* Before its replica is registered, this one is refused as well.
LeaseContent == {Msg("lease")}

\* No property tells message ids or workers apart; the CHOOSE of ReplayService
\* is over scenarios.
RegistrySymmetry == Permutations(MsgId) \union Permutations(Worker)

=============================================================================
