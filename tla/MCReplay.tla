------------------------------ MODULE MCReplay ------------------------------
(***************************************************************************)
(* Instances of ReplayReports for TLC.                                     *)
(***************************************************************************)
EXTENDS ReplayReports, TLC

CONSTANTS w1, w2, s1, s2, r1, r2, k1, k2, m1, m2, m3

Msg(kind, v) ==
    [body |-> [kind |-> kind, key |-> k1, version |-> v, replica |-> r1],
     retries |-> 0]

\* Every kind of message to one replica about one key, in two versions where
\* they matter; a retry that is at the limit, one that is not.
SoloContent ==
    {Msg(kind, v) : kind \in {"invalidate", "update", "ack"}, v \in 1 .. 2}
    \union {Msg(kind, 1) : kind \in {"lease", "retry", "other"}}
    \union {[Msg("retry", 1) EXCEPT !.retries = 1]}

\* With versions that are not positive: clients may send them.
EdgeContent == SoloContent \union {Msg(kind, 0) : kind \in {"invalidate", "update"}}

PairContent ==
    {Msg(kind, 1) : kind \in {"lease", "update", "ack", "retry"}}

LiveContent == {Msg(kind, 1) : kind \in {"lease", "update", "ack"}}

LeaseContent  == {Msg("lease", 1), Msg("ack", 1)}
UpdateContent == {Msg("update", v) : v \in 1 .. 2}

\* No property tells message ids or workers apart; the CHOOSE of ReplayService
\* is over scenarios.
MsgIdSymmetry == Permutations(MsgId)
PairSymmetry  == Permutations(MsgId) \union Permutations(Worker)

=============================================================================
