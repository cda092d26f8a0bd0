--------------------------- MODULE ProofGenerator ---------------------------
(***************************************************************************)
(* What internal/proof says of a keyspace and of a log.  proof.go compares *)
(* the rows of the replicas with the source versions, in a way of its own  *)
(* for each verdict, neither of them IsConvergedFor; monotonic.go audits   *)
(* a list of messages without replaying it.  Lines of text are the pairs   *)
(* of a replica and a key they are about.                                  *)
(*                                                                         *)
(* replicas: the status of each replica, or "unregistered"; sources: the   *)
(* version of each key, 0 when there is none; rows: replica_key_versions.  *)
(***************************************************************************)
EXTENDS KeyVersions, Sequences

\* Mutant of Reported: isolated replicas are not skipped.
RegisteredAll(replicas) == {r \in DOMAIN replicas : replicas[r] # "unregistered"}

Reported(replicas) ==
    {r \in DOMAIN replicas : replicas[r] \notin {"unregistered", "isolated"}}

Committed(sources) == {k \in DOMAIN sources : sources[k] > 0}

\* buildConverged writes a line per replica and key: "converged", or "missing".
LineConverged(obs, v) ==
    ~Absent(obs) /\ obs.version = v /\ obs.status \in {"valid", "superseded"}

MissingLines(replicas, sources, rows) ==
    {p \in Reported(replicas) \X Committed(sources) :
        ~LineConverged(rows[p[1]][p[2]], sources[p[2]])}

\* Mutant of LineLagging: a version of a row is not compared.
LineMissing(obs, v) == Absent(obs)

\* buildTimeout names the replicas that lack a version.
LineLagging(obs, v) == Absent(obs) \/ obs.version # v

Unconverged(replicas, sources, rows) ==
    {r \in Reported(replicas) :
        \E k \in Committed(sources) : LineLagging(rows[r][k], sources[k])}

-----------------------------------------------------------------------------
(* CheckMonotonicObservations *)

Advances(m) == m.body.kind \in {"update", "invalidate"}
Concerns(m, r, k) == m.body.replica = r /\ m.body.key = k

\* Mutant of Regresses: repeating a version is a problem too.
RegressesOrRepeats(version, seen) == version <= seen

Regresses(version, seen) == version < seen

\* The version the audit has seen of a replica and key after n messages; a
\* message it complains about does not count.
Seen(msgs, r, k) ==
    LET seen[n \in 0 .. Len(msgs)] ==
          IF n = 0 THEN 0
          ELSE LET m == msgs[n] IN
               IF /\ Advances(m) /\ Concerns(m, r, k)
                  /\ ~Regresses(m.body.version, seen[n - 1])
               THEN m.body.version
               ELSE seen[n - 1]
    IN  seen

\* The messages it complains about.
CheckMonotonicObservations(msgs) ==
    {i \in DOMAIN msgs :
        LET b == msgs[i].body IN
        /\ Advances(msgs[i])
        /\ Regresses(b.version, Seen(msgs, b.replica, b.key)[i - 1])}

=============================================================================
