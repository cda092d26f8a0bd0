--------------------------- MODULE ReplayReports ----------------------------
(***************************************************************************)
(* The replay engine against the reports about it: what the engine judged  *)
(* by replaying, ProofGenerator works out again from the rows or from the  *)
(* log alone.                                                              *)
(***************************************************************************)
EXTENDS ReplayService, ProofGenerator

\* The engine (IsConvergedFor over healthy replicas) and the proof (its own
\* comparison over replicas that are not isolated) agree on what converged
\* means: a proof built right after the verdict has no "missing" line.
ProofAgrees ==
    [][\A s \in Scenario :
          status[s] # "converged" /\ status'[s] = "converged" =>
             MissingLines(replicas', source', rkv') = {}]_vars

\* The static audit of a log is the engine's judgement of it: of a replica that
\* took any message, the updates and invalidations with a positive version that
\* the engine refused are those the audit complains about.  (On a log that is
\* replayed once, over rows that no other scenario has written.  The audit knows
\* nothing of versions that are not positive, which the engine treats apart.)
AuditAgrees ==
    \A s \in Scenario : status[s] \in Settled =>
       \A i \in DOMAIN log[s] :
          LET b == log[s][i].body IN
          /\ Advances(log[s][i]) /\ b.version > 0
          /\ \E j \in DOMAIN log[s] :
                log[s][j].body.replica = b.replica /\ Delivered(s, j)
          => (i \in CheckMonotonicObservations(log[s])
                 <=> log[s][i].status = "rejected")

\* Of a set of messages of a log, those that move a row, and the acks that
\* confirm it.
Moves(msgs, those, r, k) ==
    {i \in those : Advances(msgs[i]) /\ Concerns(msgs[i], r, k)}

Confirms(msgs, those, r, k) ==
    {i \in those : msgs[i].body.kind = "ack" /\ Concerns(msgs[i], r, k)}

\* The row says what a set of messages says: it holds the highest version, and
\* it is valid if no invalidation has that version, and no ack comes after it.
TellsOf(msgs, those, r, k, row) ==
    LET moves == Moves(msgs, those, r, k)
        top   == {i \in moves : msgs[i].body.version = row.version}
    IN  /\ Absent(row) <=> moves = {}
        /\ ~Absent(row) => top # {}
        /\ \A i \in moves : msgs[i].body.version <= row.version
        /\ row.status = "valid" <=>
              /\ top # {}
              /\ \A i \in top : msgs[i].body.kind = "update"
              /\ \A i \in top, h \in Confirms(msgs, those, r, k) : h < i

\* What a replay leaves behind can be read off its log, although it goes there
\* statement by statement and time runs out for leases in between: each row
\* says what the delivered messages say.  (On a log that is replayed once, over
\* rows that no other scenario has written.)
RowsFollowLog ==
    \A s \in Scenario : status[s] \in Settled =>
       \A r \in Replica, k \in Key :
          TellsOf(log[s], {i \in DOMAIN log[s] : Delivered(s, i)}, r, k, rkv[r][k])

\* The report of a timeout compares versions and does not look at statuses, as
\* the engine does: built right after the verdict it names a replica that has
\* not converged, unless the only ones hold the source's version invalidated.
TimeoutIsExplained ==
    [][\A s \in Scenario :
          status[s] # "timeout" /\ status'[s] = "timeout" =>
             \/ Unconverged(replicas', source', rkv') # {}
             \/ \E p \in Reported(replicas') \X Committed(source') :
                   /\ rkv'[p[1]][p[2]].version = source'[p[2]]
                   /\ rkv'[p[1]][p[2]].status \in {"stale", "pending_invalidation"}]_vars

=============================================================================
