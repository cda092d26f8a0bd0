-------------------------- MODULE ScenarioContract --------------------------
(***************************************************************************)
(* What the service promises a client who sends one request at a time,     *)
(* without the statements a request is made of: a scenario collects        *)
(* messages, is replayed, and gets a verdict that is true and, for two of  *)
(* the three verdicts, final; replicas move forward only, and only on the  *)
(* word of a message of a scenario that is being replayed.                 *)
(*                                                                         *)
(* ReplayService implements it with a single worker, through crashes and   *)
(* failed statements.  How often a message is handled, cursors, leases and *)
(* traces are not part of the promise.                                     *)
(***************************************************************************)
EXTENDS KeyVersions, Sequences

CONSTANTS Scenario, Replica, Key

VARIABLES status,    \* editing, replaying, or a verdict
          messages,  \* what clients have appended to a scenario
          observed,  \* the row of each replica and key
          replicas,
          source,
          recorded   \* whether violations are on record

vars == <<status, messages, observed, replicas, source, recorded>>

Final == {"converged", "violated"}

Init ==
    /\ status = [s \in Scenario |-> "editing"]
    /\ messages = [s \in Scenario |-> <<>>]
    /\ observed = [r \in Replica |-> [k \in Key |-> NoRow]]
    /\ replicas = [r \in Replica |-> "unregistered"]
    /\ source = [k \in Key |-> 0]
    /\ recorded = [s \in Scenario |-> FALSE]

\* One message is added at the end, under an id of its own, while the scenario
\* is edited.
AddMessage(s) ==
    LET new == messages'[s][Len(messages'[s])] IN
    /\ status[s] = "editing"
    /\ messages'[s] # <<>>
    /\ messages' = [messages EXCEPT ![s] = Append(@, new)]
    /\ \A i \in DOMAIN messages[s] : messages[s][i].id # new.id
    /\ UNCHANGED <<status, observed, replicas, source, recorded>>

Start(s) ==
    /\ status[s] \notin Final
    /\ status' = [status EXCEPT ![s] = "replaying"]
    /\ UNCHANGED <<messages, observed, replicas, source, recorded>>

\* A message that lets a replica go from one row to another.
Allows(m, r, k, old, new) ==
    /\ m.replica = r /\ m.key = k
    /\ \/ /\ m.kind \in {"invalidate", "update"}
          /\ new.version = m.version
          /\ ~Absent(new) /\ (Absent(old) \/ new.version >= old.version)
       \/ m.kind = "ack" /\ ~Absent(old) /\ new = Confirmed(old)

Learn(r, k) ==
    LET new == observed'[r][k] IN
    /\ replicas[r] # "unregistered"
    /\ \E s \in Scenario : status[s] = "replaying" /\
          \E i \in DOMAIN messages[s] :
             Allows(messages[s][i].body, r, k, observed[r][k], new)
    /\ observed' = [observed EXCEPT ![r][k] = new]
    /\ UNCHANGED <<status, messages, replicas, source, recorded>>

RecordViolation(s) ==
    /\ status[s] = "replaying"
    /\ recorded' = [recorded EXCEPT ![s] = TRUE]
    /\ UNCHANGED <<status, messages, observed, replicas, source>>

Converged ==
    \A r \in Replica, k \in Key :
       replicas[r] = "healthy" /\ source[k] > 0
       => ConvergedFor(observed[r][k], source[k])

Verdict(s, v) ==
    /\ status[s] = "replaying"
    /\ v = "converged" => Converged
    /\ v = "violated"  => recorded[s]
    /\ status' = [status EXCEPT ![s] = v]
    /\ UNCHANGED <<messages, observed, replicas, source, recorded>>

Register(r) ==
    /\ replicas[r] = "unregistered"
    /\ replicas' = [replicas EXCEPT ![r] = "healthy"]
    /\ UNCHANGED <<status, messages, observed, source, recorded>>

SetStatus(r, to) ==
    /\ replicas[r] # "unregistered"
    /\ replicas' = [replicas EXCEPT ![r] = to]
    /\ UNCHANGED <<status, messages, observed, source, recorded>>

Commit(k) ==
    /\ source'[k] > source[k]
    /\ source' = [source EXCEPT ![k] = source'[k]]
    /\ UNCHANGED <<status, messages, observed, replicas, recorded>>

Next ==
    \/ \E s \in Scenario : AddMessage(s) \/ Start(s) \/ RecordViolation(s)
    \/ \E s \in Scenario, v \in {"converged", "violated", "timeout"} :
          Verdict(s, v)
    \/ \E r \in Replica : Register(r)
    \/ \E r \in Replica, to \in {"healthy", "isolated"} : SetStatus(r, to)
    \/ \E r \in Replica, k \in Key : Learn(r, k)
    \/ \E k \in Key : Commit(k)

Spec == Init /\ [][Next]_vars

=============================================================================
