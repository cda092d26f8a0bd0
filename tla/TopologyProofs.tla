--------------------------- MODULE TopologyProofs ---------------------------
(***************************************************************************)
(* Topology for any clients, keyspaces, replicas and proposed parameters:  *)
(* what the tables hold, what a replay works with, and that every keyspace *)
(* keeps to the contract that replays rely on.                             *)
(***************************************************************************)
EXTENDS Topology, TLAPS

\* What a request carries from one statement to the next is still so.
Carries(c) ==
    /\ job[c].at \in {"insertKeyspace", "insertProtocol", "commit", "upsert",
                      "list", "replay"}
       => Valid(job[c].params)
    /\ job[c].at \in {"upsert", "insertReplica", "list", "replay"}
       => job[c].ks \in keyspaces
    /\ job[c].at = "update"
       => job[c].id \in DOMAIN replicas /\ job[c].seq <= changed[job[c].id]
    /\ job[c].at = "replay" => job[c].members \subseteq Members(job[c].ks)

\* Exactly one request is in a transaction while the write lock is held.
Transacts ==
    /\ \A c \in Client :
          c \in writing <=> job[c].at \in {"insertProtocol", "commit"}
    /\ \A c, d \in writing : c = d

\* A replica without a row was never changed.
Untouched == \A r \in ReplicaId \ DOMAIN replicas : changed[r] = 0

TopoInv ==
    /\ TypeOK
    /\ KeyspacesComplete
    /\ LeaseSeqWithinChanges
    /\ Untouched
    /\ Transacts
    /\ \A c \in Client : Carries(c)

LEMMA AcceptedParams ==
    ASSUME NEW p \in Accepted
    PROVE  p \in Params /\ Valid(p)
<1>1. DefaultProtocol \in Params
  BY DEF DefaultProtocol, Params, Ordering
<1>2. ASSUME NEW q \in Proposal
      PROVE  WithOrdering(q) \in Params
  BY <1>2, TopologyAssumption DEF WithOrdering, Params, Ordering
<1> QED BY <1>1, <1>2 DEF Accepted

LEMMA PutTyped ==
    ASSUME NEW table, NEW key, NEW S, NEW row \in S, table \in [DOMAIN table -> S]
    PROVE  Put(table, key, row) \in [DOMAIN table \union {key} -> S]
BY DEF Put

LEMMA InitTopo == Init => TopoInv
<1> SUFFICES ASSUME Init PROVE TopoInv
  OBVIOUS
<1>1. DOMAIN params = {} /\ DOMAIN replicas = {}
  BY DEF Init
<1>2. TypeOK
  BY <1>1 DEF Init, TypeOK, Job
<1>3. KeyspacesComplete /\ LeaseSeqWithinChanges /\ Untouched
  BY <1>1 DEF Init, KeyspacesComplete, LeaseSeqWithinChanges, Untouched
<1>4. Transacts /\ \A c \in Client : Carries(c)
  BY DEF Init, Transacts, Carries, Idle
<1> QED BY <1>2, <1>3, <1>4 DEF TopoInv

-----------------------------------------------------------------------------
(* One lemma for each way a step can disturb the invariant. *)

\* A step that only moves one request on.
LEMMA MoveOn ==
    ASSUME TopoInv, UNCHANGED <<tables, changed>>,
           NEW c \in Client, NEW j \in Job, Then(c, j), Carries(c)', Transacts',
           writing' \subseteq Client
    PROVE  TopoInv'
<1> USE DEF TopoInv, tables
<1>1. job' = [job EXCEPT ![c] = j] /\ job' \in [Client -> Job]
  BY DEF Then, TypeOK
<1>2. TypeOK'
  BY <1>1 DEF TypeOK
<1>3. KeyspacesComplete' /\ LeaseSeqWithinChanges' /\ Untouched'
  BY DEF KeyspacesComplete, LeaseSeqWithinChanges, Untouched
<1>4. ASSUME NEW d \in Client
      PROVE  Carries(d)'
  <2>1. CASE d = c
    BY <2>1
  <2>2. CASE d # c
    BY <1>1, <2>2 DEF Carries, Members, TypeOK
  <2> QED BY <2>1, <2>2
<1> QED BY <1>2, <1>3, <1>4

LEMMA Starts ==
    ASSUME TopoInv, NEW c \in Client, Request(c)
    PROVE  TopoInv'
<1> USE DEF TopoInv
<1>1. c \notin writing
  BY DEF Request, CreateKeyspace, UpdateProtocol, RegisterReplica,
     SetReplicaStatus, GetProtocol, At, Transacts
<1>2. ASSUME NEW j \in Job, Then(c, j), UNCHANGED writing,
             j.at \notin {"insertProtocol", "commit"}
      PROVE  Transacts' /\ writing' \subseteq Client
  BY <1>1, <1>2 DEF Then, Transacts, TypeOK
<1>3. ASSUME NEW ks \in KeyspaceId, NEW p \in Accepted,
             CreateKeyspace(c, ks, p) \/ UpdateProtocol(c, ks, p)
      PROVE  TopoInv'
  <2>1. PICK at \in {"insertKeyspace", "upsert"} :
           /\ Then(c, [at |-> at, ks |-> ks, params |-> p])
           /\ at = "upsert" => ks \in keyspaces
           /\ UNCHANGED <<tables, writing, changed>>
    BY <1>3 DEF CreateKeyspace, UpdateProtocol
  <2> DEFINE j == [at |-> at, ks |-> ks, params |-> p]
  <2>2. j \in Job /\ Valid(p)
    BY AcceptedParams DEF Job
  <2>3. Carries(c)'
    BY <2>1, <2>2 DEF Then, Carries, TypeOK, tables
  <2> QED BY <1>2, <2>1, <2>2, <2>3, MoveOn
<1>4. ASSUME NEW ks \in KeyspaceId, NEW id \in ReplicaId, RegisterReplica(c, ks, id)
      PROVE  TopoInv'
  <2> DEFINE j == [at |-> "insertReplica", ks |-> ks, id |-> id]
  <2>1. j \in Job
    BY DEF Job
  <2>2. Carries(c)'
    BY <1>4 DEF RegisterReplica, Then, Carries, TypeOK, tables
  <2> QED BY <1>2, <1>4, <2>1, <2>2, MoveOn DEF RegisterReplica
<1>5. ASSUME NEW id \in ReplicaId, NEW to \in Status, SetReplicaStatus(c, id, to)
      PROVE  TopoInv'
  <2> DEFINE j == [at |-> "update", id |-> id, status |-> to, seq |-> replicas[id].seq]
  <2>1. replicas[id] \in Replica /\ to \in {"healthy", "isolated"}
    BY <1>5 DEF SetReplicaStatus, Settable, TypeOK
  <2>2. j \in Job
    BY <2>1 DEF Job, Replica
  <2>3. Carries(c)'
    BY <1>5 DEF SetReplicaStatus, Then, Carries, TypeOK, tables, LeaseSeqWithinChanges
  <2> QED BY <1>2, <1>5, <2>2, <2>3, MoveOn DEF SetReplicaStatus
<1>6. ASSUME NEW ks \in KeyspaceId, GetProtocol(c, ks)
      PROVE  TopoInv'
  <2> DEFINE j == [at |-> "list", ks |-> ks, params |-> params[ks]]
  <2>1. params[ks] \in Params /\ Valid(params[ks])
    BY <1>6 DEF GetProtocol, TypeOK, KeyspacesComplete
  <2>2. j \in Job
    BY <2>1 DEF Job
  <2>3. Carries(c)'
    BY <1>6, <2>1 DEF GetProtocol, Then, Carries, TypeOK, tables
  <2> QED BY <1>2, <1>6, <2>2, <2>3, MoveOn DEF GetProtocol
<1> QED BY <1>3, <1>4, <1>5, <1>6 DEF Request

\* Requests that return, and the steps inside a transaction before its end.
LEMMA Moves ==
    ASSUME TopoInv, NEW c \in Client,
           \/ InsertKeyspace(c) \/ InsertProtocol(c) \/ ListReplicas(c)
           \/ ReplayEnds(c) \/ Busy(c) \/ Fail(c)
    PROVE  TopoInv'
<1> USE DEF TopoInv
<1>1. Idle \in Job /\ Idle.at = "idle"
  BY DEF Job, Idle
<1>2. job[c] \in Job
  BY DEF TypeOK
<1>3. ASSUME Then(c, Idle)
      PROVE  Carries(c)'
  BY <1>1, <1>3 DEF Then, Carries, TypeOK
<1>4. CASE InsertKeyspace(c)
  <2>1. CASE job[c].ks \in keyspaces
    <3>1. Transacts' /\ writing' \subseteq Client
      BY <1>1, <1>4, <2>1 DEF InsertKeyspace, Then, Rollback, Transacts, TypeOK
    <3> QED BY <1>1, <1>3, <1>4, <2>1, <3>1, MoveOn DEF InsertKeyspace
  <2>2. CASE job[c].ks \notin keyspaces
    <3> DEFINE j == [job[c] EXCEPT !.at = "insertProtocol"]
    <3>1. j \in Job /\ j.at = "insertProtocol" /\ j.params = job[c].params /\ j.ks = job[c].ks
      BY <1>2, <1>4 DEF InsertKeyspace, At, Job, Idle
    <3> HIDE DEF j
    <3>2. Then(c, j)
      BY <1>4, <2>2 DEF InsertKeyspace, j
    <3>3. Carries(c)'
      BY <1>4, <3>1, <3>2 DEF InsertKeyspace, At, Then, Carries, TypeOK
    <3>4. writing = {} /\ writing' = {c}
      BY <1>4, <2>2 DEF InsertKeyspace, At, CanWrite, Transacts
    <3>5. Transacts' /\ writing' \subseteq Client
      BY <3>1, <3>2, <3>4 DEF Then, Transacts, TypeOK
    <3> QED BY <1>4, <3>1, <3>2, <3>3, <3>5, MoveOn DEF InsertKeyspace
  <2> QED BY <2>1, <2>2
<1>5. CASE InsertProtocol(c)
  <2> DEFINE j == [job[c] EXCEPT !.at = "commit"]
  <2>1. j \in Job /\ j.at = "commit" /\ j.params = job[c].params /\ j.ks = job[c].ks
    BY <1>2, <1>5 DEF InsertProtocol, At, Job, Idle
  <2> HIDE DEF j
  <2>2. Then(c, j)
    BY <1>5 DEF InsertProtocol, j
  <2>3. Carries(c)'
    BY <1>5, <2>1, <2>2 DEF InsertProtocol, At, Then, Carries, TypeOK
  <2>4. Transacts' /\ writing' \subseteq Client
    BY <1>5, <2>1, <2>2 DEF InsertProtocol, At, Then, Transacts, TypeOK
  <2> QED BY <1>5, <2>1, <2>2, <2>3, <2>4, MoveOn DEF InsertProtocol
<1>6. CASE ListReplicas(c)
  <2> DEFINE j == [at |-> "replay", ks |-> job[c].ks, params |-> job[c].params,
                   members |-> Members(job[c].ks)]
  <2>1. job[c].ks \in KeyspaceId /\ job[c].params \in Params
    BY <1>2, <1>6 DEF ListReplicas, At, Job, Idle
  <2>2. j \in Job
    BY <2>1 DEF Job, Members, TypeOK
  <2>3. Carries(c)'
    BY <1>6 DEF ListReplicas, At, Then, Carries, TypeOK, tables, Members
  <2>4. Transacts' /\ writing' \subseteq Client
    BY <1>6 DEF ListReplicas, At, Then, Transacts, TypeOK
  <2> QED BY <1>6, <2>2, <2>3, <2>4, MoveOn DEF ListReplicas
<1>7. CASE ReplayEnds(c) \/ Busy(c)
  <2>1. Transacts' /\ writing' \subseteq Client
    BY <1>1, <1>7 DEF ReplayEnds, Busy, Waiting, At, Then, Transacts, TypeOK
  <2> QED BY <1>1, <1>3, <1>7, <2>1, MoveOn DEF ReplayEnds, Busy
<1>8. CASE Fail(c)
  <2>1. Transacts' /\ writing' \subseteq Client
    BY <1>1, <1>8 DEF Fail, Rollback, Then, Transacts, TypeOK
  <2> QED BY <1>1, <1>3, <1>8, <2>1, MoveOn DEF Fail
<1> QED BY <1>4, <1>5, <1>6, <1>7, <1>8

\* The parameters of a keyspace are written, with the keyspace or to it.
LEMMA WritesParams ==
    ASSUME TopoInv, NEW c \in Client, Commit(c) \/ UpsertProtocol(c)
    PROVE  TopoInv'
<1> USE DEF TopoInv
<1> DEFINE ks == job[c].ks
<1>1. job[c] \in Job /\ job[c].at \in {"commit", "upsert"}
  BY DEF TypeOK, Commit, UpsertProtocol, At
<1>2. ks \in KeyspaceId /\ job[c].params \in Params /\ Valid(job[c].params)
  BY <1>1 DEF Job, Idle, Carries
<1>3. /\ keyspaces' = keyspaces \union {ks}
      /\ params' = Put(params, ks, job[c].params)
      /\ job' = [job EXCEPT ![c] = Idle]
      /\ UNCHANGED <<replicas, changed>>
  BY DEF Commit, UpsertProtocol, At, Then, Carries
<1>4. writing' \subseteq Client /\ Transacts'
  BY DEF Commit, UpsertProtocol, At, Then, Rollback, CanWrite, Transacts, TypeOK, Idle
<1>5. /\ DOMAIN params' = DOMAIN params \union {ks}
      /\ params' \in [DOMAIN params' -> Params]
      /\ \A x \in DOMAIN params' :
            params'[x] = IF x = ks THEN job[c].params ELSE params[x]
  <2>1. params \in [DOMAIN params -> Params]
    BY DEF TypeOK
  <2>2. params' \in [DOMAIN params \union {ks} -> Params]
    BY <1>2, <1>3, <2>1, PutTyped
  <2>3. DOMAIN params' = DOMAIN params \union {ks}
    BY <2>2
  <2>4. \A x \in DOMAIN params' :
           params'[x] = IF x = ks THEN job[c].params ELSE params[x]
    BY <1>3, <2>3 DEF Put
  <2> QED BY <2>2, <2>3, <2>4
<1>6. TypeOK'
  BY <1>2, <1>3, <1>4, <1>5 DEF TypeOK, Job
<1>7. KeyspacesComplete'
  BY <1>2, <1>3, <1>5 DEF KeyspacesComplete
<1>8. LeaseSeqWithinChanges' /\ Untouched'
  BY <1>3 DEF LeaseSeqWithinChanges, Untouched
<1>9. ASSUME NEW d \in Client
      PROVE  Carries(d)'
  BY <1>3 DEF Carries, Members, TypeOK, Idle
<1> QED BY <1>4, <1>6, <1>7, <1>8, <1>9

LEMMA WritesReplica ==
    ASSUME TopoInv, NEW c \in Client, CreateReplica(c) \/ UpdateReplicaStatus(c)
    PROVE  TopoInv'
<1> USE DEF TopoInv
<1> DEFINE id == job[c].id
<1>1. job[c] \in Job /\ job[c].at \in {"insertReplica", "update"}
  BY DEF TypeOK, CreateReplica, UpdateReplicaStatus, At
<1>2. id \in ReplicaId
  BY <1>1 DEF Job, Idle
<1>3. job' = [job EXCEPT ![c] = Idle] /\ UNCHANGED <<keyspaces, params, writing>>
  BY DEF CreateReplica, UpdateReplicaStatus, Then
<1>4. Transacts'
  BY <1>1, <1>3 DEF Transacts, TypeOK, Idle
\* What both do to the replicas: no row goes or changes its keyspace, and no
\* count of changes falls.
<1> DEFINE Grows ==
             /\ DOMAIN replicas' \subseteq ReplicaId
             /\ replicas' \in [DOMAIN replicas' -> Replica]
             /\ \A r \in DOMAIN replicas :
                   r \in DOMAIN replicas' /\ replicas'[r].ks = replicas[r].ks
             /\ changed' \in [ReplicaId -> Nat]
             /\ \A r \in ReplicaId : changed'[r] >= changed[r]
             /\ \A r \in DOMAIN replicas' : replicas'[r].ks \in keyspaces
             /\ LeaseSeqWithinChanges' /\ Untouched'
<1>5. ASSUME CreateReplica(c), Duplicate(id)
      PROVE  Grows
  <2>1. replicas' = replicas /\ changed' = changed
    BY <1>5 DEF CreateReplica
  <2>2. LeaseSeqWithinChanges' /\ Untouched'
    BY <2>1 DEF LeaseSeqWithinChanges, Untouched
  <2>3. \A r \in ReplicaId : changed'[r] >= changed[r]
    BY <2>1 DEF TypeOK
  <2> QED BY <2>1, <2>2, <2>3 DEF TypeOK, KeyspacesComplete
<1>6. ASSUME CreateReplica(c), ~Duplicate(id)
      PROVE  Grows
  <2> DEFINE row == [ks |-> job[c].ks, status |-> "healthy", seq |-> 0]
  <2>1. row \in Replica /\ row.ks \in keyspaces
    BY <1>1, <1>6 DEF CreateReplica, At, Job, Idle, Replica, Carries
  <2>2. replicas' = Put(replicas, id, row) /\ changed' = changed
    BY <1>6 DEF CreateReplica
  <2>3. row.seq = 0 /\ row.status = "healthy"
    OBVIOUS
  <2> HIDE DEF row
  <2>4. /\ DOMAIN replicas' = DOMAIN replicas \union {id}
        /\ replicas' \in [DOMAIN replicas' -> Replica]
        /\ replicas'[id] = row
        /\ \A x \in DOMAIN replicas \ {id} : replicas'[x] = replicas[x]
    <3>1. replicas \in [DOMAIN replicas -> Replica]
      BY DEF TypeOK
    <3>2. replicas' \in [DOMAIN replicas \union {id} -> Replica]
      BY <2>1, <2>2, <3>1, PutTyped
    <3>3. DOMAIN replicas' = DOMAIN replicas \union {id}
      BY <3>2
    <3>4. \A x \in DOMAIN replicas' :
             replicas'[x] = IF x = id THEN row ELSE replicas[x]
      BY <2>2, <3>3 DEF Put
    <3> QED BY <3>2, <3>3, <3>4
  <2>5. id \notin DOMAIN replicas /\ changed[id] = 0
    BY <1>2, <1>6 DEF Duplicate, Untouched
  <2>6. LeaseSeqWithinChanges'
    BY <2>2, <2>3, <2>4, <2>5 DEF LeaseSeqWithinChanges
  <2>7. Untouched'
    BY <2>2, <2>4 DEF Untouched
  <2>8. \A r \in ReplicaId : changed'[r] >= changed[r]
    BY <2>2 DEF TypeOK
  <2>9. \A r \in DOMAIN replicas' : replicas'[r].ks \in keyspaces
    BY <2>1, <2>4, <2>5 DEF KeyspacesComplete
  <2>10. \A r \in DOMAIN replicas :
            r \in DOMAIN replicas' /\ replicas'[r].ks = replicas[r].ks
    BY <2>4, <2>5
  <2>11. DOMAIN replicas' \subseteq ReplicaId /\ changed' \in [ReplicaId -> Nat]
    BY <1>2, <2>2, <2>4 DEF TypeOK
  <2> QED BY <2>4, <2>6, <2>7, <2>8, <2>9, <2>10, <2>11
<1>7. ASSUME UpdateReplicaStatus(c)
      PROVE  Grows
  <2>1. id \in DOMAIN replicas /\ replicas[id] \in Replica
    BY <1>7 DEF UpdateReplicaStatus, At, Carries, TypeOK
  <2>2. job[c].seq \in Nat /\ job[c].status \in {"healthy", "isolated"} /\ job[c].seq <= changed[id]
    BY <1>1, <1>7 DEF UpdateReplicaStatus, At, Job, Idle, Carries
  <2> DEFINE row == [ks |-> replicas[id].ks, status |-> job[c].status,
                     seq |-> job[c].seq + 1]
  <2>3. row \in Replica /\ row.ks = replicas[id].ks /\ row.seq = job[c].seq + 1
    BY <2>1, <2>2 DEF Replica
  <2>4. replicas' = [replicas EXCEPT ![id] = row]
    BY <1>7, <2>1 DEF UpdateReplicaStatus, NextSeq
  <2> HIDE DEF row
  <2>5. changed' = [changed EXCEPT ![id] = @ + 1]
    BY <1>7 DEF UpdateReplicaStatus
  <2>6. /\ DOMAIN replicas' = DOMAIN replicas
        /\ replicas' \in [DOMAIN replicas' -> Replica]
        /\ \A r \in DOMAIN replicas : replicas'[r] = IF r = id THEN row ELSE replicas[r]
    BY <2>1, <2>3, <2>4 DEF TypeOK
  <2>7. /\ changed' \in [ReplicaId -> Nat]
        /\ \A r \in ReplicaId : changed'[r] = IF r = id THEN changed[r] + 1 ELSE changed[r]
    BY <1>2, <2>5 DEF TypeOK
  <2>8. LeaseSeqWithinChanges'
    <3> SUFFICES ASSUME NEW r \in DOMAIN replicas'
                 PROVE  /\ replicas'[r].seq <= changed'[r]
                        /\ replicas'[r].seq = 0 <=> changed'[r] = 0
                        /\ replicas'[r].status = "isolated" => replicas'[r].seq > 0
      BY DEF LeaseSeqWithinChanges
    <3>1. r \in DOMAIN replicas /\ r \in ReplicaId /\ changed[r] \in Nat
      BY <2>6 DEF TypeOK
    <3>2. CASE r = id
      BY <2>2, <2>3, <2>6, <2>7, <3>1, <3>2
    <3>3. CASE r # id
      BY <2>6, <2>7, <3>1, <3>3 DEF LeaseSeqWithinChanges
    <3> QED BY <3>2, <3>3
  <2>9. Untouched'
    BY <2>1, <2>6, <2>7 DEF Untouched
  <2>10. \A r \in ReplicaId : changed'[r] >= changed[r]
    BY <2>7 DEF TypeOK
  <2>11. \A r \in DOMAIN replicas' : replicas'[r].ks \in keyspaces
    BY <2>3, <2>6, <2>1 DEF KeyspacesComplete
  <2>12. \A r \in DOMAIN replicas :
            r \in DOMAIN replicas' /\ replicas'[r].ks = replicas[r].ks
    BY <2>3, <2>6
  <2> QED BY <2>6, <2>7, <2>8, <2>9, <2>10, <2>11, <2>12 DEF TypeOK
<1>8. Grows
  BY <1>5, <1>6, <1>7
<1>9. TypeOK'
  BY <1>3, <1>8 DEF TypeOK, Job
<1>10. KeyspacesComplete'
  BY <1>3, <1>8 DEF KeyspacesComplete
<1>11. ASSUME NEW d \in Client
       PROVE  Carries(d)'
  <2>1. CASE d = c
    BY <1>3, <2>1 DEF Carries, TypeOK, Idle
  <2>2. CASE d # c
    <3>1. job'[d] = job[d] /\ job[d] \in Job
      BY <1>3, <2>2 DEF TypeOK
    <3>2. job[d].at = "update" =>
             /\ job[d].id \in DOMAIN replicas' /\ job[d].seq <= changed'[job[d].id]
      <4> SUFFICES ASSUME job[d].at = "update"
                   PROVE  job[d].id \in DOMAIN replicas' /\ job[d].seq <= changed'[job[d].id]
        OBVIOUS
      <4>1. job[d].id \in ReplicaId /\ job[d].seq \in Nat
        BY <3>1 DEF Job, Idle
      <4>2. job[d].id \in DOMAIN replicas /\ job[d].seq <= changed[job[d].id]
        BY DEF Carries
      <4>3. changed[job[d].id] \in Nat /\ changed'[job[d].id] \in Nat
            /\ changed'[job[d].id] >= changed[job[d].id]
        BY <1>8, <4>1 DEF TypeOK
      <4> QED BY <1>8, <4>1, <4>2, <4>3
    <3>3. job[d].at = "replay" => job[d].members \subseteq Members(job[d].ks)'
      BY <1>8, <3>1 DEF Carries, Members
    <3> QED BY <1>3, <3>1, <3>2, <3>3 DEF Carries, Members
  <2> QED BY <2>1, <2>2
<1> QED BY <1>4, <1>8, <1>9, <1>10, <1>11

LEMMA TopoStep == TopoInv /\ [Next]_vars => TopoInv'
<1> SUFFICES ASSUME TopoInv, [Next]_vars PROVE TopoInv'
  OBVIOUS
<1>1. ASSUME NEW c \in Client, Request(c) \/ Serve(c) \/ Fail(c)
      PROVE  TopoInv'
  BY <1>1, Starts, Moves, WritesParams, WritesReplica DEF Serve
<1>2. CASE Crash
  <2>1. Idle \in Job /\ Idle.at = "idle"
    BY DEF Job, Idle
  <2>2. \A c \in Client : job'[c] = Idle
    BY <1>2 DEF Crash
  <2>3. TypeOK'
    BY <1>2, <2>1 DEF TopoInv, Crash, TypeOK, tables
  <2>4. KeyspacesComplete' /\ LeaseSeqWithinChanges' /\ Untouched'
    BY <1>2 DEF TopoInv, Crash, KeyspacesComplete, LeaseSeqWithinChanges, Untouched, tables
  <2>5. Transacts' /\ \A c \in Client : Carries(c)'
    BY <1>2, <2>1, <2>2 DEF Crash, Transacts, Carries
  <2> QED BY <2>3, <2>4, <2>5 DEF TopoInv
<1>3. CASE UNCHANGED vars
  BY <1>3 DEF vars, tables, TopoInv, TypeOK, KeyspacesComplete, Untouched,
     LeaseSeqWithinChanges, Transacts, Carries, Members
<1> QED BY <1>1, <1>2, <1>3 DEF Next

LEMMA TopoHolds == Spec => []TopoInv
BY InitTopo, TopoStep, PTL DEF Spec

\* What the tables and the requests hold has the type of it.
THEOREM TopologyTypeCorrect == Spec => []TypeOK
BY TopoHolds, PTL DEF TopoInv

\* No reader and no failure finds a keyspace without valid parameters.
THEOREM KeyspacesAlwaysComplete == Spec => []KeyspacesComplete
BY TopoHolds, PTL DEF TopoInv

\* A time to live that fits is a positive Duration.
LEMMA DurationOfFitting ==
    ASSUME NEW ms \in Nat \ {0}, Fits(ms)
    PROVE  Duration(ms) > 0
<1> DEFINE time == ms * Millisecond
<1>1. time \in Nat /\ time > 0 /\ time < Half
  BY TopologyAssumption DEF Fits
<1> HIDE DEF time
<1>2. ASSUME NEW a \in Nat, NEW b \in Nat, a < b
      PROVE  a % b = a
  BY <1>2
<1>3. (time + Half) % (2 * Half) = time + Half
  BY <1>1, <1>2, TopologyAssumption
<1> QED BY <1>1, <1>3, TopologyAssumption DEF Duration, time

\* The assumptions that ReplayService makes of the parameters and replicas of a
\* replay are met by every replay, whatever is updated while it runs.
THEOREM ReplaysAlwaysSound == Spec => []ReplaysAreSound
<1>1. TopoInv => ReplaysAreSound
  <2> SUFFICES ASSUME TopoInv, NEW c \in Client, At(c, "replay")
               PROVE  /\ job[c].params.ttl \in Nat \ {0}
                      /\ job[c].params.retries \in Nat
                      /\ Fits(job[c].params.ttl) => Duration(job[c].params.ttl) > 0
                      /\ job[c].members \subseteq Members(job[c].ks)
    BY DEF ReplaysAreSound
  <2>1. job[c] \in Job /\ Carries(c) /\ job[c].at = "replay"
    BY DEF TopoInv, TypeOK, At
  <2>2. job[c].params \in Params /\ Valid(job[c].params)
    BY <2>1 DEF Job, Idle, Carries
  <2>3. job[c].params.ttl \in Nat \ {0} /\ job[c].params.retries \in Nat
    BY <2>2 DEF Valid, Params
  <2>4. Fits(job[c].params.ttl) => Duration(job[c].params.ttl) > 0
    BY <2>3, DurationOfFitting
  <2> QED BY <2>1, <2>3, <2>4 DEF Carries
<1> QED BY <1>1, TopoHolds, PTL

\* However requests fail, the write lock is held by a request on its way to the
\* commit, and by one only.
THEOREM LockAlwaysHeldByRequest == Spec => []LockHeldByRequest
<1>1. TopoInv => LockHeldByRequest
  BY DEF TopoInv, Transacts, LockHeldByRequest, TypeOK
<1> QED BY <1>1, TopoHolds, PTL

\* lease_seq never runs ahead of the changes, whichever of them overlap.
THEOREM LeaseSeqAlwaysWithinChanges == Spec => []LeaseSeqWithinChanges
BY TopoHolds, PTL DEF TopoInv

-----------------------------------------------------------------------------
(* The contract, for every keyspace *)

LEMMA ContractStarts == Init => \A ks \in KeyspaceId : Contract(ks)!Init
<1> SUFFICES ASSUME Init, NEW ks \in KeyspaceId PROVE Contract(ks)!Init
  OBVIOUS
<1>1. Members(ks) = {}
  BY DEF Init, Members
<1>2. Topo(ks) = [r \in ReplicaId |-> "unregistered"]
  BY <1>1 DEF Topo
<1>3. \A f : [s \in {} |-> f] = <<>>
  OBVIOUS
<1> QED BY <1>2, <1>3 DEF Contract!Init

LEMMA ContractStep ==
    ASSUME TopoInv, [Next]_vars, NEW ks \in KeyspaceId
    PROVE  Contract(ks)!Next \/ Topo(ks)' = Topo(ks)
<1> USE DEF TopoInv
<1>1. ASSUME NEW c \in Client, CreateReplica(c), ~Duplicate(job[c].id), job[c].ks = ks
      PROVE  Contract(ks)!Next
  <2> DEFINE id == job[c].id
             row == [ks |-> ks, status |-> "healthy", seq |-> 0]
  <2>1. id \in ReplicaId /\ id \notin DOMAIN replicas
    BY <1>1 DEF CreateReplica, At, TypeOK, Job, Idle, Duplicate
  <2>2. replicas' = Put(replicas, id, row)
    BY <1>1 DEF CreateReplica
  <2>3. DOMAIN replicas' = DOMAIN replicas \union {id}
    BY <2>2 DEF Put
  <2>4. \A x \in DOMAIN replicas' : replicas'[x] = IF x = id THEN row ELSE replicas[x]
    BY <2>2, <2>3 DEF Put
  <2>5. Members(ks)' = Members(ks) \union {id}
    BY <2>1, <2>3, <2>4 DEF Members
  <2>6. Topo(ks)[id] = "unregistered"
    BY <2>1 DEF Topo, Members
  <2>7. Topo(ks)' = [Topo(ks) EXCEPT ![id] = "healthy"]
    <3>1. ASSUME NEW r \in ReplicaId
          PROVE  Topo(ks)'[r] = IF r = id THEN "healthy" ELSE Topo(ks)[r]
      <4>1. CASE r = id
        <5>1. replicas'[id].status = "healthy"
          BY <2>3, <2>4
        <5> QED BY <2>5, <4>1, <5>1 DEF Topo
      <4>2. CASE r # id
        BY <2>4, <2>5, <4>2 DEF Topo, Members
      <4> QED BY <4>1, <4>2
    <3> QED BY <2>1, <3>1 DEF Topo
  <2> QED BY <2>1, <2>6, <2>7 DEF Contract!Next, Contract!Register
<1>2. ASSUME NEW c \in Client, CreateReplica(c),
             Duplicate(job[c].id) \/ job[c].ks # ks
      PROVE  Topo(ks)' = Topo(ks)
  <2>1. CASE Duplicate(job[c].id)
    BY <1>2, <2>1 DEF CreateReplica, Topo, Members
  <2>2. CASE ~Duplicate(job[c].id)
    <3> DEFINE id == job[c].id
               row == [ks |-> job[c].ks, status |-> "healthy", seq |-> 0]
    <3>1. replicas' = Put(replicas, id, row) /\ id \notin DOMAIN replicas
      BY <1>2, <2>2 DEF CreateReplica, Duplicate
    <3>2. DOMAIN replicas' = DOMAIN replicas \union {id}
      BY <3>1 DEF Put
    <3>3. \A x \in DOMAIN replicas' : replicas'[x] = IF x = id THEN row ELSE replicas[x]
      BY <3>1, <3>2 DEF Put
    <3>4. Members(ks)' = Members(ks) /\ id \notin Members(ks)
      BY <1>2, <2>2, <3>1, <3>2, <3>3 DEF Members
    <3> QED BY <3>2, <3>3, <3>4 DEF Topo, Members
  <2> QED BY <2>1, <2>2
<1>3. ASSUME NEW c \in Client, UpdateReplicaStatus(c)
      PROVE  Contract(ks)!Next \/ Topo(ks)' = Topo(ks)
  <2> DEFINE id == job[c].id
  <2>1. /\ id \in ReplicaId /\ id \in DOMAIN replicas
        /\ job[c].status \in {"healthy", "isolated"}
    BY <1>3 DEF UpdateReplicaStatus, At, TypeOK, Job, Idle, Carries
  <2>2. /\ DOMAIN replicas' = DOMAIN replicas
        /\ replicas'[id].ks = replicas[id].ks
        /\ replicas'[id].status = job[c].status
        /\ \A x \in DOMAIN replicas : x # id => replicas'[x] = replicas[x]
    BY <1>3, <2>1 DEF UpdateReplicaStatus
  <2>3. Members(ks)' = Members(ks)
    BY <2>2 DEF Members
  <2>4. CASE id \in Members(ks)
    <3>1. Topo(ks)[id] # "unregistered"
      BY <2>1, <2>4 DEF Topo, TypeOK, Replica
    <3>2. Topo(ks)' = [Topo(ks) EXCEPT ![id] = job[c].status]
      BY <2>1, <2>2, <2>3, <2>4 DEF Topo, Members
    <3> QED BY <2>1, <3>1, <3>2 DEF Contract!Next, Contract!SetStatus
  <2>5. CASE id \notin Members(ks)
    BY <2>2, <2>3, <2>5 DEF Topo, Members
  <2> QED BY <2>4, <2>5
<1>4. ASSUME UNCHANGED replicas
      PROVE  Topo(ks)' = Topo(ks)
  BY <1>4 DEF Topo, Members
<1>5. ASSUME NEW c \in Client, Request(c) \/ Serve(c) \/ Fail(c),
             ~CreateReplica(c), ~UpdateReplicaStatus(c)
      PROVE  UNCHANGED replicas
  BY <1>5 DEF Request, CreateKeyspace, UpdateProtocol, RegisterReplica,
     SetReplicaStatus, GetProtocol, Serve, InsertKeyspace, InsertProtocol,
     Commit, UpsertProtocol, ListReplicas, ReplayEnds, Busy, Fail, tables
<1>6. CASE Crash \/ UNCHANGED vars
  BY <1>4, <1>6 DEF Crash, vars, tables
<1> QED BY <1>1, <1>2, <1>3, <1>4, <1>5, <1>6 DEF Next

\* Topology implements, for every keyspace, the part of the contract that is
\* about replicas: it starts as the contract does, and a step is one of the
\* contract's or none.
THEOREM TopologyKeepsContract == Spec => KeepsContract
<1>1. TopoInv /\ [Next]_vars =>
         [\A ks \in KeyspaceId :
             Contract(ks)!Next \/ Topo(ks)' = Topo(ks)]_vars
  BY ContractStep
<1> QED BY <1>1, ContractStarts, TopoHolds, PTL DEF Spec, KeepsContract

=============================================================================
