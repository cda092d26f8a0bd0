------------------------------ MODULE Topology ------------------------------
(***************************************************************************)
(* Keyspaces, their protocol parameters and replicas (internal/topology    *)
(* and internal/store/keyspace_store.go), as the requests that write them  *)
(* and the replays that read them see them.                                *)
(*                                                                         *)
(* An id is the nanosecond at which its request read the clock: any two    *)
(* requests may get the same one, and the primary key decides.  SQLite     *)
(* lets one transaction write at a time.  A statement of another waits for *)
(* it, but no longer than the busy timeout.                                *)
(*                                                                         *)
(* ReplayService takes one keyspace with parameters that are valid and     *)
(* replicas that stay; this module shows that it may.                      *)
(***************************************************************************)
EXTENDS Integers, FiniteSets

CONSTANTS Client,        \* goroutines serving requests
          KeyspaceId, ReplicaId,
          Proposal,      \* the protocol parameters clients send
          Millisecond,   \* one millisecond as a Duration
          Half,          \* half of the Durations there are: 2^63
          MaxChanges     \* bound: changes of the status of a replica

Ordering == {"", "logical", "sequential", "other"}
Params   == [retries : Int, ttl : Int, timeout : Int, ordering : Ordering]

ASSUME TopologyAssumption ==
    /\ Proposal \subseteq Params /\ MaxChanges \in Nat
    /\ Millisecond \in Nat \ {0} /\ Half \in Nat \ {0}

VARIABLES keyspaces,     \* the ids in table keyspaces
          params,        \* protocol_params, by keyspace
          replicas,      \* replicas: keyspace, status and lease_seq
          writing,       \* who holds the database's write lock in a transaction
          job            \* where the request of a client is, what it carries

VARIABLE changed         \* history: how often a replica's status was set

tables == <<keyspaces, params, replicas>>
vars   == <<tables, writing, job, changed>>

-----------------------------------------------------------------------------
(* Data *)

\* CreateKeyspace without parameters: the self check and the tests.
DefaultProtocol ==
    [retries |-> 3, ttl |-> 5000, timeout |-> 10000, ordering |-> "logical"]

WithOrdering(p) == IF p.ordering = "" THEN [p EXCEPT !.ordering = "logical"] ELSE p

\* Mutant of Valid: a lease may have no time to live.
ValidButTTL(p) ==
    p.retries \in 0 .. 100 /\ p.timeout > 0 /\ p.ordering \in {"logical", "sequential"}

\* validateProtocol.  There is no upper limit to a time to live: see Duration.
Valid(p) ==
    /\ p.retries \in 0 .. 100
    /\ p.ttl > 0
    /\ p.timeout > 0
    /\ p.ordering \in {"logical", "sequential"}

\* time.Duration(ms) * time.Millisecond, in the width that a Duration has.
Duration(ms) == ((ms * Millisecond + Half) % (2 * Half)) - Half
Fits(ms)     == ms * Millisecond < Half

\* The parameters of a request that pass validation, as they are stored.
Accepted == {p \in {WithOrdering(q) : q \in Proposal} \union {DefaultProtocol} : Valid(p)}

Status  == {"healthy", "isolated", "lagging", "converged"}
Replica == [ks : KeyspaceId, status : {"healthy", "isolated"}, seq : Nat]

Put(table, key, row) ==
    [x \in DOMAIN table \union {key} |-> IF x = key THEN row ELSE table[x]]

Members(ks) == {r \in DOMAIN replicas : replicas[r].ks = ks}

Idle == [at |-> "idle"]

Job == {Idle}
       \union [at : {"insertKeyspace", "insertProtocol", "commit", "upsert"},
               ks : KeyspaceId, params : Params]
       \union [at : {"insertReplica"}, ks : KeyspaceId, id : ReplicaId]
       \union [at : {"update"}, id : ReplicaId,
               status : {"healthy", "isolated"}, seq : Nat]
       \union [at : {"list"}, ks : KeyspaceId, params : Params]
       \union [at : {"replay"}, ks : KeyspaceId, params : Params,
               members : SUBSET ReplicaId]

\* What the tables and the requests hold; a row carries no other status than
\* the two that SetReplicaStatus lets through.
TypeOK ==
    /\ keyspaces \subseteq KeyspaceId
    /\ DOMAIN params \subseteq KeyspaceId
    /\ params \in [DOMAIN params -> Params]
    /\ DOMAIN replicas \subseteq ReplicaId
    /\ replicas \in [DOMAIN replicas -> Replica]
    /\ writing \subseteq Client
    /\ job \in [Client -> Job]
    /\ changed \in [ReplicaId -> Nat]

Init ==
    /\ keyspaces = {}
    /\ params = [ks \in {} |-> DefaultProtocol]
    /\ replicas = [r \in {} |-> Idle]
    /\ writing = {}
    /\ job = [c \in Client |-> Idle]
    /\ changed = [r \in ReplicaId |-> 0]

At(c, here) == job[c].at = here
Then(c, j) == job' = [job EXCEPT ![c] = j]

\* Mutant of Rollback: an early return leaves the transaction open.
LeaveOpen(c) == UNCHANGED writing

\* The deferred tx.Rollback of CreateKeyspace; nothing elsewhere.
Rollback(c) == writing' = writing \ {c}

\* A statement that writes waits for the transaction of another request.
CanWrite(c) == writing \subseteq {c}

-----------------------------------------------------------------------------
(* CreateKeyspace: two inserts in a transaction *)

CreateKeyspace(c, ks, p) ==
    /\ At(c, "idle")
    /\ Then(c, [at |-> "insertKeyspace", ks |-> ks, params |-> p])
    /\ UNCHANGED <<tables, writing, changed>>

\* Mutant of InsertKeyspace: each insert commits by itself.
InsertKeyspaceAtOnce(c) ==
    /\ At(c, "insertKeyspace")
    /\ job[c].ks \notin keyspaces
    /\ keyspaces' = keyspaces \union {job[c].ks}
    /\ Then(c, [job[c] EXCEPT !.at = "upsert"])
    /\ UNCHANGED <<params, replicas, writing, changed>>

\* From here to the commit the rows are the transaction's own.
InsertKeyspace(c) ==
    /\ At(c, "insertKeyspace")
    /\ CanWrite(c)
    /\ IF job[c].ks \in keyspaces
       THEN Then(c, Idle) /\ Rollback(c)
       ELSE /\ Then(c, [job[c] EXCEPT !.at = "insertProtocol"])
            /\ writing' = {c}
    /\ UNCHANGED <<tables, changed>>

InsertProtocol(c) ==
    /\ At(c, "insertProtocol")
    /\ Then(c, [job[c] EXCEPT !.at = "commit"])
    /\ UNCHANGED <<tables, writing, changed>>

Commit(c) ==
    /\ At(c, "commit")
    /\ keyspaces' = keyspaces \union {job[c].ks}
    /\ params' = Put(params, job[c].ks, job[c].params)
    /\ Then(c, Idle)
    /\ Rollback(c)
    /\ UNCHANGED <<replicas, changed>>

-----------------------------------------------------------------------------
(* UpdateProtocol, RegisterReplica: the keyspace is looked up first *)

UpdateProtocol(c, ks, p) ==
    /\ At(c, "idle")
    /\ ks \in keyspaces
    /\ Then(c, [at |-> "upsert", ks |-> ks, params |-> p])
    /\ UNCHANGED <<tables, writing, changed>>

UpsertProtocol(c) ==
    /\ At(c, "upsert")
    /\ CanWrite(c)
    /\ params' = Put(params, job[c].ks, job[c].params)
    /\ Then(c, Idle)
    /\ UNCHANGED <<keyspaces, replicas, writing, changed>>

RegisterReplica(c, ks, id) ==
    /\ At(c, "idle")
    /\ ks \in keyspaces
    /\ Then(c, [at |-> "insertReplica", ks |-> ks, id |-> id])
    /\ UNCHANGED <<tables, writing, changed>>

\* Mutant of Duplicate: the insert replaces the row of the same id.
NeverDuplicate(id) == FALSE

\* id TEXT PRIMARY KEY
Duplicate(id) == id \in DOMAIN replicas

CreateReplica(c) ==
    /\ At(c, "insertReplica")
    /\ CanWrite(c)
    /\ replicas' = IF Duplicate(job[c].id) THEN replicas
                   ELSE Put(replicas, job[c].id,
                            [ks |-> job[c].ks, status |-> "healthy", seq |-> 0])
    /\ Then(c, Idle)
    /\ UNCHANGED <<keyspaces, params, writing, changed>>

-----------------------------------------------------------------------------
(* SetReplicaStatus: the row is read, and written back with the next seq *)

\* Mutant of Settable: any status of a replica.
SettableAny(to) == TRUE

Settable(to) == to \in {"isolated", "healthy"}

SetReplicaStatus(c, id, to) ==
    /\ At(c, "idle")
    /\ id \in DOMAIN replicas /\ changed[id] < MaxChanges
    /\ Settable(to)
    /\ Then(c, [at |-> "update", id |-> id, status |-> to, seq |-> replicas[id].seq])
    /\ UNCHANGED <<tables, writing, changed>>

\* Mutant of NextSeq: incremented for the answer and again for the row.
NextSeqTwice(n) == n + 2

NextSeq(n) == n + 1

UpdateReplicaStatus(c) ==
    LET id == job[c].id IN
    /\ At(c, "update")
    /\ CanWrite(c)
    /\ replicas' = [replicas EXCEPT ![id] =
          [ks |-> @.ks, status |-> job[c].status, seq |-> NextSeq(job[c].seq)]]
    /\ changed' = [changed EXCEPT ![id] = @ + 1]
    /\ Then(c, Idle)
    /\ UNCHANGED <<keyspaces, params, writing>>

-----------------------------------------------------------------------------
(* What a replay reads of this at its start and works with to its end *)

GetProtocol(c, ks) ==
    /\ At(c, "idle")
    /\ ks \in keyspaces /\ ks \in DOMAIN params
    /\ Then(c, [at |-> "list", ks |-> ks, params |-> params[ks]])
    /\ UNCHANGED <<tables, writing, changed>>

ListReplicas(c) ==
    /\ At(c, "list")
    /\ Then(c, [at |-> "replay", ks |-> job[c].ks, params |-> job[c].params,
                members |-> Members(job[c].ks)])
    /\ UNCHANGED <<tables, writing, changed>>

ReplayEnds(c) ==
    /\ At(c, "replay")
    /\ Then(c, Idle)
    /\ UNCHANGED <<tables, writing, changed>>

-----------------------------------------------------------------------------
(* Failures *)

\* Mutant of Busy: a statement waits for the lock for as long as it takes.
NeverBusy(c) == FALSE

Waiting(c) ==
    /\ job[c].at \in {"insertKeyspace", "upsert", "insertReplica", "update"}
    /\ ~CanWrite(c)

\* busy_timeout(5000): the statement has waited long enough and fails.
Busy(c) ==
    /\ Waiting(c)
    /\ Then(c, Idle)
    /\ UNCHANGED <<tables, writing, changed>>

\* A statement fails for another reason and ends the request.
Fail(c) ==
    /\ ~At(c, "idle")
    /\ Then(c, Idle)
    /\ Rollback(c)
    /\ UNCHANGED <<tables, changed>>

\* The process dies; what was not committed is gone when it is started again.
Crash ==
    /\ job' = [c \in Client |-> Idle]
    /\ writing' = {}
    /\ UNCHANGED <<tables, changed>>

-----------------------------------------------------------------------------

Request(c) ==
    \/ \E ks \in KeyspaceId, p \in Accepted : CreateKeyspace(c, ks, p)
    \/ \E ks \in KeyspaceId, p \in Accepted : UpdateProtocol(c, ks, p)
    \/ \E ks \in KeyspaceId, id \in ReplicaId : RegisterReplica(c, ks, id)
    \/ \E id \in ReplicaId, to \in Status : SetReplicaStatus(c, id, to)
    \/ \E ks \in KeyspaceId : GetProtocol(c, ks)

Serve(c) ==
    \/ InsertKeyspace(c) \/ InsertProtocol(c) \/ Commit(c)
    \/ UpsertProtocol(c) \/ CreateReplica(c) \/ UpdateReplicaStatus(c)
    \/ ListReplicas(c) \/ ReplayEnds(c) \/ Busy(c)

Next ==
    \/ \E c \in Client : Request(c) \/ Serve(c) \/ Fail(c)
    \/ Crash

Spec == Init /\ [][Next]_vars

\* A request that was accepted goes on, or is told that the database is busy.
FairSpec == Spec /\ \A c \in Client : WF_vars(Serve(c))

-----------------------------------------------------------------------------
(* Properties *)

\* A keyspace is there with parameters that passed validation, or not at all,
\* whichever statement of its creation fails and whoever reads meanwhile; a
\* replica's keyspace is there.
KeyspacesComplete ==
    /\ DOMAIN params = keyspaces
    /\ \A ks \in keyspaces : Valid(params[ks])
    /\ \A r \in DOMAIN replicas : replicas[r].ks \in keyspaces

\* What ReplayService assumes of a replay: to its end, whatever is updated and
\* registered meanwhile, it works with parameters that passed validation, its
\* leases last if their time to live can be a Duration at all, and the replicas
\* it knows are still those of its keyspace.
ReplaysAreSound ==
    \A c \in Client : At(c, "replay") =>
       /\ job[c].params.ttl \in Nat \ {0} /\ job[c].params.retries \in Nat
       /\ Fits(job[c].params.ttl) => Duration(job[c].params.ttl) > 0
       /\ job[c].members \subseteq Members(job[c].ks)

\* The write lock is held by one request that is still to commit: no error in
\* the middle of a transaction leaves the service unable to write.
LockHeldByRequest ==
    /\ \A c \in writing : job[c].at \in {"insertProtocol", "commit"}
    /\ \A c, d \in writing : c = d

\* Overlapping changes of a status may share a number, but lease_seq never runs
\* ahead of the changes, and is 0 of a replica that was never touched only: one
\* that is or was isolated can be told from one just registered.
LeaseSeqWithinChanges ==
    \A r \in DOMAIN replicas :
       /\ replicas[r].seq <= changed[r]
       /\ replicas[r].seq = 0 <=> changed[r] = 0
       /\ replicas[r].status = "isolated" => replicas[r].seq > 0

\* The replicas of a keyspace, as ReplayService and its contract have them.
Topo(ks) == [r \in ReplicaId |->
                IF r \in Members(ks) THEN replicas[r].status ELSE "unregistered"]

Contract(ks) == INSTANCE ScenarioContract
                   WITH Scenario <- {}, Key <- {}, Replica <- ReplicaId,
                        status <- <<>>, messages <- <<>>, recorded <- <<>>,
                        source <- <<>>, observed <- [r \in ReplicaId |-> <<>>],
                        replicas <- Topo(ks)

\* To the replays of each keyspace, replicas register once, healthy, and change
\* their status afterwards; none is lost, reset or moved to another keyspace.
\* This is Contract(ks)!Spec of every ks, in the form TLC takes.
KeepsContract ==
    /\ \A ks \in KeyspaceId : Contract(ks)!Init
    /\ [][\A ks \in KeyspaceId :
             Contract(ks)!Next \/ Topo(ks)' = Topo(ks)]_vars

\* Every request is answered: none waits for ever for the database's lock.
EveryRequestAnswered ==
    \A c \in Client : ~At(c, "idle") ~> At(c, "idle")

=============================================================================
