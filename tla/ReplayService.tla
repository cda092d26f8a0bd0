--------------------------- MODULE ReplayService ---------------------------
(***************************************************************************)
(* The part of the service that changes state under a scenario: appending  *)
(* messages (internal/service/scenario.go), committing source versions     *)
(* (internal/versioning), registering and isolating replicas               *)
(* (internal/topology), and above all the replay engine                    *)
(* (internal/replay/engine.go), which drives KeyVersions and Leases.       *)
(*                                                                         *)
(* A worker is the goroutine that serves one HTTP request.  The database   *)
(* executes one statement at a time and every statement is a step of its   *)
(* own; between two statements of one worker any other worker may run,     *)
(* because a replay takes no lock.  With Worker a singleton the model is   *)
(* the service as its tests drive it, one request after the other.         *)
(*                                                                         *)
(* One keyspace, whose protocol parameters do not change.                  *)
(***************************************************************************)
EXTENDS Leases, KeyVersions, Sequences, FiniteSets

CONSTANTS Worker,       \* goroutines serving requests
          Scenario,     \* scenarios, all created
          Replica,      \* replica ids, registered or not
          Key,
          MsgId,        \* msg_id, the idempotence key a client picks
          Content,      \* the messages clients send, with a retry_count
          SourceVersion \* the source versions they propose

CONSTANTS MaxLog,       \* bound: messages per scenario
          MaxTrace,     \* bound: a replay starts on a shorter trace only
          MaxCrashes,   \* bound: process crashes
          MaxFaults     \* bound: failed database statements

Kind    == {"lease", "invalidate", "update", "ack", "retry", "other"}
Body    == [kind : Kind, key : Key, version : Int, replica : Replica]

ASSUME ServiceAssumption ==
    /\ Scenario # {}
    /\ Content \subseteq [body : Body, retries : Int]
    /\ SourceVersion \subseteq Int
    /\ MaxLog \in Nat /\ MaxTrace \in Nat
    /\ MaxCrashes \in Nat /\ MaxFaults \in Nat

VARIABLES status, cursor,  \* scenarios: status and cursor_pos
          log,             \* messages of a scenario, by logical clock
          rkv,             \* replica_key_versions
          replicas,        \* replicas: status, or "unregistered"
          source,          \* source_versions: version, 0 when absent
          violations,      \* step_seq of the violations of a scenario
          trace            \* seq of its replay_events

VARIABLES leases           \* delivery.Manager, in memory

VARIABLES pc,              \* the next statement of a worker
          view,            \* what its replay has read
          pos,             \* the message it is at
          eff,             \* what the message does, not all of it done yet
          tally,           \* what the replay will base its verdict on
          draft,           \* the message an append is about to insert
          offer            \* the source version a commit is about to write

VARIABLES crashes, faults

db      == <<status, cursor, log, rkv, replicas, source, violations, trace>>
local   == <<pc, view, pos, eff, tally>>
request == <<draft, offer>>
budget  == <<crashes, faults>>
vars    == <<db, leases, local, request, budget>>

-----------------------------------------------------------------------------
(* Types *)

Status    == {"editing", "replaying", "converged", "violated", "timeout"}
Final     == {"converged", "violated"}
Settled   == Final \union {"timeout"}
MsgStatus == {"pending", "delivered", "duplicate", "expired", "rejected"}
Message   == [id : MsgId, body : Body, status : MsgStatus, retries : Int]
Topology  == [Replica -> {"unregistered", "healthy", "isolated"}]
Sources   == [Key -> Nat]

Refused(mark) == mark \in {"rejected", "expired"}

PC == {"idle", "insert", "commit", "begin", "list", "topology", "sources",
       "rebuild", "step", "release", "confirm", "write", "mark", "violate",
       "trace", "scan", "verdict"}

SomeScenario == CHOOSE s \in Scenario : TRUE

NoView  == [sc |-> SomeScenario, start |-> 0, log |-> <<>>,
            replicas |-> [r \in Replica |-> "unregistered"],
            sources |-> [k \in Key |-> 0]]
NoEff   == [row |-> NoRow, mark |-> "pending"]
NoTally == [viol |-> FALSE, todo |-> {}, unconv |-> {}]
NoDraft == [sc |-> SomeScenario, msg |-> <<>>]
NoOffer == <<>>

View   == [sc : Scenario, start : Nat, log : Seq(Message),
           replicas : Topology, sources : Sources]
Effect == [row : Row, mark : MsgStatus]
Tally  == [viol : BOOLEAN, todo : SUBSET (Replica \X Key),
           unconv : SUBSET Replica]
Draft  == [sc : Scenario, msg : {<<>>} \union Message]
Offer  == {<<>>} \union (Key \X Nat)

TypeOK ==
    /\ status \in [Scenario -> Status]
    /\ cursor \in [Scenario -> Nat]
    /\ log \in [Scenario -> Seq(Message)]
    /\ rkv \in [Replica -> [Key -> Row]]
    /\ replicas \in Topology
    /\ source \in Sources
    /\ violations \in [Scenario -> Seq(Nat)]
    /\ trace \in [Scenario -> Seq(Nat)]
    /\ leases \in [Replica -> [Key -> Lease]]
    /\ pc \in [Worker -> PC]
    /\ view \in [Worker -> View]
    /\ pos \in [Worker -> Nat]
    /\ eff \in [Worker -> Effect]
    /\ tally \in [Worker -> Tally]
    /\ draft \in [Worker -> Draft]
    /\ offer \in [Worker -> Offer]
    /\ crashes \in 0 .. MaxCrashes
    /\ faults \in 0 .. MaxFaults

Init ==
    /\ status = [s \in Scenario |-> "editing"]
    /\ cursor = [s \in Scenario |-> 0]
    /\ log = [s \in Scenario |-> <<>>]
    /\ rkv = [r \in Replica |-> [k \in Key |-> NoRow]]
    /\ replicas = [r \in Replica |-> "unregistered"]
    /\ source = [k \in Key |-> 0]
    /\ violations = [s \in Scenario |-> <<>>]
    /\ trace = [s \in Scenario |-> <<>>]
    /\ leases = [r \in Replica |-> [k \in Key |-> NoLease]]
    /\ pc = [w \in Worker |-> "idle"]
    /\ view = [w \in Worker |-> NoView]
    /\ pos = [w \in Worker |-> 0]
    /\ eff = [w \in Worker |-> NoEff]
    /\ tally = [w \in Worker |-> NoTally]
    /\ draft = [w \in Worker |-> NoDraft]
    /\ offer = [w \in Worker |-> NoOffer]
    /\ crashes = 0
    /\ faults = 0

-----------------------------------------------------------------------------
(* Steps of a request *)

At(w, here) == pc[w] = here
Goto(w, there) == pc' = [pc EXCEPT ![w] = there]

\* The request returns: its locals are gone.
Return(w) ==
    /\ Goto(w, "idle")
    /\ view'  = [view EXCEPT ![w] = NoView]
    /\ pos'   = [pos EXCEPT ![w] = 0]
    /\ eff'   = [eff EXCEPT ![w] = NoEff]
    /\ tally' = [tally EXCEPT ![w] = NoTally]
    /\ draft' = [draft EXCEPT ![w] = NoDraft]
    /\ offer' = [offer EXCEPT ![w] = NoOffer]

-----------------------------------------------------------------------------
(* Appending a message.  The status is checked before the store's lock is  *)
(* taken; the allocation of the logical clock and the insert are under it. *)

\* Mutant of Editable: only a final verdict closes the scenario.
EditableUntilFinal(s) == status[s] \notin Final

Editable(s) == status[s] = "editing"

AppendCheck(w, s) ==
    /\ At(w, "idle")
    /\ Editable(s)
    /\ Len(log[s]) < MaxLog
    /\ \E id \in MsgId, c \in Content :
          draft' = [draft EXCEPT ![w] =
             [sc |-> s, msg |-> [id |-> id, body |-> c.body,
                                 status |-> "pending", retries |-> c.retries]]]
    /\ Goto(w, "insert")
    /\ UNCHANGED <<db, leases, view, pos, eff, tally, offer, budget>>

\* Mutant of Taken: the table has no unique index.
NeverTaken(s, id) == FALSE

\* UNIQUE (scenario_id, msg_id)
Taken(s, id) == \E i \in DOMAIN log[s] : log[s][i].id = id

AppendInsert(w) ==
    LET s == draft[w].sc  m == draft[w].msg IN
    /\ At(w, "insert")
    /\ ~Taken(s, m.id)
    /\ log' = [log EXCEPT ![s] = Append(@, m)]
    /\ Return(w)
    /\ UNCHANGED <<status, cursor, rkv, replicas, source, violations, trace,
                   leases, budget>>

AppendRefused(w) ==
    /\ At(w, "insert")
    /\ Taken(draft[w].sc, draft[w].msg.id)
    /\ Return(w)
    /\ UNCHANGED <<db, leases, budget>>

-----------------------------------------------------------------------------
(* Committing a source version: read, compare, upsert, without a lock.     *)

\* Mutant of SourceRead: a version is not compared with the committed one.
SourceReadAnyway(w, k, v) ==
    /\ At(w, "idle")
    /\ v > 0
    /\ offer' = [offer EXCEPT ![w] = <<k, v>>]
    /\ Goto(w, "commit")
    /\ UNCHANGED <<db, leases, view, pos, eff, tally, draft, budget>>

SourceRead(w, k, v) ==
    /\ At(w, "idle")
    /\ v > 0
    /\ v > source[k]
    /\ offer' = [offer EXCEPT ![w] = <<k, v>>]
    /\ Goto(w, "commit")
    /\ UNCHANGED <<db, leases, view, pos, eff, tally, draft, budget>>

SourceWrite(w) ==
    /\ At(w, "commit")
    /\ source' = [source EXCEPT ![offer[w][1]] = offer[w][2]]
    /\ Return(w)
    /\ UNCHANGED <<status, cursor, log, rkv, replicas, violations, trace,
                   leases, budget>>

-----------------------------------------------------------------------------
(* Replicas.  Each is one write, and no read of it decides anything. *)

RegisterReplica(w, r) ==
    /\ At(w, "idle")
    /\ replicas[r] = "unregistered"
    /\ replicas' = [replicas EXCEPT ![r] = "healthy"]
    /\ UNCHANGED <<status, cursor, log, rkv, source, violations, trace,
                   leases, local, request, budget>>

SetReplicaStatus(w, r, to) ==
    /\ At(w, "idle")
    /\ replicas[r] # "unregistered"
    /\ replicas' = [replicas EXCEPT ![r] = to]
    /\ UNCHANGED <<status, cursor, log, rkv, source, violations, trace,
                   leases, local, request, budget>>

-----------------------------------------------------------------------------
(* Replay: what is read before the first message. *)

\* Mutants of Replayable: a converged scenario is replayed again; a scenario
\* left replaying is refused, as ErrReplayInProgress would.
ReplayableUnlessViolated(s) == status[s] # "violated"
ReplayableUnlessReplaying(s) == status[s] \notin Final \union {"replaying"}

\* A scenario with a final verdict is answered at once.
Replayable(s) == status[s] \notin Final

ReplayGet(w, s) ==
    /\ At(w, "idle")
    /\ Replayable(s)
    /\ Len(trace[s]) < MaxTrace
    /\ view' = [view EXCEPT ![w].sc = s, ![w].start = cursor[s]]
    /\ Goto(w, "begin")
    /\ UNCHANGED <<db, leases, pos, eff, tally, request, budget>>

\* The scenario is marked with the cursor that was read.
ReplayBegin(w) ==
    LET s == view[w].sc IN
    /\ At(w, "begin")
    /\ status' = [status EXCEPT ![s] = "replaying"]
    /\ cursor' = [cursor EXCEPT ![s] = view[w].start]
    /\ Goto(w, "list")
    /\ UNCHANGED <<log, rkv, replicas, source, violations, trace, leases,
                   view, pos, eff, tally, request, budget>>

ReplayList(w) ==
    /\ At(w, "list")
    /\ view' = [view EXCEPT ![w].log = log[view[w].sc]]
    /\ Goto(w, "topology")
    /\ UNCHANGED <<db, leases, pos, eff, tally, request, budget>>

ReplayTopology(w) ==
    /\ At(w, "topology")
    /\ view' = [view EXCEPT ![w].replicas = replicas]
    /\ Goto(w, "sources")
    /\ UNCHANGED <<db, leases, pos, eff, tally, request, budget>>

ReplaySources(w) ==
    /\ At(w, "sources")
    /\ view' = [view EXCEPT ![w].sources = source]
    /\ pos' = [pos EXCEPT ![w] = 1]
    /\ Goto(w, "rebuild")
    /\ UNCHANGED <<db, leases, eff, tally, request, budget>>

-----------------------------------------------------------------------------
(* Replay: the messages before the cursor.  Delivered ones were seen, and  *)
(* a delivered lease is granted again with a full time to live.            *)

Here(w)    == view[w].log[pos[w]]
InLog(w)   == pos[w] <= Len(view[w].log)

\* Mutant of Rebuilt: leases that were refused are granted as well.
RebuiltAnyway(w) == TRUE

Rebuilt(w) == Here(w).status \in {"delivered", "duplicate"}

Rebuild(w) ==
    LET m == Here(w).body IN
    /\ At(w, "rebuild")
    /\ InLog(w) /\ pos[w] <= view[w].start
    /\ leases' = IF Rebuilt(w) /\ m.kind = "lease"
                 THEN GrantLease(leases, m.replica, m.key, m.version)
                 ELSE leases
    /\ pos' = [pos EXCEPT ![w] = @ + 1]
    /\ UNCHANGED <<db, pc, view, eff, tally, request, budget>>

RebuildDone(w) ==
    /\ At(w, "rebuild")
    /\ ~InLog(w) \/ pos[w] > view[w].start
    /\ pos' = [pos EXCEPT ![w] = view[w].start + 1]
    /\ Goto(w, "step")
    /\ UNCHANGED <<db, leases, view, eff, tally, request, budget>>

-----------------------------------------------------------------------------
(* Replay: one message.  A handler decides what becomes of the message;    *)
(* the statements that follow write it: the row, the status of the         *)
(* message, the violation, the trace.                                      *)

\* The map `seen`: an earlier message of the log with the same msg_id, handled
\* by this replay or delivered before its cursor.  The branch of the code that
\* this would lead to has no action here: NoReplayedId shows it unreachable.
SeenBefore(w) ==
    \E i \in 1 .. pos[w] - 1 :
       /\ view[w].log[i].id = Here(w).id
       /\ \/ i > view[w].start
          \/ view[w].log[i].status \in {"delivered", "duplicate"}

Known(w, r) == view[w].replicas[r] # "unregistered"

Handling(w, kind) ==
    /\ At(w, "step")
    /\ InLog(w) /\ ~SeenBefore(w)
    /\ Here(w).body.kind = kind

\* What has been decided of the message, and the statement that comes next.
Decide(w, row, mark, next) ==
    /\ eff' = [eff EXCEPT ![w] = [row |-> row, mark |-> mark]]
    /\ Goto(w, next)
    /\ UNCHANGED <<view, pos, tally>>

Refuse(w) == Decide(w, NoRow, "rejected", "mark")

RejectUnknown(w) ==
    /\ \E kind \in Kind \ {"other"} : Handling(w, kind)
    /\ ~Known(w, Here(w).body.replica)
    /\ Refuse(w)
    /\ UNCHANGED <<db, leases, request, budget>>

HandleLease(w) ==
    LET m == Here(w).body IN
    /\ Handling(w, "lease") /\ Known(w, m.replica)
    /\ leases' = GrantLease(leases, m.replica, m.key, m.version)
    /\ Decide(w, NoRow, "delivered", "mark")
    /\ UNCHANGED <<db, request, budget>>

\* InvalidateKey and ObserveVersion, up to the upsert.
HandleInvalidate(w) ==
    LET m == Here(w).body  cur == rkv[m.replica][m.key] IN
    /\ Handling(w, "invalidate") /\ Known(w, m.replica)
    /\ IF InvalidateOK(cur, m.version)
       THEN Decide(w, Invalidated(cur, m.version), "delivered", "write")
       ELSE Refuse(w)
    /\ UNCHANGED <<db, leases, request, budget>>

HandleUpdate(w) ==
    LET m == Here(w).body  cur == rkv[m.replica][m.key] IN
    /\ Handling(w, "update") /\ Known(w, m.replica)
    /\ IF ~ObserveOK(cur, m.version)
       THEN Refuse(w)
       ELSE Decide(w, Observed(cur, m.version), "delivered",
                   IF Observed(cur, m.version) = cur THEN "mark" ELSE "write")
    /\ UNCHANGED <<db, leases, request, budget>>

HandleAck(w) ==
    LET m == Here(w).body IN
    /\ Handling(w, "ack") /\ Known(w, m.replica)
    /\ IF ValidateAck(leases[m.replica][m.key], m.version) = "ok"
       THEN Decide(w, NoRow, "delivered", "release")
       ELSE Refuse(w)
    /\ UNCHANGED <<db, leases, request, budget>>

AckRelease(w) ==
    LET m == Here(w).body IN
    /\ At(w, "release")
    /\ leases' = ReleaseLease(leases, m.replica, m.key)
    /\ Goto(w, "confirm")
    /\ UNCHANGED <<db, view, pos, eff, tally, request, budget>>

\* ConfirmInvalidation, up to the upsert; that there is no row is ignored.
AckConfirm(w) ==
    LET cur == rkv[Here(w).body.replica][Here(w).body.key] IN
    /\ At(w, "confirm")
    /\ IF Absent(cur)
       THEN Decide(w, NoRow, "delivered", "mark")
       ELSE Decide(w, Confirmed(cur), "delivered", "write")
    /\ UNCHANGED <<db, leases, request, budget>>

\* A retry counts on the message itself.
HandleRetry(w) ==
    LET m == Here(w).body IN
    /\ Handling(w, "retry") /\ Known(w, m.replica)
    /\ IF RetryAllowed(Here(w).retries + 1)
       THEN /\ leases' = GrantLease(leases, m.replica, m.key, m.version)
            /\ Decide(w, NoRow, "delivered", "mark")
       ELSE /\ Decide(w, NoRow, "expired", "mark")
            /\ UNCHANGED leases
    /\ UNCHANGED <<db, request, budget>>

\* A kind the engine does not know: the message stays pending.
Ignore(w) ==
    /\ Handling(w, "other")
    /\ Decide(w, NoRow, "pending", "trace")
    /\ UNCHANGED <<db, leases, request, budget>>

-----------------------------------------------------------------------------
(* Replay: the writes a handler decided on. *)

WriteRow(w) ==
    LET m == Here(w).body IN
    /\ At(w, "write")
    /\ rkv' = [rkv EXCEPT ![m.replica][m.key] = eff[w].row]
    /\ Goto(w, "mark")
    /\ UNCHANGED <<status, cursor, log, replicas, source, violations, trace,
                   leases, view, pos, eff, tally, request, budget>>

\* Mutant of Marked: a refused message stays as it was.
MarkedUnlessRefused(m, read, mark) ==
    IF Refused(mark) THEN m ELSE [m EXCEPT !.status = mark]

\* UpdateMessageStatus, or for a retry UpdateMessageStatusAndRetry, whose
\* count comes from the message as the replay read it.
Marked(m, read, mark) ==
    [m EXCEPT !.status = mark,
              !.retries = IF read.body.kind # "retry" THEN @
                          ELSE IF mark = "delivered"  THEN read.retries + 1
                          ELSE IF mark = "expired"    THEN read.retries
                          ELSE @]

AfterMark(w) == IF Refused(eff[w].mark) THEN "violate" ELSE "trace"

Mark(w) ==
    LET s == view[w].sc IN
    /\ At(w, "mark")
    /\ log' = [log EXCEPT ![s][pos[w]] = Marked(@, Here(w), eff[w].mark)]
    /\ Goto(w, AfterMark(w))
    /\ UNCHANGED <<status, cursor, rkv, replicas, source, violations, trace,
                   leases, view, pos, eff, tally, request, budget>>

\* Mutant of StepSeq: seq is incremented after the message.
StepSeqFromZero(w) == pos[w] - view[w].start - 1

\* The variable seq: steps are numbered from the cursor the replay began at.
StepSeq(w) == pos[w] - view[w].start

\* Mutant of AppendViolation: the violation is counted and not written.
CountViolation(s, n) == UNCHANGED violations

AppendViolation(s, n) == violations' = [violations EXCEPT ![s] = Append(@, n)]

Violate(w) ==
    /\ At(w, "violate")
    /\ AppendViolation(view[w].sc, StepSeq(w))
    /\ tally' = [tally EXCEPT ![w].viol = TRUE]
    /\ Goto(w, "trace")
    /\ UNCHANGED <<status, cursor, log, rkv, replicas, source, trace,
                   leases, view, pos, eff, request, budget>>

LogEvent(w) ==
    LET s == view[w].sc IN
    /\ At(w, "trace")
    /\ trace' = [trace EXCEPT ![s] = Append(@, StepSeq(w))]
    /\ pos' = [pos EXCEPT ![w] = @ + 1]
    /\ eff' = [eff EXCEPT ![w] = NoEff]
    /\ Goto(w, "step")
    /\ UNCHANGED <<status, cursor, log, rkv, replicas, source, violations,
                   leases, view, tally, request, budget>>

-----------------------------------------------------------------------------
(* Replay: the verdict. *)

Sourced(w) == {k \in Key : view[w].sources[k] > 0}
Allowed(w) == {r \in Replica : view[w].replicas[r] = "healthy"}

\* Mutants of NewCursor: where the replay began is forgotten; off by one.
Processed(w)     == pos[w] - 1 - view[w].start
NewCursorPast(w) == view[w].start + (pos[w] - view[w].start)

\* newCursor: the cursor the replay began at and what it processed since.
NewCursor(w) == view[w].start + (pos[w] - 1 - view[w].start)

\* The cursor is saved before the verdict is.
AdvanceCursor(w) ==
    LET s == view[w].sc IN
    /\ At(w, "step") /\ ~InLog(w)
    /\ status' = [status EXCEPT ![s] = "replaying"]
    /\ cursor' = [cursor EXCEPT ![s] = NewCursor(w)]
    /\ IF tally[w].viol
       THEN Goto(w, "verdict") /\ UNCHANGED tally
       ELSE /\ Goto(w, "scan")
            /\ tally' = [tally EXCEPT ![w].todo = Allowed(w) \X Sourced(w)]
    /\ UNCHANGED <<log, rkv, replicas, source, violations, trace, leases,
                   view, pos, eff, request, budget>>

\* computeUnconverged: one row read; the first key a replica lacks settles it.
\* The order of the pairs is left open.
Scanned(w, r, k, ok) ==
    tally' = [tally EXCEPT
                ![w].todo   = IF ok THEN @ \ {<<r, k>>}
                              ELSE {p \in @ : p[1] # r},
                ![w].unconv = IF ok THEN @ ELSE @ \union {r}]

ScanPair(w, r, k) ==
    /\ At(w, "scan")
    /\ <<r, k>> \in tally[w].todo
    /\ Scanned(w, r, k, ConvergedFor(rkv[r][k], view[w].sources[k]))
    /\ UNCHANGED <<db, leases, pc, view, pos, eff, request, budget>>

\* The last statement of a replay: its verdict.
Settle(w, verdict) ==
    LET s == view[w].sc IN
    /\ status' = [status EXCEPT ![s] = verdict]
    /\ cursor' = [cursor EXCEPT ![s] = NewCursor(w)]
    /\ Return(w)
    /\ UNCHANGED <<log, rkv, replicas, source, violations, trace, leases,
                   budget>>

SettleViolated(w) == At(w, "verdict") /\ Settle(w, "violated")

SettleScanned(w) ==
    /\ At(w, "scan") /\ tally[w].todo = {}
    /\ Settle(w, IF tally[w].unconv = {} THEN "converged" ELSE "timeout")

-----------------------------------------------------------------------------
(* The environment: time, crashes, and statements the database fails. *)

Tick ==
    /\ \E r \in Replica, k \in Key : Live(leases[r][k])
    /\ leases' = [r \in Replica |-> [k \in Key |-> Aged(leases[r][k])]]
    /\ UNCHANGED <<db, local, request, budget>>

\* The process dies and is started again: the leases and every request are
\* gone, the database is what the last statement left.
Crash ==
    /\ crashes < MaxCrashes
    /\ crashes' = crashes + 1
    /\ leases' = [r \in Replica |-> [k \in Key |-> NoLease]]
    /\ pc'    = [w \in Worker |-> "idle"]
    /\ view'  = [w \in Worker |-> NoView]
    /\ pos'   = [w \in Worker |-> 0]
    /\ eff'   = [w \in Worker |-> NoEff]
    /\ tally' = [w \in Worker |-> NoTally]
    /\ draft' = [w \in Worker |-> NoDraft]
    /\ offer' = [w \in Worker |-> NoOffer]
    /\ UNCHANGED <<db, faults>>

Fault ==
    /\ faults < MaxFaults
    /\ faults' = faults + 1
    /\ UNCHANGED crashes

\* A statement whose error ends the request.
Abort(w) ==
    /\ Fault
    /\ \/ pc[w] \in {"insert", "commit", "begin", "list", "topology",
                     "sources", "violate", "trace", "verdict"}
       \/ At(w, "step") /\ ~InLog(w)
       \/ At(w, "scan") /\ tally[w].todo = {}
    /\ Return(w)
    /\ UNCHANGED <<db, leases>>

\* A row that cannot be read or written: an invalidate or an update is
\* rejected as if it were stale, an ack goes on regardless.
RowFault(w) ==
    /\ Fault
    /\ \/ pc[w] \in {"write", "confirm"}
       \/ /\ Handling(w, "invalidate") \/ Handling(w, "update")
          /\ Known(w, Here(w).body.replica)
    /\ IF Here(w).body.kind = "ack"
       THEN Decide(w, NoRow, "delivered", "mark")
       ELSE Refuse(w)
    /\ UNCHANGED <<db, leases, request>>

\* The status of a message is written without looking at the error.
MarkLost(w) ==
    /\ Fault
    /\ At(w, "mark")
    /\ Goto(w, AfterMark(w))
    /\ UNCHANGED <<db, leases, view, pos, eff, tally, request>>

\* A row the verdict cannot read counts as not converged.
ScanFault(w, r, k) ==
    /\ Fault
    /\ At(w, "scan")
    /\ <<r, k>> \in tally[w].todo
    /\ Scanned(w, r, k, FALSE)
    /\ UNCHANGED <<db, leases, pc, view, pos, eff, request>>

-----------------------------------------------------------------------------

Reading(w) ==
    \/ ReplayBegin(w) \/ ReplayList(w) \/ ReplayTopology(w)
    \/ ReplaySources(w) \/ Rebuild(w) \/ RebuildDone(w)

Handle(w) ==
    \/ RejectUnknown(w) \/ HandleLease(w) \/ HandleInvalidate(w)
    \/ HandleUpdate(w) \/ HandleAck(w) \/ AckRelease(w) \/ AckConfirm(w)
    \/ HandleRetry(w) \/ Ignore(w)

Record(w) == WriteRow(w) \/ Mark(w) \/ Violate(w) \/ LogEvent(w)

Judge(w) ==
    \/ AdvanceCursor(w)
    \/ \E r \in Replica, k \in Key : ScanPair(w, r, k)
    \/ SettleViolated(w) \/ SettleScanned(w)

\* A replay that has begun goes on by itself.
ReplayStep(w) == Reading(w) \/ Handle(w) \/ Record(w) \/ Judge(w)

Request(w) ==
    \/ \E s \in Scenario : AppendCheck(w, s) \/ ReplayGet(w, s)
    \/ AppendInsert(w) \/ AppendRefused(w)
    \/ \E k \in Key, v \in SourceVersion : SourceRead(w, k, v)
    \/ SourceWrite(w)
    \/ \E r \in Replica : RegisterReplica(w, r)
    \/ \E r \in Replica, to \in {"healthy", "isolated"} :
          SetReplicaStatus(w, r, to)

Failure(w) ==
    \/ Abort(w) \/ RowFault(w) \/ MarkLost(w)
    \/ \E r \in Replica, k \in Key : ScanFault(w, r, k)

Next ==
    \/ \E w \in Worker : Request(w) \/ ReplayStep(w) \/ Failure(w)
    \/ Tick
    \/ Crash

Spec == Init /\ [][Next]_vars

\* For liveness: a request that was accepted goes on, and whoever wants a
\* verdict asks again for as long as the scenario has none.
Serve(w) ==
    ReplayStep(w) \/ AppendInsert(w) \/ AppendRefused(w) \/ SourceWrite(w)

Fairness ==
    \A w \in Worker :
       /\ WF_vars(Serve(w))
       /\ \A s \in Scenario : SF_vars(ReplayGet(w, s))

FairSpec == Spec /\ Fairness

-----------------------------------------------------------------------------
(* Properties that hold whatever the workers, crashes and faults *)

\* A lease and an observed version belong to a registered replica only: the
\* check on the topology the replay read at its start holds for everything the
\* replay does later, and rebuilding, which does not check, grants nothing else.
RegisteredOnly ==
    \A r \in Replica, k \in Key :
       leases[r][k] # NoLease \/ ~Absent(rkv[r][k])
       => replicas[r] # "unregistered"

\* Invalidations, unlike updates, are taken with any version: a row may hold one
\* that is not positive, but never as valid or waiting for an ack, where it
\* would pass for something the source has committed.
OnlyPositiveIsValid ==
    \A r \in Replica, k \in Key :
       rkv[r][k].status \in {"valid", "pending_invalidation"}
       => rkv[r][k].version > 0

\* The retry count of a message and its status agree with max_retries: a retry
\* is delivered within the limit and expires at it, also when a crash or a
\* second replay makes the engine handle the message again.
RetryBounded ==
    \A s \in Scenario : \A i \in DOMAIN log[s] :
       log[s][i].body.kind = "retry" =>
          /\ log[s][i].status = "delivered" => log[s][i].retries <= MaxRetries
          /\ log[s][i].status = "expired"   => log[s][i].retries >= MaxRetries

\* A scenario is judged violated only with a violation on record, for
\* GET /violations and the proof to show.
ViolatedIsRecorded ==
    \A s \in Scenario : status[s] = "violated" => violations[s] # <<>>

\* The cursor counts processed messages, so it never passes the end of the log;
\* a replay that began there would skip messages.
CursorWithinLog == \A s \in Scenario : cursor[s] <= Len(log[s])

\* No replay meets a msg_id twice: the unique index refuses the second message
\* when it is appended, and the duplicate branch of the engine cannot be taken.
NoReplayedId == \A w \in Worker : At(w, "step") /\ InLog(w) => ~SeenBefore(w)

-----------------------------------------------------------------------------
(* Properties of requests that do not overlap, with crashes and faults *)

\* README: the version a replica has observed never rolls back.
VersionsNeverRollBack ==
    [][\A r \in Replica, k \in Key :
          ~Absent(rkv[r][k]) =>
             ~Absent(rkv'[r][k]) /\ rkv'[r][k].version >= rkv[r][k].version]_vars

\* When a scenario is judged converged, every replica that is not isolated
\* holds the source's version of every key, and holds it valid.
ConvergedIsTrue ==
    [][\A s \in Scenario :
          status[s] # "converged" /\ status'[s] = "converged" =>
             \A r \in Replica, k \in Key :
                replicas[r] = "healthy" /\ source[k] > 0
                => rkv[r][k] = [version |-> source[k], status |-> "valid"]]_vars

\* A converged or violated scenario cannot be replayed again: nothing a replay
\* would change of it changes.
FinalIsFinal ==
    [][\A s \in Scenario :
          status[s] \in Final =>
             /\ status'[s] = status[s] /\ cursor'[s] = cursor[s]
             /\ log'[s] = log[s]
             /\ violations'[s] = violations[s] /\ trace'[s] = trace[s]]_vars

\* The verdict covers the whole log, and the cursor says so.
SettledCoversLog ==
    \A s \in Scenario : status[s] \in Settled => cursor[s] = Len(log[s])

\* A replay resumes: the cursor never goes back.
CursorNeverBack == [][\A s \in Scenario : cursor'[s] >= cursor[s]]_vars

\* One request at a time, the service keeps the contract.
Sent(s) == [i \in DOMAIN log[s] |-> [id |-> log[s][i].id, body |-> log[s][i].body]]

Promise == INSTANCE ScenarioContract
              WITH messages <- [s \in Scenario |-> Sent(s)],
                   observed <- rkv,
                   recorded <- [s \in Scenario |-> violations[s] # <<>>]

KeepsContract == Promise!Spec

-----------------------------------------------------------------------------
(* Properties of requests that do not overlap, with crashes *)

RefusedSteps(s) == {i \in DOMAIN log[s] : Refused(log[s][i].status)}
Steps(list)     == {list[i] : i \in DOMAIN list}

\* Steps are numbered from where a replay began, and after a crash some are taken
\* again, perhaps with another outcome.  All the same the trace of a scenario
\* that has a verdict is of every message, and its violations are of messages.
StepsCoverLog ==
    \A s \in Scenario : status[s] \in Settled =>
       /\ Steps(trace[s]) = DOMAIN log[s]
       /\ Steps(violations[s]) \subseteq DOMAIN log[s]

\* model.go: steps are kept to resume from and to locate violations by.  When no
\* replay is under way and there is a verdict, each message that was refused is
\* among the violations, by its number, whichever of several replays refused it.
\* (Unless a statement has failed: the status of a message is written without
\* looking at the error.)
RefusalsLocated ==
    faults = 0 /\ (\A w \in Worker : pc[w] \in {"idle", "insert", "commit"}) =>
       \A s \in Scenario :
          status[s] \in Settled => RefusedSteps(s) \subseteq Steps(violations[s])

-----------------------------------------------------------------------------
(* Properties of requests that neither overlap nor fail, on one scenario *)

\* The verdict, the violations and the log tell one story: each refused message
\* has one violation, at its step, and they decide between violated and not.
SettledAddsUp ==
    \A s \in Scenario : status[s] \in Settled =>
       /\ {violations[s][i] : i \in DOMAIN violations[s]} = RefusedSteps(s)
       /\ Len(violations[s]) = Cardinality(RefusedSteps(s))
       /\ status[s] = "violated" <=> RefusedSteps(s) # {}

\* Each message is handled once and in order: the trace counts up, messages it
\* covers have left "pending" unless their kind is unknown, later ones have not.
HandledOnce ==
    \A s \in Scenario :
       LET n == Len(trace[s]) IN
       /\ \A i \in 1 .. n : trace[s][i] = i
       /\ \A i \in DOMAIN log[s] :
             /\ i <= n /\ log[s][i].body.kind # "other"
                => log[s][i].status # "pending"
             /\ i > n + 1 => log[s][i].status = "pending"

Delivered(s, i) == log[s][i].status = "delivered"
SameLease(a, b) == a.body.replica = b.body.replica /\ a.body.key = b.body.key
Grants(m)       == m.body.kind \in {"lease", "retry"}

\* README: an ack holds a valid lease.  Each delivered ack uses up a grant of
\* its version: no grant and no other delivered ack of the same replica and key
\* lies between the two.
AckUsesLease ==
    \A s \in Scenario : \A i \in DOMAIN log[s] :
       log[s][i].body.kind = "ack" /\ Delivered(s, i) =>
          \E j \in 1 .. i - 1 :
             /\ Grants(log[s][j]) /\ Delivered(s, j)
             /\ SameLease(log[s][i], log[s][j])
             /\ log[s][j].body.version = log[s][i].body.version
             /\ \A h \in j + 1 .. i - 1 :
                   SameLease(log[s][i], log[s][h]) /\ Delivered(s, h)
                   => log[s][h].body.kind \notin {"ack", "lease", "retry"}

-----------------------------------------------------------------------------
(* Liveness *)

\* A scenario is not left replaying for ever, not even by a crash.
EveryReplaySettles ==
    \A s \in Scenario : status[s] = "replaying" ~> status[s] \in Settled

-----------------------------------------------------------------------------
(* What the documents say and the code does not do *)

\* errors.go, ErrScenarioNotEditable: a scenario that has left "editing" takes
\* no more messages.
AppendOnlyWhileEditing ==
    [][\A s \in Scenario :
          Len(log'[s]) > Len(log[s]) => status[s] = "editing"]_vars

\* README: the source version only increases.
SourceNeverBack == [][\A k \in Key : source'[k] >= source[k]]_vars

\* engine.go: a replay resumes after a restart.  The verdict after it still
\* answers for the violations recorded before it.
NoViolationInConverged ==
    \A s \in Scenario : status[s] = "converged" => violations[s] = <<>>

\* README: an ack holds a valid lease.  Over all scenarios a replica has no
\* more acks of a key delivered than it was granted leases.
Log(kinds, r, k) ==
    {p \in Scenario \X (1 .. MaxLog) :
        /\ p[2] \in DOMAIN log[p[1]]
        /\ Delivered(p[1], p[2])
        /\ log[p[1]][p[2]].body.kind \in kinds
        /\ log[p[1]][p[2]].body.replica = r
        /\ log[p[1]][p[2]].body.key = k}

AcksWithinGrants ==
    \A r \in Replica, k \in Key :
       Cardinality(Log({"ack"}, r, k)) <= Cardinality(Log({"lease", "retry"}, r, k))

=============================================================================
