------------------------ MODULE ReplayDecisionProofs ------------------------
(***************************************************************************)
(* What a replay decides about a message and what it writes lie several    *)
(* statements apart.  These proofs carry a decision over the steps of      *)
(* other workers in between: the retry limit, and the check that a replica *)
(* is registered.                                                          *)
(***************************************************************************)
EXTENDS ReplaySafetyProofs

-----------------------------------------------------------------------------
(* A message that is about to be inserted is pending. *)

DraftPending ==
    \A w \in Worker : pc[w] = "insert" => draft[w].msg.status = "pending"

LEMMA DraftStep ==
    ASSUME TypeInv, DraftPending, [Next]_vars
    PROVE  DraftPending'
<1> USE DEF TypeInv, TypeOK, DraftPending
<1>1. ASSUME NEW w \in Worker, Request(w)
      PROVE  DraftPending'
  <2>1. CASE AppendInsert(w) \/ AppendRefused(w) \/ SourceWrite(w)
    BY <2>1 DEF AppendInsert, AppendRefused, SourceWrite, Return, Goto
  <2>2. CASE \/ \E s \in Scenario : ReplayGet(w, s)
             \/ \E k \in Key, v \in SourceVersion : SourceRead(w, k, v)
    BY <2>2 DEF ReplayGet, SourceRead, Goto, request
  <2>3. CASE \/ \E r \in Replica : RegisterReplica(w, r)
             \/ \E r \in Replica, to \in {"healthy", "isolated"} :
                   SetReplicaStatus(w, r, to)
    BY <2>3 DEF RegisterReplica, SetReplicaStatus, local, request
  <2>4. CASE \E s \in Scenario : AppendCheck(w, s)
    BY <2>4 DEF AppendCheck, Goto
  <2> QED BY <1>1, <2>1, <2>2, <2>3, <2>4 DEF Request
<1>2. ASSUME NEW w \in Worker, UNCHANGED draft,
             \E there \in PC \ {"insert"} : Goto(w, there)
      PROVE  DraftPending'
  BY <1>2 DEF Goto
<1>3. ASSUME UNCHANGED <<draft, pc>>
      PROVE  DraftPending'
  BY <1>3
<1>4. ASSUME NEW w \in Worker, Reading(w)
      PROVE  DraftPending'
  BY <1>2, <1>3, <1>4
     DEF Reading, ReplayBegin, ReplayList, ReplayTopology, ReplaySources,
         Rebuild, RebuildDone, PC, request
<1>5. ASSUME NEW w \in Worker, Handle(w)
      PROVE  DraftPending'
  <2>1. UNCHANGED draft
    BY <1>5 DEF Handle, RejectUnknown, HandleLease, HandleInvalidate,
                HandleUpdate, HandleAck, AckRelease, AckConfirm, HandleRetry,
                Ignore, request
  <2>2. \E there \in {"release", "confirm", "write", "mark", "trace"} :
           Goto(w, there)
    BY <1>5 DEF Handle, RejectUnknown, HandleLease, HandleInvalidate,
                HandleUpdate, HandleAck, AckRelease, AckConfirm, HandleRetry,
                Ignore, Refuse, Decide
  <2> QED BY <1>2, <2>1, <2>2 DEF PC
<1>6. ASSUME NEW w \in Worker, Record(w)
      PROVE  DraftPending'
  BY <1>2, <1>6 DEF Record, WriteRow, Mark, Violate, LogEvent, AfterMark, PC,
                    request
<1>7. ASSUME NEW w \in Worker, Judge(w)
      PROVE  DraftPending'
  <2>1. CASE AdvanceCursor(w)
    BY <1>2, <2>1 DEF AdvanceCursor, PC, request
  <2>2. CASE \E r \in Replica, k \in Key : ScanPair(w, r, k)
    BY <1>3, <2>2 DEF ScanPair, request
  <2>3. CASE SettleViolated(w) \/ SettleScanned(w)
    BY <2>3 DEF SettleViolated, SettleScanned, Settle, Return, Goto
  <2> QED BY <1>7, <2>1, <2>2, <2>3 DEF Judge
<1>8. ASSUME NEW w \in Worker, Failure(w)
      PROVE  DraftPending'
  <2>1. CASE Abort(w)
    BY <2>1 DEF Abort, Return, Goto
  <2>2. CASE RowFault(w) \/ MarkLost(w)
    BY <1>2, <2>2 DEF RowFault, MarkLost, Refuse, Decide, AfterMark, PC, request
  <2>3. CASE \E r \in Replica, k \in Key : ScanFault(w, r, k)
    BY <1>3, <2>3 DEF ScanFault, request
  <2> QED BY <1>8, <2>1, <2>2, <2>3 DEF Failure
<1>9. CASE Tick \/ Crash \/ UNCHANGED vars
  BY <1>9 DEF Tick, Crash, vars, local, request
<1> QED BY <1>1, <1>4, <1>5, <1>6, <1>7, <1>8, <1>9 DEF Next, ReplayStep

-----------------------------------------------------------------------------
(* The retry limit *)

RetryDecided(w) ==
    /\ pc[w] \in {"release", "confirm"} => Here(w).body.kind = "ack"
    /\ pc[w] = "write" => Here(w).body.kind # "retry"
    /\ pc[w] = "mark" /\ Here(w).body.kind = "retry" =>
          /\ eff[w].mark = "delivered" => Here(w).retries + 1 <= MaxRetries
          /\ eff[w].mark = "expired"   => Here(w).retries >= MaxRetries

RetryInv == RetryBounded /\ \A w \in Worker : RetryDecided(w)

\* Where a worker goes without deciding anything of a message.
Undecided == PC \ {"release", "confirm", "write", "mark"}

LEMMA RetryFrame ==
    ASSUME TypeInv, RetryInv, RetryBounded', NEW w \in Worker,
           \/ pc'[w] \in Undecided
           \/ pc'[w] = pc[w] /\ UNCHANGED <<view, pos, eff>>,
           \A u \in Worker \ {w} : /\ view'[u] = view[u] /\ pos'[u] = pos[u]
                                   /\ pc'[u] = pc[u] /\ eff'[u] = eff[u]
    PROVE  RetryInv'
<1>1. ASSUME NEW u \in Worker
      PROVE  RetryDecided(u)'
  <2>1. CASE u # w
    <3>1. Here(u)' = Here(u) /\ pc'[u] = pc[u] /\ eff'[u] = eff[u]
      BY <2>1 DEF Here
    <3> QED BY <3>1 DEF RetryInv, RetryDecided
  <2>2. CASE u = w /\ pc'[w] \in Undecided
    BY <2>2 DEF RetryDecided, Undecided
  <2>3. CASE u = w /\ pc'[w] = pc[w] /\ UNCHANGED <<view, pos, eff>>
    BY <2>3 DEF RetryInv, RetryDecided, Here
  <2> QED BY <2>1, <2>2, <2>3
<1> QED BY <1>1 DEF RetryInv

\* A handler decides: of a retry, by its count.
LEMMA RetryDecide ==
    ASSUME TypeInv, RetryInv, UNCHANGED log, NEW w \in Worker,
           NEW row, NEW mark, NEW next, Decide(w, row, mark, next),
           next \in {"release", "confirm"} => Here(w).body.kind = "ack",
           next = "write" => Here(w).body.kind # "retry",
           Here(w).body.kind = "retry" =>
              /\ mark = "delivered" => Here(w).retries + 1 <= MaxRetries
              /\ mark = "expired"   => Here(w).retries >= MaxRetries
    PROVE  RetryInv'
<1>1. RetryBounded'
  BY DEF RetryInv, RetryBounded
<1>2. /\ UNCHANGED <<view, pos>>
      /\ pc'[w] = next /\ eff'[w] = [row |-> row, mark |-> mark]
      /\ \A u \in Worker \ {w} : pc'[u] = pc[u] /\ eff'[u] = eff[u]
  BY DEF Decide, Goto, TypeInv, TypeOK
<1>3. \A u \in Worker : Here(u)' = Here(u)
  BY <1>2 DEF Here
<1>4. RetryDecided(w)'
  BY <1>2, <1>3 DEF RetryDecided
<1>5. \A u \in Worker \ {w} : RetryDecided(u)'
  BY <1>2, <1>3 DEF RetryInv, RetryDecided
<1> QED BY <1>1, <1>4, <1>5 DEF RetryInv

LEMMA RetryHandle ==
    ASSUME TypeInv, RetryInv, NEW w \in Worker, Handle(w)
    PROVE  RetryInv'
<1> USE DEF Handling
<1>1. UNCHANGED log
  BY DEF Handle, RejectUnknown, HandleLease, HandleInvalidate, HandleUpdate,
         HandleAck, AckRelease, AckConfirm, HandleRetry, Ignore, db
<1>2. CASE \/ RejectUnknown(w) \/ HandleLease(w) \/ HandleInvalidate(w)
           \/ HandleUpdate(w) \/ HandleAck(w) \/ Ignore(w)
  BY <1>1, <1>2, RetryDecide
     DEF RejectUnknown, HandleLease, HandleInvalidate, HandleUpdate, HandleAck,
         Ignore, Refuse
<1>3. CASE AckRelease(w)
  <2>1. Here(w).body.kind = "ack"
    BY <1>3 DEF AckRelease, At, RetryInv, RetryDecided
  <2>2. /\ UNCHANGED <<view, pos, eff>> /\ pc'[w] = "confirm"
        /\ \A u \in Worker \ {w} : pc'[u] = pc[u]
    BY <1>3 DEF AckRelease, Goto, TypeInv, TypeOK
  <2>3. \A u \in Worker : RetryDecided(u)'
    BY <2>1, <2>2 DEF RetryInv, RetryDecided, Here
  <2> QED BY <1>1, <2>3 DEF RetryInv, RetryBounded
<1>4. CASE AckConfirm(w)
  <2>1. Here(w).body.kind = "ack"
    BY <1>4 DEF AckConfirm, At, RetryInv, RetryDecided
  <2> QED BY <1>1, <1>4, <2>1, RetryDecide DEF AckConfirm
<1>5. CASE HandleRetry(w)
  <2>1. InRange(w)
    BY <1>5, HandlingInRange DEF HandleRetry
  <2>2. Here(w).retries \in Int
    BY <2>1, HereType
  <2>3. /\ RetryAllowed(Here(w).retries + 1) =>
              Here(w).retries + 1 <= MaxRetries
        /\ ~RetryAllowed(Here(w).retries + 1) => Here(w).retries >= MaxRetries
    BY <2>2, ProtocolAssumption DEF RetryAllowed
  <2> QED BY <1>1, <1>5, <2>3, RetryDecide DEF HandleRetry
<1> QED BY <1>2, <1>3, <1>4, <1>5 DEF Handle

LEMMA RetryRecord ==
    ASSUME TypeInv, LogInv, RetryInv, NEW w \in Worker, Record(w)
    PROVE  RetryInv'
<1>1. CASE Mark(w)
  <2> DEFINE s == view[w].sc  h == Here(w)
  <2>1. InRange(w)
    BY <1>1 DEF Mark, At, TypeInv, PosOK, AtMessage
  <2>2. h.retries \in Int
    BY <2>1, HereType
  <2>3. /\ s \in Scenario /\ log[s] \in Seq(Message)
        /\ view[w].log \in Seq(Message) /\ pos[w] \in 1 .. Len(view[w].log)
    BY <2>1 DEF InRange, TypeInv, TypeOK, View
  <2>4. /\ Len(view[w].log) <= Len(log[s]) /\ Same(h, log[s][pos[w]])
    BY <2>3 DEF LogInv, Within, Copied, Here
  <2>5. ASSUME NEW t \in Scenario, NEW i \in 1 .. Len(log'[t]),
               log'[t][i].body.kind = "retry"
        PROVE  /\ log'[t][i].status = "delivered" => log'[t][i].retries <= MaxRetries
               /\ log'[t][i].status = "expired"   => log'[t][i].retries >= MaxRetries
    <3>1. i \in 1 .. Len(log[t]) /\ log[t][i] \in Message
      BY <1>1, MarkWrites DEF TypeInv, TypeOK
    <3>2. CASE t = s /\ i = pos[w]
      <4>1. log'[t][i] = Marked(log[t][i], h, eff[w].mark)
        BY <1>1, <3>1, <3>2, MarkWrites
      <4>2. h.body.kind = "retry"
        BY <2>4, <2>5, <3>1, <3>2, <4>1 DEF Same, Marked, Message
      <4>3. /\ eff[w].mark = "delivered" => h.retries + 1 <= MaxRetries
            /\ eff[w].mark = "expired"   => h.retries >= MaxRetries
        BY <1>1, <4>2 DEF Mark, At, RetryInv, RetryDecided
      <4>4. /\ log'[t][i].status = eff[w].mark
            /\ eff[w].mark = "delivered" => log'[t][i].retries = h.retries + 1
            /\ eff[w].mark = "expired"   => log'[t][i].retries = h.retries
        BY <3>1, <4>1, <4>2 DEF Marked, Message
      <4> QED BY <4>3, <4>4
    <3>3. CASE ~(t = s /\ i = pos[w])
      <4>1. log'[t][i] = log[t][i]
        BY <1>1, <3>1, <3>3, MarkWrites
      <4> QED BY <2>5, <3>1, <4>1 DEF RetryInv, RetryBounded, TypeInv, TypeOK
    <3> QED BY <3>2, <3>3
  <2>6. RetryBounded'
    <3>1. \A t \in Scenario : DOMAIN log'[t] = 1 .. Len(log'[t])
      BY NextType, <1>1 DEF TypeInv, TypeOK, Next, ReplayStep, Record
    <3> QED BY <2>5, <3>1 DEF RetryBounded
  <2>7. /\ UNCHANGED <<view, pos, eff>> /\ pc'[w] \in Undecided
        /\ \A u \in Worker \ {w} : pc'[u] = pc[u]
    BY <1>1 DEF Mark, AfterMark, Goto, TypeInv, TypeOK, Undecided, PC
  <2> QED BY <2>6, <2>7, RetryFrame
<1>2. CASE WriteRow(w)
  <2>1. /\ UNCHANGED <<log, view, pos, eff>> /\ pc'[w] = "mark"
        /\ Here(w).body.kind # "retry"
        /\ \A u \in Worker \ {w} : pc'[u] = pc[u]
    BY <1>2 DEF WriteRow, At, Goto, TypeInv, TypeOK, RetryInv, RetryDecided
  <2>2. \A u \in Worker : RetryDecided(u)'
    BY <2>1 DEF RetryInv, RetryDecided, Here
  <2> QED BY <2>1, <2>2 DEF RetryInv, RetryBounded
<1>3. CASE Violate(w) \/ LogEvent(w)
  <2>1. RetryBounded'
    BY <1>3 DEF Violate, LogEvent, RetryInv, RetryBounded
  <2>2. /\ pc'[w] \in Undecided
        /\ \A u \in Worker \ {w} : /\ view'[u] = view[u] /\ pos'[u] = pos[u]
                                   /\ pc'[u] = pc[u] /\ eff'[u] = eff[u]
    BY <1>3 DEF Violate, LogEvent, Goto, TypeInv, TypeOK, Undecided, PC
  <2> QED BY <2>1, <2>2, RetryFrame
<1> QED BY <1>1, <1>2, <1>3 DEF Record

LEMMA RetryRequest ==
    ASSUME TypeInv, DraftPending, RetryInv, NEW w \in Worker, Request(w)
    PROVE  RetryInv'
<1>1. CASE AppendInsert(w)
  <2> DEFINE d == draft[w].sc  m == draft[w].msg
  <2>1. /\ d \in Scenario /\ m \in Message /\ m.status = "pending"
        /\ log' = [log EXCEPT ![d] = Append(@, m)]
    BY <1>1 DEF AppendInsert, At, TypeInv, TypeOK, FormOK, Draft, DraftPending
  <2>2. log \in [Scenario -> Seq(Message)]
    BY DEF TypeInv, TypeOK
  <2> HIDE DEF d, m
  <2>3. \A s \in Scenario : log'[s] = log[s] \/ log'[s] = Append(log[s], m)
    BY <2>1, <2>2
  <2>4. \A s \in Scenario : \A i \in DOMAIN log'[s] :
           \/ i \in DOMAIN log[s] /\ log'[s][i] = log[s][i]
           \/ log'[s][i].status = "pending"
    BY <2>1, <2>2, <2>3
  <2>5. RetryBounded'
    BY <2>4 DEF RetryInv, RetryBounded
  <2>6. /\ pc'[w] \in Undecided
        /\ \A u \in Worker \ {w} : /\ view'[u] = view[u] /\ pos'[u] = pos[u]
                                   /\ pc'[u] = pc[u] /\ eff'[u] = eff[u]
    BY <1>1 DEF AppendInsert, Return, Goto, TypeInv, TypeOK, Undecided, PC
  <2> QED BY <2>5, <2>6, RetryFrame
<1>2. CASE Request(w) /\ ~AppendInsert(w)
  <2>1. RetryBounded'
    BY <1>2 DEF Request, AppendCheck, ReplayGet, AppendRefused, SourceRead,
                SourceWrite, RegisterReplica, SetReplicaStatus, db, RetryInv,
                RetryBounded
  <2>2. \/ pc'[w] \in Undecided
        \/ pc'[w] = pc[w] /\ UNCHANGED <<view, pos, eff>>
    BY <1>2 DEF Request, AppendCheck, ReplayGet, AppendRefused, SourceRead,
                SourceWrite, RegisterReplica, SetReplicaStatus, Return, Goto,
                local, TypeInv, TypeOK, Undecided, PC
  <2>3. \A u \in Worker \ {w} : /\ view'[u] = view[u] /\ pos'[u] = pos[u]
                               /\ pc'[u] = pc[u] /\ eff'[u] = eff[u]
    BY <1>2 DEF Request, AppendCheck, ReplayGet, AppendRefused, SourceRead,
                SourceWrite, RegisterReplica, SetReplicaStatus, Return, Goto,
                local, TypeInv, TypeOK
  <2> QED BY <2>1, <2>2, <2>3, RetryFrame
<1> QED BY <1>1, <1>2

LEMMA RetryOther ==
    ASSUME TypeInv, RetryInv, NEW w \in Worker, Reading(w) \/ Judge(w)
    PROVE  RetryInv'
<1>1. UNCHANGED log
  BY DEF Reading, ReplayBegin, ReplayList, ReplayTopology, ReplaySources,
         Rebuild, RebuildDone, Judge, AdvanceCursor, ScanPair, SettleViolated,
         SettleScanned, Settle, db
<1>2. pc'[w] \in Undecided
  <2>1. CASE Reading(w)
    BY <2>1 DEF Reading, ReplayBegin, ReplayList, ReplayTopology,
                ReplaySources, Rebuild, RebuildDone, At, Goto, TypeInv, TypeOK,
                Undecided, PC
  <2>2. CASE Judge(w)
    <3>1. pc'[w] \in {"scan", "verdict", "idle"}
      <4>1. CASE AdvanceCursor(w)
        BY <4>1 DEF AdvanceCursor, Goto, TypeInv, TypeOK
      <4>2. CASE \E r \in Replica, k \in Key : ScanPair(w, r, k)
        BY <4>2 DEF ScanPair, At
      <4>3. CASE SettleViolated(w) \/ SettleScanned(w)
        BY <4>3 DEF SettleViolated, SettleScanned, Settle, Return, Goto,
                    TypeInv, TypeOK
      <4> QED BY <2>2, <4>1, <4>2, <4>3 DEF Judge
    <3> QED BY <3>1 DEF Undecided, PC
  <2> QED BY <2>1, <2>2
<1>3. \A u \in Worker \ {w} : /\ view'[u] = view[u] /\ pos'[u] = pos[u]
                             /\ pc'[u] = pc[u] /\ eff'[u] = eff[u]
  <2>1. CASE Reading(w)
    BY <2>1 DEF Reading, ReplayBegin, ReplayList, ReplayTopology,
                ReplaySources, Rebuild, RebuildDone, Goto, TypeInv, TypeOK
  <2>2. CASE Judge(w)
    BY <2>2 DEF Judge, AdvanceCursor, ScanPair, SettleViolated, SettleScanned,
                Settle, Return, Goto, TypeInv, TypeOK
  <2> QED BY <2>1, <2>2
<1>4. RetryBounded'
  BY <1>1 DEF RetryInv, RetryBounded
<1> QED BY <1>2, <1>3, <1>4, RetryFrame

LEMMA RetryFailure ==
    ASSUME TypeInv, RetryInv, NEW w \in Worker, Failure(w)
    PROVE  RetryInv'
<1>1. UNCHANGED log
  BY DEF Failure, Abort, RowFault, MarkLost, ScanFault, db
<1>2. RetryBounded'
  BY <1>1 DEF RetryInv, RetryBounded
<1>3. CASE RowFault(w)
  <2>1. \/ Refuse(w)
        \/ Here(w).body.kind = "ack" /\ Decide(w, NoRow, "delivered", "mark")
    BY <1>3 DEF RowFault
  <2> QED BY <1>1, <2>1, RetryDecide DEF Refuse
<1>4. CASE Abort(w) \/ MarkLost(w)
  <2>1. pc'[w] \in Undecided
    BY <1>4 DEF Abort, MarkLost, AfterMark, Return, Goto, TypeInv, TypeOK,
                Undecided, PC
  <2>2. \A u \in Worker \ {w} : /\ view'[u] = view[u] /\ pos'[u] = pos[u]
                               /\ pc'[u] = pc[u] /\ eff'[u] = eff[u]
    BY <1>4 DEF Abort, MarkLost, Return, Goto, TypeInv, TypeOK
  <2> QED BY <1>2, <2>1, <2>2, RetryFrame
<1>5. CASE \E r \in Replica, k \in Key : ScanFault(w, r, k)
  <2>1. UNCHANGED <<pc, view, pos, eff>>
    BY <1>5 DEF ScanFault
  <2> QED BY <1>2, <2>1, RetryFrame
<1> QED BY <1>3, <1>4, <1>5 DEF Failure

LEMMA RetryNext ==
    TypeInv /\ LogInv /\ DraftPending /\ RetryInv /\ [Next]_vars => RetryInv'
<1> SUFFICES ASSUME TypeInv, LogInv, DraftPending, RetryInv, [Next]_vars
             PROVE  RetryInv'
  OBVIOUS
<1>1. CASE Tick \/ UNCHANGED vars
  BY <1>1 DEF Tick, vars, db, local, RetryInv, RetryBounded, RetryDecided, Here
<1>2. CASE Crash
  BY <1>2 DEF Crash, db, RetryInv, RetryBounded, RetryDecided
<1>3. ASSUME NEW w \in Worker, Request(w) \/ ReplayStep(w) \/ Failure(w)
      PROVE  RetryInv'
  BY <1>3, RetryRequest, RetryOther, RetryHandle, RetryRecord, RetryFailure
     DEF ReplayStep
<1> QED BY <1>1, <1>2, <1>3 DEF Next

\* However often a crash or a second replay makes the engine handle a retry
\* again, it is delivered within max_retries and expires only at the limit.
THEOREM RetriesAlwaysBounded == Spec => []RetryBounded
<1>1. Init => DraftPending /\ RetryInv
  BY DEF Init, DraftPending, RetryInv, RetryBounded, RetryDecided
<1>2. RetryInv => RetryBounded
  BY DEF RetryInv
<1>3. TypeInv /\ DraftPending /\ [Next]_vars => DraftPending'
  BY DraftStep
<1> QED BY <1>1, <1>2, <1>3, LogInvariant, RetryNext, PTL DEF Spec

-----------------------------------------------------------------------------
(* Leases and rows belong to registered replicas only, although a replay   *)
(* checks that once, against a topology it read at its start, and does not *)
(* check it at all when it rebuilds.                                       *)

Registered(r) == replicas[r] # "unregistered"
Accepted(m)   == m.status \in {"delivered", "duplicate"}

\* A message was delivered to a registered replica.
LogRegistered ==
    \A s \in Scenario : \A i \in 1 .. Len(log[s]) :
       Accepted(log[s][i]) => Registered(log[s][i].body.replica)

\* What a replay read of the log and of the topology is still so.
ReadRegistered(w) ==
    /\ \A i \in 1 .. Len(view[w].log) :
          Accepted(view[w].log[i]) => Registered(view[w].log[i].body.replica)
    /\ \A r \in Replica : Known(w, r) => Registered(r)

\* A replay that is about to write for a replica has seen it registered.
ActsRegistered(w) ==
    /\ pc[w] \in {"release", "confirm", "write"} =>
          Registered(Here(w).body.replica)
    /\ pc[w] = "mark" =>
          Refused(eff[w].mark) \/ Registered(Here(w).body.replica)

RegInv ==
    /\ RegisteredOnly
    /\ LogRegistered
    /\ \A w \in Worker : ReadRegistered(w) /\ ActsRegistered(w)

\* A replica is never unregistered.
RegGrows == \A r \in Replica : Registered(r) => Registered(r)'

LEMMA ReplicaStaysRegistered ==
    ASSUME TypeInv, [Next]_vars
    PROVE  RegGrows
<1> USE DEF RegGrows, Registered
<1>1. ASSUME NEW w \in Worker, Request(w)
      PROVE  RegGrows
  <2>1. CASE \E r \in Replica : RegisterReplica(w, r)
    BY <2>1 DEF RegisterReplica, TypeInv, TypeOK, Topology
  <2>2. CASE \E r \in Replica, to \in {"healthy", "isolated"} :
                SetReplicaStatus(w, r, to)
    BY <2>2 DEF SetReplicaStatus, TypeInv, TypeOK, Topology
  <2>3. CASE UNCHANGED replicas
    BY <2>3
  <2> QED BY <1>1, <2>1, <2>2, <2>3
          DEF Request, AppendCheck, ReplayGet, AppendInsert, AppendRefused,
              SourceRead, SourceWrite, db
<1>2. ASSUME NEW w \in Worker, ReplayStep(w)
      PROVE  UNCHANGED replicas
  <2>1. CASE Reading(w)
    BY <2>1 DEF Reading, ReplayBegin, ReplayList, ReplayTopology,
                ReplaySources, Rebuild, RebuildDone, db
  <2>2. CASE Handle(w)
    BY <2>2 DEF Handle, RejectUnknown, HandleLease, HandleInvalidate,
                HandleUpdate, HandleAck, AckRelease, AckConfirm, HandleRetry,
                Ignore, db
  <2>3. CASE Record(w)
    BY <2>3 DEF Record, WriteRow, Mark, Violate, LogEvent
  <2>4. CASE Judge(w)
    BY <2>4 DEF Judge, AdvanceCursor, ScanPair, SettleViolated, SettleScanned,
                Settle, db
  <2> QED BY <1>2, <2>1, <2>2, <2>3, <2>4 DEF ReplayStep
<1>3. ASSUME NEW w \in Worker, Failure(w)
      PROVE  UNCHANGED replicas
  BY <1>3 DEF Failure, Abort, RowFault, MarkLost, ScanFault, db
<1>4. CASE Tick \/ Crash \/ UNCHANGED vars
  BY <1>4 DEF Tick, Crash, vars, db
<1> QED BY <1>1, <1>2, <1>3, <1>4 DEF Next

-----------------------------------------------------------------------------
(* The parts of the invariant that a step leaves alone *)

LEMMA TablesFrame ==
    ASSUME TypeInv, RegisteredOnly, RegGrows, UNCHANGED <<leases, rkv>>
    PROVE  RegisteredOnly'
BY DEF RegisteredOnly, RegGrows, Registered

LEMMA GrantFrame ==
    ASSUME TypeInv, RegisteredOnly, UNCHANGED <<rkv, replicas>>,
           NEW r \in Replica, Registered(r), NEW k \in Key, NEW v,
           leases' = GrantLease(leases, r, k, v)
    PROVE  RegisteredOnly'
<1>1. \A q \in Replica, j \in Key : q # r => leases'[q][j] = leases[q][j]
  BY DEF GrantLease, TypeInv, TypeOK
<1> QED BY <1>1 DEF RegisteredOnly, Registered

LEMMA AddresseeType ==
    ASSUME NEW messages \in Seq(Message), NEW i \in 1 .. Len(messages)
    PROVE  messages[i].body.replica \in Replica
<1>1. messages[i] \in Message
  OBVIOUS
<1>2. messages[i].body \in Body
  BY <1>1 DEF Message
<1> QED BY <1>2 DEF Body

LEMMA RegLogFrame ==
    ASSUME TypeInv, LogRegistered, RegGrows, UNCHANGED log
    PROVE  LogRegistered'
<1>1. \A s \in Scenario : log[s] \in Seq(Message)
  BY DEF TypeInv, TypeOK
<1>2. \A s \in Scenario : \A i \in 1 .. Len(log[s]) :
         log[s][i].body.replica \in Replica
  BY <1>1, AddresseeType
<1> QED BY <1>2 DEF LogRegistered, RegGrows, Registered

LEMMA ReadFrame ==
    ASSUME TypeInv, RegInv, RegGrows, NEW w \in Worker,
           view'[w].log = view[w].log, view'[w].replicas = view[w].replicas
    PROVE  ReadRegistered(w)'
<1>1. view[w].log \in Seq(Message)
  BY DEF TypeInv, TypeOK, View
<1>2. \A i \in 1 .. Len(view[w].log) : view[w].log[i].body.replica \in Replica
  BY <1>1, AddresseeType
<1> QED BY <1>2 DEF RegInv, ReadRegistered, RegGrows, Registered, Known

\* A step that moves one worker, or none.
LEMMA RegStep ==
    ASSUME TypeInv, RegInv, RegGrows, NEW w \in Worker,
           RegisteredOnly', LogRegistered', ReadRegistered(w)',
           ActsRegistered(w)',
           \A u \in Worker \ {w} : /\ view'[u] = view[u] /\ pos'[u] = pos[u]
                                   /\ pc'[u] = pc[u] /\ eff'[u] = eff[u]
    PROVE  RegInv'
<1>1. ASSUME NEW u \in Worker \ {w}
      PROVE  ReadRegistered(u)' /\ ActsRegistered(u)'
  <2>1. ReadRegistered(u)'
    BY ReadFrame
  <2>2. Here(u)' = Here(u) /\ pc'[u] = pc[u] /\ eff'[u] = eff[u]
    BY DEF Here
  <2>3. pc[u] \in AtMessage => Here(u).body.replica \in Replica
    BY HereType DEF TypeInv, PosOK
  <2>4. ActsRegistered(u)'
    BY <2>2, <2>3 DEF RegInv, ActsRegistered, RegGrows, Registered, AtMessage
  <2> QED BY <2>1, <2>4
<1> QED BY <1>1 DEF RegInv

-----------------------------------------------------------------------------
(* The steps *)

LEMMA RegReturn ==
    ASSUME TypeInv, RegInv, RegGrows, NEW w \in Worker, Return(w),
           UNCHANGED <<leases, rkv>>, LogRegistered'
    PROVE  RegInv'
<1>1. RegisteredOnly'
  BY TablesFrame DEF RegInv
<1>2. /\ view'[w] = NoView /\ pc'[w] = "idle"
      /\ \A u \in Worker \ {w} : /\ view'[u] = view[u] /\ pos'[u] = pos[u]
                                 /\ pc'[u] = pc[u] /\ eff'[u] = eff[u]
  BY DEF Return, Goto, TypeInv, TypeOK
<1>3. ReadRegistered(w)' /\ ActsRegistered(w)'
  BY <1>2 DEF ReadRegistered, ActsRegistered, Known, NoView
<1> QED BY <1>1, <1>2, <1>3, RegStep

LEMMA RegRequest ==
    ASSUME TypeInv, DraftPending, RegInv, RegGrows, NEW w \in Worker, Request(w)
    PROVE  RegInv'
<1>1. UNCHANGED <<leases, rkv>>
  BY DEF Request, AppendCheck, ReplayGet, AppendInsert, AppendRefused,
         SourceRead, SourceWrite, RegisterReplica, SetReplicaStatus, db
<1>2. RegisteredOnly'
  BY <1>1, TablesFrame DEF RegInv
<1>3. CASE AppendInsert(w)
  <2> DEFINE d == draft[w].sc  m == draft[w].msg
  <2>1. /\ d \in Scenario /\ m \in Message /\ m.status = "pending"
        /\ log' = [log EXCEPT ![d] = Append(@, m)] /\ UNCHANGED replicas
    BY <1>3 DEF AppendInsert, At, TypeInv, TypeOK, FormOK, Draft, DraftPending
  <2>2. log \in [Scenario -> Seq(Message)]
    BY DEF TypeInv, TypeOK
  <2> HIDE DEF d, m
  <2>3. \A s \in Scenario : log'[s] = log[s] \/ log'[s] = Append(log[s], m)
    BY <2>1, <2>2
  <2>4. \A s \in Scenario : \A i \in 1 .. Len(log'[s]) :
           \/ i \in 1 .. Len(log[s]) /\ log'[s][i] = log[s][i]
           \/ log'[s][i].status = "pending"
    BY <2>1, <2>2, <2>3
  <2>5. LogRegistered'
    BY <2>1, <2>4 DEF RegInv, LogRegistered, Accepted, Registered
  <2> QED BY <1>1, <1>3, <2>5, RegReturn DEF AppendInsert
<1>4. CASE Request(w) /\ ~AppendInsert(w)
  <2>1. UNCHANGED log
    BY <1>4 DEF Request, AppendCheck, ReplayGet, AppendRefused, SourceRead,
                SourceWrite, RegisterReplica, SetReplicaStatus, db
  <2>2. LogRegistered'
    BY <2>1, RegLogFrame DEF RegInv
  <2>3. CASE AppendRefused(w) \/ SourceWrite(w)
    BY <1>1, <2>2, <2>3, RegReturn DEF AppendRefused, SourceWrite
  <2>4. CASE \/ \E r \in Replica : RegisterReplica(w, r)
             \/ \E r \in Replica, to \in {"healthy", "isolated"} :
                   SetReplicaStatus(w, r, to)
    <3>1. UNCHANGED <<pc, view, pos, eff>>
      BY <2>4 DEF RegisterReplica, SetReplicaStatus, local
    <3>2. pc[w] = "idle"
      BY <2>4 DEF RegisterReplica, SetReplicaStatus, At
    <3>3. ReadRegistered(w)' /\ ActsRegistered(w)'
      BY <3>1, <3>2, ReadFrame DEF ActsRegistered
    <3> QED BY <1>2, <2>2, <3>1, <3>3, RegStep
  <2>5. CASE \/ \E s \in Scenario : AppendCheck(w, s) \/ ReplayGet(w, s)
             \/ \E k \in Key, v \in SourceVersion : SourceRead(w, k, v)
    <3>1. /\ view'[w].log = view[w].log /\ view'[w].replicas = view[w].replicas
          /\ pc'[w] \in {"insert", "begin", "commit"}
          /\ \A u \in Worker \ {w} : /\ view'[u] = view[u] /\ pos'[u] = pos[u]
                                     /\ pc'[u] = pc[u] /\ eff'[u] = eff[u]
      <4>1. CASE \E s \in Scenario : AppendCheck(w, s)
        BY <4>1 DEF AppendCheck, Goto, TypeInv, TypeOK
      <4>2. CASE \E s \in Scenario : ReplayGet(w, s)
        BY <4>2 DEF ReplayGet, Goto, TypeInv, TypeOK, View
      <4>3. CASE \E k \in Key, v \in SourceVersion : SourceRead(w, k, v)
        BY <4>3 DEF SourceRead, Goto, TypeInv, TypeOK
      <4> QED BY <2>5, <4>1, <4>2, <4>3
    <3>2. ReadRegistered(w)' /\ ActsRegistered(w)'
      BY <3>1, ReadFrame DEF ActsRegistered
    <3> QED BY <1>2, <2>2, <3>1, <3>2, RegStep
  <2> QED BY <1>4, <2>3, <2>4, <2>5 DEF Request
<1> QED BY <1>3, <1>4

LEMMA RegReading ==
    ASSUME TypeInv, RegInv, RegGrows, NEW w \in Worker, Reading(w)
    PROVE  RegInv'
<1>1. UNCHANGED <<log, rkv, replicas>>
  BY DEF Reading, ReplayBegin, ReplayList, ReplayTopology, ReplaySources,
         Rebuild, RebuildDone, db
<1>2. LogRegistered'
  BY <1>1, RegLogFrame DEF RegInv
<1>3. ActsRegistered(w)'
  BY DEF Reading, ReplayBegin, ReplayList, ReplayTopology, ReplaySources,
         Rebuild, RebuildDone, At, Goto, TypeInv, TypeOK, ActsRegistered
<1>4. \A u \in Worker \ {w} : /\ view'[u] = view[u] /\ pos'[u] = pos[u]
                             /\ pc'[u] = pc[u] /\ eff'[u] = eff[u]
  BY DEF Reading, ReplayBegin, ReplayList, ReplayTopology, ReplaySources,
         Rebuild, RebuildDone, Goto, TypeInv, TypeOK
\* Rebuilding grants what was delivered, so to a registered replica.
<1>5. RegisteredOnly'
  <2>1. CASE Rebuild(w) /\ leases' # leases
    <3>1. view[w].log \in Seq(Message) /\ pos[w] \in 1 .. Len(view[w].log)
      BY <2>1 DEF Rebuild, At, InLog, TypeInv, TypeOK, PosOK, View
    <3>2. Here(w) \in Message /\ Here(w).body.replica \in Replica
      BY <3>1, AddresseeType DEF Here
    <3>3. Here(w).body.key \in Key
      BY <3>2 DEF Message, Body
    <3>4. /\ leases' = GrantLease(leases, Here(w).body.replica,
                                 Here(w).body.key, Here(w).body.version)
          /\ Accepted(Here(w))
      BY <2>1 DEF Rebuild, Rebuilt, Accepted
    <3>5. Registered(Here(w).body.replica)
      BY <3>1, <3>4 DEF RegInv, ReadRegistered, Here
    <3> QED BY <1>1, <3>2, <3>3, <3>4, <3>5, GrantFrame DEF RegInv
  <2>2. CASE UNCHANGED leases
    BY <1>1, <2>2, TablesFrame DEF RegInv
  <2> QED BY <2>1, <2>2 DEF Reading, ReplayBegin, ReplayList, ReplayTopology,
                            ReplaySources, RebuildDone
<1>6. ReadRegistered(w)'
  <2>1. CASE ReplayList(w)
    <3>1. view'[w].log = log[view[w].sc] /\ view'[w].replicas = view[w].replicas
      BY <2>1 DEF ReplayList, TypeInv, TypeOK, View
    <3>2. view[w].sc \in Scenario
      BY DEF TypeInv, TypeOK, View
    <3> QED BY <1>1, <3>1, <3>2
            DEF RegInv, LogRegistered, ReadRegistered, Registered, Known
  <2>2. CASE ReplayTopology(w)
    <3>1. view'[w].log = view[w].log /\ view'[w].replicas = replicas
      BY <2>2 DEF ReplayTopology, TypeInv, TypeOK, View
    <3> QED BY <1>1, <3>1 DEF RegInv, ReadRegistered, Registered, Known
  <2>3. CASE ReplayBegin(w) \/ ReplaySources(w) \/ Rebuild(w) \/ RebuildDone(w)
    <3>1. view'[w].log = view[w].log /\ view'[w].replicas = view[w].replicas
      BY <2>3 DEF ReplayBegin, ReplaySources, Rebuild, RebuildDone, TypeInv,
                  TypeOK, View
    <3> QED BY <3>1, ReadFrame
  <2> QED BY <2>1, <2>2, <2>3 DEF Reading
<1> QED BY <1>2, <1>3, <1>4, <1>5, <1>6, RegStep

\* A handler goes on to write for the replica of its message only if the
\* topology it read has it.
LEMMA RegDecide ==
    ASSUME TypeInv, RegInv, RegGrows, UNCHANGED log, RegisteredOnly',
           UNCHANGED replicas, NEW w \in Worker,
           NEW row, NEW mark, NEW next, Decide(w, row, mark, next),
           \/ Refused(mark) /\ next = "mark"
           \/ next = "trace"
           \/ Registered(Here(w).body.replica)
    PROVE  RegInv'
<1>1. /\ UNCHANGED <<view, pos>>
      /\ pc'[w] = next /\ eff'[w] = [row |-> row, mark |-> mark]
      /\ \A u \in Worker \ {w} : pc'[u] = pc[u] /\ eff'[u] = eff[u]
  BY DEF Decide, Goto, TypeInv, TypeOK
<1>2. Here(w)' = Here(w)
  BY <1>1 DEF Here
<1>3. ActsRegistered(w)'
  BY <1>1, <1>2 DEF ActsRegistered, Registered, Refused
<1>4. ReadRegistered(w)'
  BY <1>1, ReadFrame
<1>5. LogRegistered'
  BY RegLogFrame DEF RegInv
<1> QED BY <1>1, <1>3, <1>4, <1>5, RegStep

LEMMA RegHandle ==
    ASSUME TypeInv, RegInv, RegGrows, NEW w \in Worker, Handle(w)
    PROVE  RegInv'
<1> DEFINE m == Here(w).body
<1>1. UNCHANGED <<log, rkv, replicas>>
  BY DEF Handle, RejectUnknown, HandleLease, HandleInvalidate, HandleUpdate,
         HandleAck, AckRelease, AckConfirm, HandleRetry, Ignore, db
<1>2. InRange(w)
  BY HandlingInRange
     DEF Handle, RejectUnknown, HandleLease, HandleInvalidate, HandleUpdate,
         HandleAck, AckRelease, AckConfirm, HandleRetry, Ignore, At, TypeInv,
         PosOK, AtMessage
<1>3. m.replica \in Replica /\ m.key \in Key
  BY <1>2, HereType
<1>4. Known(w, m.replica) => Registered(m.replica)
  BY <1>3 DEF RegInv, ReadRegistered
<1>5. CASE RejectUnknown(w) \/ Ignore(w)
  <2>1. RegisteredOnly'
    BY <1>1, <1>5, TablesFrame DEF RegInv, RejectUnknown, Ignore
  <2> QED BY <1>1, <1>5, <2>1, RegDecide
          DEF RejectUnknown, Ignore, Refuse, Refused
<1>6. CASE HandleInvalidate(w) \/ HandleUpdate(w) \/ HandleAck(w)
  <2>1. UNCHANGED leases /\ Known(w, m.replica)
    BY <1>6 DEF HandleInvalidate, HandleUpdate, HandleAck
  <2>2. RegisteredOnly'
    BY <1>1, <2>1, TablesFrame DEF RegInv
  <2>3. \E row, mark, next : Decide(w, row, mark, next)
    BY <1>6 DEF HandleInvalidate, HandleUpdate, HandleAck, Refuse
  <2> QED BY <1>1, <1>4, <2>1, <2>2, <2>3, RegDecide
<1>7. CASE HandleLease(w) \/ HandleRetry(w)
  <2>1. Known(w, m.replica)
    BY <1>7 DEF HandleLease, HandleRetry
  <2>2. \/ leases' = GrantLease(leases, m.replica, m.key, m.version)
        \/ UNCHANGED leases
    BY <1>7 DEF HandleLease, HandleRetry
  <2>3. RegisteredOnly'
    BY <1>1, <1>3, <1>4, <2>1, <2>2, GrantFrame, TablesFrame DEF RegInv
  <2>4. \E row, mark, next : Decide(w, row, mark, next)
    BY <1>7 DEF HandleLease, HandleRetry
  <2> QED BY <1>1, <1>4, <2>1, <2>3, <2>4, RegDecide
<1>8. CASE AckRelease(w)
  <2>1. Registered(m.replica)
    BY <1>8 DEF AckRelease, At, RegInv, ActsRegistered
  <2>2. RegisteredOnly'
    <3>1. \A r \in Replica, k \in Key :
             leases'[r][k] = leases[r][k] \/ leases'[r][k] = NoLease
      BY <1>8 DEF AckRelease, ReleaseLease, TypeInv, TypeOK
    <3> QED BY <1>1, <3>1 DEF RegInv, RegisteredOnly
  <2>3. /\ UNCHANGED <<view, pos, eff>> /\ pc'[w] = "confirm"
        /\ \A u \in Worker \ {w} : pc'[u] = pc[u]
    BY <1>8 DEF AckRelease, Goto, TypeInv, TypeOK
  <2>4. ActsRegistered(w)' /\ ReadRegistered(w)'
    BY <1>1, <2>1, <2>3, ReadFrame DEF ActsRegistered, Registered, Here
  <2>5. LogRegistered'
    BY <1>1, RegLogFrame DEF RegInv
  <2> QED BY <2>2, <2>3, <2>4, <2>5, RegStep
<1>9. CASE AckConfirm(w)
  <2>1. Registered(m.replica)
    BY <1>9 DEF AckConfirm, At, RegInv, ActsRegistered
  <2>2. RegisteredOnly'
    BY <1>1, <1>9, TablesFrame DEF RegInv, AckConfirm
  <2>3. \E row, mark, next : Decide(w, row, mark, next)
    BY <1>9 DEF AckConfirm
  <2> QED BY <1>1, <2>1, <2>2, <2>3, RegDecide
<1> QED BY <1>5, <1>6, <1>7, <1>8, <1>9 DEF Handle

LEMMA RegRecord ==
    ASSUME TypeInv, LogInv, RegInv, RegGrows, NEW w \in Worker, Record(w)
    PROVE  RegInv'
<1> DEFINE h == Here(w)
<1>1. pc[w] \in AtMessage /\ InRange(w)
  BY DEF Record, WriteRow, Mark, Violate, LogEvent, At, TypeInv, PosOK, AtMessage
<1>2. h.body.replica \in Replica /\ h.body.key \in Key
  BY <1>1, HereType
<1>3. /\ UNCHANGED <<replicas, leases, view>>
      /\ \A u \in Worker \ {w} : /\ pos'[u] = pos[u] /\ pc'[u] = pc[u]
                                 /\ eff'[u] = eff[u]
  BY DEF Record, WriteRow, Mark, Violate, LogEvent, Goto, TypeInv, TypeOK
<1>4. ReadRegistered(w)'
  BY <1>3, ReadFrame
<1>5. CASE WriteRow(w)
  <2>1. Registered(h.body.replica)
    BY <1>5 DEF WriteRow, At, RegInv, ActsRegistered
  <2>2. RegisteredOnly'
    <3>1. \A r \in Replica, k \in Key :
             r # h.body.replica => rkv'[r][k] = rkv[r][k]
      BY <1>5 DEF WriteRow, TypeInv, TypeOK
    <3> QED BY <1>3, <2>1, <3>1 DEF RegInv, RegisteredOnly, Registered
  <2>3. pc'[w] = "mark" /\ UNCHANGED <<log, pos, eff>>
    BY <1>5 DEF WriteRow, Goto, TypeInv, TypeOK
  <2>4. ActsRegistered(w)'
    BY <1>3, <2>1, <2>3 DEF ActsRegistered, Registered, Here
  <2>5. LogRegistered'
    BY <2>3, RegLogFrame DEF RegInv
  <2> QED BY <1>3, <1>4, <2>2, <2>4, <2>5, RegStep
<1>6. CASE Mark(w)
  <2>1. RegisteredOnly'
    BY <1>6, TablesFrame DEF Mark, RegInv
  <2>2. pc'[w] \in {"violate", "trace"}
    BY <1>6 DEF Mark, AfterMark, Goto, TypeInv, TypeOK
  <2>3. ActsRegistered(w)'
    BY <2>2 DEF ActsRegistered
  <2>4. ASSUME NEW s \in Scenario, NEW i \in 1 .. Len(log'[s]),
               Accepted(log'[s][i])
        PROVE  Registered(log'[s][i].body.replica)
    <3>1. i \in 1 .. Len(log[s]) /\ log[s][i] \in Message
      BY <1>6, MarkWrites DEF TypeInv, TypeOK
    <3>2. CASE s = view[w].sc /\ i = pos[w]
      <4>1. log'[s][i] = Marked(log[s][i], h, eff[w].mark)
        BY <1>6, <3>1, <3>2, MarkWrites
      <4>2. /\ log'[s][i].status = eff[w].mark
            /\ log'[s][i].body = log[s][i].body
        BY <3>1, <4>1 DEF Marked, Message
      <4>3. log[s][i].body = h.body
        <5>1. view[w].log \in Seq(Message) /\ pos[w] \in 1 .. Len(view[w].log)
          BY <1>1 DEF InRange, TypeInv, TypeOK, View
        <5> QED BY <3>2, <5>1 DEF LogInv, Copied, Same, Here
      <4>4. Refused(eff[w].mark) \/ Registered(h.body.replica)
        BY <1>6 DEF Mark, At, RegInv, ActsRegistered
      <4> QED BY <2>4, <4>2, <4>3, <4>4 DEF Accepted, Refused
    <3>3. CASE ~(s = view[w].sc /\ i = pos[w])
      <4>1. log'[s][i] = log[s][i]
        BY <1>6, <3>1, <3>3, MarkWrites
      <4> QED BY <2>4, <3>1, <4>1 DEF RegInv, LogRegistered, Accepted
    <3> QED BY <3>2, <3>3
  <2>5. LogRegistered'
    BY <1>3, <2>4 DEF LogRegistered, Accepted, Registered
  <2> QED BY <1>3, <1>4, <2>1, <2>3, <2>5, RegStep
<1>7. CASE Violate(w) \/ LogEvent(w)
  <2>1. RegisteredOnly'
    BY <1>7, TablesFrame DEF Violate, LogEvent, RegInv
  <2>2. pc'[w] \in {"trace", "step"}
    BY <1>7 DEF Violate, LogEvent, Goto, TypeInv, TypeOK
  <2>3. ActsRegistered(w)'
    BY <2>2 DEF ActsRegistered
  <2>4. LogRegistered'
    BY <1>7, RegLogFrame DEF Violate, LogEvent, RegInv
  <2> QED BY <1>3, <1>4, <2>1, <2>3, <2>4, RegStep
<1> QED BY <1>5, <1>6, <1>7 DEF Record

LEMMA RegJudge ==
    ASSUME TypeInv, RegInv, RegGrows, NEW w \in Worker, Judge(w)
    PROVE  RegInv'
<1>1. UNCHANGED <<leases, rkv, log>>
  BY DEF Judge, AdvanceCursor, ScanPair, SettleViolated, SettleScanned, Settle,
         db
<1>2. RegisteredOnly' /\ LogRegistered'
  BY <1>1, TablesFrame, RegLogFrame DEF RegInv
<1>3. CASE SettleViolated(w) \/ SettleScanned(w)
  BY <1>1, <1>2, <1>3, RegReturn DEF SettleViolated, SettleScanned, Settle
<1>4. CASE AdvanceCursor(w) \/ \E r \in Replica, k \in Key : ScanPair(w, r, k)
  <2>1. /\ UNCHANGED <<view, pos, eff>> /\ pc'[w] \in {"scan", "verdict"}
        /\ \A u \in Worker \ {w} : pc'[u] = pc[u]
    <3>1. CASE AdvanceCursor(w)
      BY <3>1 DEF AdvanceCursor, Goto, TypeInv, TypeOK
    <3>2. CASE \E r \in Replica, k \in Key : ScanPair(w, r, k)
      BY <3>2 DEF ScanPair, At
    <3> QED BY <1>4, <3>1, <3>2
  <2>2. ActsRegistered(w)' /\ ReadRegistered(w)'
    BY <2>1, ReadFrame DEF ActsRegistered
  <2> QED BY <1>2, <2>1, <2>2, RegStep
<1> QED BY <1>3, <1>4 DEF Judge

LEMMA RegFailure ==
    ASSUME TypeInv, RegInv, RegGrows, NEW w \in Worker, Failure(w)
    PROVE  RegInv'
<1>1. UNCHANGED <<leases, rkv, log, replicas>>
  BY DEF Failure, Abort, RowFault, MarkLost, ScanFault, db
<1>2. RegisteredOnly' /\ LogRegistered'
  BY <1>1, TablesFrame, RegLogFrame DEF RegInv
<1>3. CASE Abort(w)
  BY <1>1, <1>2, <1>3, RegReturn DEF Abort
<1>4. CASE RowFault(w)
  <2>1. CASE Here(w).body.kind = "ack"
    <3>1. pc[w] \in {"write", "confirm"}
      BY <1>4, <2>1 DEF RowFault, Handling
    <3>2. Registered(Here(w).body.replica)
      BY <3>1 DEF RegInv, ActsRegistered
    <3> QED BY <1>1, <1>2, <1>4, <2>1, <3>2, RegDecide DEF RowFault
  <2>2. CASE Here(w).body.kind # "ack"
    BY <1>1, <1>2, <1>4, <2>2, RegDecide DEF RowFault, Refuse, Refused
  <2> QED BY <2>1, <2>2
<1>5. CASE MarkLost(w)
  <2>1. /\ UNCHANGED <<view, pos, eff>> /\ pc'[w] \in {"violate", "trace"}
        /\ \A u \in Worker \ {w} : pc'[u] = pc[u]
    BY <1>5 DEF MarkLost, AfterMark, Goto, TypeInv, TypeOK
  <2>2. ActsRegistered(w)' /\ ReadRegistered(w)'
    BY <2>1, ReadFrame DEF ActsRegistered
  <2> QED BY <1>2, <2>1, <2>2, RegStep
<1>6. CASE \E r \in Replica, k \in Key : ScanFault(w, r, k)
  <2>1. UNCHANGED <<view, pos, eff, pc>> /\ pc[w] = "scan"
    BY <1>6 DEF ScanFault, At
  <2>2. ActsRegistered(w)' /\ ReadRegistered(w)'
    BY <2>1, ReadFrame DEF ActsRegistered
  <2> QED BY <1>2, <2>1, <2>2, RegStep
<1> QED BY <1>3, <1>4, <1>5, <1>6 DEF Failure

LEMMA RegEnvironment ==
    ASSUME TypeInv, RegInv, Tick \/ Crash \/ UNCHANGED vars
    PROVE  RegInv'
<1>1. CASE Tick
  <2>1. \A r \in Replica, k \in Key :
           leases'[r][k] # NoLease => leases[r][k] # NoLease
    BY <1>1 DEF Tick, Aged, NoLease
  <2>2. RegisteredOnly'
    BY <1>1, <2>1 DEF Tick, db, RegInv, RegisteredOnly
  <2> QED BY <1>1, <2>2
          DEF Tick, db, local, RegInv, LogRegistered, ReadRegistered,
              ActsRegistered, Registered, Known, Here
<1>2. CASE Crash
  <2>1. \A r \in Replica, k \in Key : leases'[r][k] = NoLease
    BY <1>2 DEF Crash
  <2>2. RegisteredOnly'
    BY <1>2, <2>1 DEF Crash, db, RegInv, RegisteredOnly
  <2>3. LogRegistered'
    BY <1>2 DEF Crash, db, RegInv, LogRegistered, Registered
  <2>4. \A w \in Worker : ReadRegistered(w)' /\ ActsRegistered(w)'
    BY <1>2 DEF Crash, ReadRegistered, ActsRegistered, Known, NoView
  <2> QED BY <2>2, <2>3, <2>4 DEF RegInv
<1>3. CASE UNCHANGED vars
  BY <1>3 DEF vars, db, local, RegInv, RegisteredOnly, LogRegistered,
              ReadRegistered, ActsRegistered, Registered, Known, Here
<1> QED BY <1>1, <1>2, <1>3

LEMMA RegNext ==
    TypeInv /\ LogInv /\ DraftPending /\ RegInv /\ [Next]_vars => RegInv'
<1> SUFFICES ASSUME TypeInv, LogInv, DraftPending, RegInv, [Next]_vars
             PROVE  RegInv'
  OBVIOUS
<1>1. RegGrows
  BY ReplicaStaysRegistered
<1>2. ASSUME NEW w \in Worker, Request(w) \/ ReplayStep(w) \/ Failure(w)
      PROVE  RegInv'
  BY <1>1, <1>2, RegRequest, RegReading, RegHandle, RegRecord, RegJudge,
     RegFailure DEF ReplayStep
<1> QED BY <1>2, RegEnvironment DEF Next

\* No lease and no observed version of a replica that is not registered,
\* whatever replays overlap with registrations and whatever they rebuild.
THEOREM OnlyRegistered == Spec => []RegisteredOnly
<1>1. Init => DraftPending /\ RegInv
  BY DEF Init, DraftPending, RegInv, RegisteredOnly, LogRegistered,
         ReadRegistered, ActsRegistered, Known, NoView, NoRow, NoLease, Absent
<1>2. RegInv => RegisteredOnly
  BY DEF RegInv
<1>3. TypeInv /\ DraftPending /\ [Next]_vars => DraftPending'
  BY DraftStep
<1> QED BY <1>1, <1>2, <1>3, LogInvariant, RegNext, PTL DEF Spec

=============================================================================
