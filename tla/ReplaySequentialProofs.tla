----------------------- MODULE ReplaySequentialProofs -----------------------
(***************************************************************************)
(* Requests one after the other: what ReplayService guarantees with a      *)
(* single worker, through any number of crashes and failed statements.     *)
(* Nobody else then writes between what a request reads and what it does,  *)
(* so what it has read is still so; the invariants say of each statement   *)
(* what of it the statement relies on.                                     *)
(***************************************************************************)
EXTENDS ReplayDecisionProofs, ReplayReports

USE ProtocolAssumption, ServiceAssumption

OneWorker == \A a, b \in Worker : a = b

-----------------------------------------------------------------------------
(* The scenario of a replay: its status, its cursor, its log *)

Reads  == {"list", "topology", "sources", "rebuild", "step"} \union AtMessage
Judges == {"scan", "verdict"}

\* A check that a request made still holds; a replay goes on from the stored
\* cursor, and once it has the log it has all of it.
Stands(w) ==
    LET s == view[w].sc IN
    /\ pc[w] = "insert" => status[draft[w].sc] = "editing"
    /\ pc[w] = "commit" => offer[w][2] > source[offer[w][1]]
    /\ pc[w] = "begin" => status[s] \notin Final
    /\ pc[w] \in Reads \union Judges => status[s] = "replaying"
    /\ pc[w] \in Reads \union {"begin"} => view[w].start = cursor[s]
    /\ pc[w] \in (Reads \ {"list"}) \union Judges => Len(view[w].log) = Len(log[s])
    /\ pc[w] \in Judges => cursor[s] = NewCursor(w) /\ NewCursor(w) = Len(log[s])

StandsInv == SettledCoversLog /\ \A w \in Worker : Stands(w)

LEMMA StandsAlone ==
    ASSUME OneWorker, NEW w \in Worker, SettledCoversLog', Stands(w)'
    PROVE  StandsInv'
<1>1. \A u \in Worker : u = w
  BY DEF OneWorker
<1> QED BY <1>1 DEF StandsInv

\* A request that has returned relies on nothing.
LEMMA IdleStands ==
    ASSUME NEW w \in Worker, pc'[w] = "idle"
    PROVE  Stands(w)'
BY DEF Stands, Reads, Judges, AtMessage

\* A step of a replay at its messages, which writes neither status nor cursor.
LEMMA StandsFrame ==
    ASSUME TypeInv, StandsInv, OneWorker, NEW w \in Worker,
           pc[w] \in Reads \ {"list"}, pc'[w] \in Reads \ {"list"},
           UNCHANGED <<status, cursor>>,
           view'[w].sc = view[w].sc, view'[w].start = view[w].start,
           view'[w].log = view[w].log,
           \A s \in Scenario : Len(log'[s]) = Len(log[s])
    PROVE  StandsInv'
<1>1. view[w].sc \in Scenario
  BY DEF TypeInv, TypeOK, View
<1>2. Stands(w)
  BY DEF StandsInv
<1>3. Stands(w)'
  BY <1>1, <1>2 DEF Stands, Reads, Judges, AtMessage
<1>4. SettledCoversLog'
  BY DEF StandsInv, SettledCoversLog
<1> QED BY <1>3, <1>4, StandsAlone

LEMMA StandsRequest ==
    ASSUME TypeInv, StandsInv, OneWorker, NEW w \in Worker, Request(w)
    PROVE  StandsInv'
<1> USE DEF TypeInv, TypeOK
<1>1. CASE AppendInsert(w)
  <2> DEFINE d == draft[w].sc
  <2>1. d \in Scenario /\ status[d] = "editing"
    BY <1>1 DEF AppendInsert, At, Draft, StandsInv, Stands
  <2>2. UNCHANGED <<status, cursor>> /\ pc'[w] = "idle"
    BY <1>1 DEF AppendInsert, Return, Goto
  <2>3. \A s \in Scenario \ {d} : log'[s] = log[s]
    BY <1>1 DEF AppendInsert
  <2>4. SettledCoversLog'
    BY <2>1, <2>2, <2>3 DEF StandsInv, SettledCoversLog, Settled, Final
  <2> QED BY <2>2, <2>4, IdleStands, StandsAlone
<1>2. CASE Request(w) /\ ~AppendInsert(w)
  <2>1. SettledCoversLog'
    BY <1>2 DEF Request, AppendCheck, ReplayGet, AppendRefused, SourceRead,
                SourceWrite, RegisterReplica, SetReplicaStatus, db,
                StandsInv, SettledCoversLog
  <2>2. Stands(w)'
    <3>1. ASSUME NEW s \in Scenario, AppendCheck(w, s)
          PROVE  Stands(w)'
      <4>1. pc'[w] = "insert" /\ draft'[w].sc = s /\ status'[s] = "editing"
        BY <3>1 DEF AppendCheck, Goto, Editable, db, Draft
      <4> QED BY <4>1 DEF Stands, Reads, Judges, AtMessage
    <3>2. ASSUME NEW s \in Scenario, ReplayGet(w, s)
          PROVE  Stands(w)'
      <4>1. /\ pc'[w] = "begin" /\ view'[w].sc = s /\ view'[w].start = cursor'[s]
            /\ status'[s] \notin Final
        BY <3>2 DEF ReplayGet, Goto, Replayable, db, View
      <4> QED BY <4>1 DEF Stands, Reads, Judges, AtMessage
    <3>3. ASSUME NEW k \in Key, NEW v \in SourceVersion, SourceRead(w, k, v)
          PROVE  Stands(w)'
      <4>1. /\ pc'[w] = "commit" /\ offer'[w] = <<k, v>>
            /\ v > source'[k]
        BY <3>3 DEF SourceRead, Goto, db
      <4> QED BY <4>1 DEF Stands, Reads, Judges, AtMessage
    <3>4. CASE AppendRefused(w) \/ SourceWrite(w)
      BY <3>4, IdleStands DEF AppendRefused, SourceWrite, Return, Goto
    <3>5. CASE \/ \E r \in Replica : RegisterReplica(w, r)
               \/ \E r \in Replica, to \in {"healthy", "isolated"} :
                     SetReplicaStatus(w, r, to)
      BY <3>5, IdleStands DEF RegisterReplica, SetReplicaStatus, At, local
    <3> QED BY <1>2, <3>1, <3>2, <3>3, <3>4, <3>5 DEF Request
  <2> QED BY <2>1, <2>2, StandsAlone
<1> QED BY <1>1, <1>2

LEMMA StandsReading ==
    ASSUME TypeInv, StandsInv, OneWorker, NEW w \in Worker, Reading(w)
    PROVE  StandsInv'
<1> DEFINE s == view[w].sc
<1>1. s \in Scenario /\ Stands(w)
  BY DEF TypeInv, TypeOK, View, StandsInv
<1>2. CASE ReplayBegin(w)
  <2>1. /\ status' = [status EXCEPT ![s] = "replaying"]
        /\ UNCHANGED <<cursor, log, view>> /\ pc'[w] = "list"
    BY <1>1, <1>2 DEF ReplayBegin, At, Goto, Stands, TypeInv, TypeOK
  <2>2. Stands(w)'
    BY <1>1, <1>2, <2>1 DEF ReplayBegin, At, Stands, Reads, Judges, AtMessage,
                            TypeInv, TypeOK
  <2>3. SettledCoversLog'
    BY <1>1, <2>1 DEF StandsInv, SettledCoversLog, Settled, Final, TypeInv, TypeOK
  <2> QED BY <2>2, <2>3, StandsAlone
<1>3. CASE ReplayList(w)
  <2>1. /\ UNCHANGED <<status, cursor, log>> /\ pc[w] = "list"
        /\ pc'[w] = "topology"
        /\ view'[w].sc = s /\ view'[w].start = view[w].start
        /\ view'[w].log = log[s]
    BY <1>3 DEF ReplayList, At, Goto, db, TypeInv, TypeOK, View
  <2>2. Stands(w)'
    BY <1>1, <2>1 DEF Stands, Reads, Judges, AtMessage
  <2>3. SettledCoversLog'
    BY <2>1 DEF StandsInv, SettledCoversLog
  <2> QED BY <2>2, <2>3, StandsAlone
<1>4. ASSUME ReplayTopology(w) \/ ReplaySources(w)
      PROVE  StandsInv'
  <2>1. /\ UNCHANGED <<status, cursor, log>>
        /\ pc[w] \in {"topology", "sources"} /\ pc'[w] \in {"sources", "rebuild"}
    BY <1>4 DEF ReplayTopology, ReplaySources, At, Goto, db, TypeInv, TypeOK
  <2>2. /\ view'[w].sc = view[w].sc /\ view'[w].start = view[w].start
        /\ view'[w].log = view[w].log
    <3>1. CASE ReplayTopology(w)
      BY <3>1 DEF ReplayTopology, TypeInv, TypeOK, View
    <3>2. CASE ReplaySources(w)
      BY <3>2 DEF ReplaySources, TypeInv, TypeOK, View
    <3> QED BY <1>4, <3>1, <3>2
  <2> QED BY <2>1, <2>2, StandsFrame DEF Reads
<1>5. CASE Rebuild(w) \/ RebuildDone(w)
  <2>1. /\ UNCHANGED <<status, cursor, log, view>>
        /\ pc[w] = "rebuild" /\ pc'[w] \in {"rebuild", "step"}
    BY <1>5 DEF Rebuild, RebuildDone, At, Goto, db, TypeInv, TypeOK
  <2> QED BY <2>1, StandsFrame DEF Reads
<1> QED BY <1>2, <1>3, <1>4, <1>5 DEF Reading

\* Where a handler, a record or a swallowed error takes a replay.
LEMMA MessageSteps ==
    ASSUME TypeInv, NEW w \in Worker,
           Handle(w) \/ Record(w) \/ RowFault(w) \/ MarkLost(w)
    PROVE  /\ pc[w] \in AtMessage \union {"step"}
           /\ pc'[w] \in AtMessage \union {"step"}
           /\ UNCHANGED <<status, cursor, view>>
           /\ \A s \in Scenario : Len(log'[s]) = Len(log[s])
<1> USE DEF At, Goto, AtMessage
<1>1. CASE Handle(w)
  BY <1>1 DEF Handle, RejectUnknown, HandleLease, HandleInvalidate,
              HandleUpdate, HandleAck, AckRelease, AckConfirm, HandleRetry,
              Ignore, Refuse, Decide, Handling, db, TypeInv, TypeOK
<1>2. CASE WriteRow(w) \/ Violate(w) \/ LogEvent(w)
  BY <1>2 DEF WriteRow, Violate, LogEvent, TypeInv, TypeOK
<1>3. CASE Mark(w)
  BY <1>3, MarkWrites DEF Mark, AfterMark, TypeInv, TypeOK
<1>4. CASE RowFault(w) \/ MarkLost(w)
  BY <1>4 DEF RowFault, MarkLost, AfterMark, Refuse, Decide, Handling, db,
              TypeInv, TypeOK
<1> QED BY <1>1, <1>2, <1>3, <1>4 DEF Record

LEMMA StandsJudge ==
    ASSUME TypeInv, LogInv, StandsInv, OneWorker, NEW w \in Worker, Judge(w)
    PROVE  StandsInv'
<1> DEFINE s == view[w].sc
<1>1. s \in Scenario /\ Stands(w)
  BY DEF TypeInv, TypeOK, View, StandsInv
<1>2. CASE AdvanceCursor(w)
  <2>1. /\ status' = [status EXCEPT ![s] = "replaying"]
        /\ cursor' = [cursor EXCEPT ![s] = NewCursor(w)]
        /\ UNCHANGED <<log, view, pos>> /\ pc[w] = "step" /\ pc'[w] \in Judges
    BY <1>2 DEF AdvanceCursor, At, Goto, Judges, TypeInv, TypeOK
  <2>2. NewCursor(w) = Len(log[s])
    <3>1. /\ pos[w] \in Nat /\ view[w].log \in Seq(Message)
          /\ log[s] \in Seq(Message)
      BY <1>1 DEF TypeInv, TypeOK, View
    <3>2. Len(view[w].log) = Len(log[s])
      BY <1>1, <2>1 DEF Stands, Reads
    <3>3. pos[w] > Len(view[w].log) /\ pos[w] <= Len(log[s]) + 1
      BY <1>2, <3>1 DEF AdvanceCursor, InLog, LogInv, Within
    <3>4. NewCursor(w) = pos[w] - 1
      BY <2>1, NewCursorType
    <3> QED BY <3>1, <3>2, <3>3, <3>4
  <2>3. NewCursor(w)' = NewCursor(w)
    BY <2>1 DEF NewCursor
  <2>4. status'[s] = "replaying" /\ cursor'[s] = NewCursor(w)
    BY <1>1, <2>1 DEF TypeInv, TypeOK
  <2>5. Len(view[w].log) = Len(log[s])
    BY <1>1, <2>1 DEF Stands, Reads
  <2>6. Stands(w)'
    BY <2>1, <2>2, <2>3, <2>4, <2>5 DEF Stands, Reads, Judges, AtMessage
  <2>7. SettledCoversLog'
    BY <1>1, <2>1 DEF StandsInv, SettledCoversLog, Settled, Final, TypeInv, TypeOK
  <2> QED BY <2>6, <2>7, StandsAlone
<1>3. ASSUME NEW r \in Replica, NEW k \in Key, ScanPair(w, r, k)
      PROVE  StandsInv'
  <2>1. UNCHANGED <<status, cursor, log, source, draft, offer, view, pos, pc>>
    BY <1>3 DEF ScanPair, db, request
  <2> QED BY <2>1 DEF StandsInv, Stands, SettledCoversLog, NewCursor
<1>4. ASSUME NEW v, Settle(w, v), pc[w] \in Judges
      PROVE  StandsInv'
  <2>1. /\ \A t \in Scenario \ {s} : status'[t] = status[t] /\ cursor'[t] = cursor[t]
        /\ cursor'[s] = NewCursor(w) /\ UNCHANGED log /\ pc'[w] = "idle"
    BY <1>1, <1>4 DEF Settle, Return, Goto, TypeInv, TypeOK
  <2>2. cursor'[s] = Len(log[s])
    BY <1>1, <1>4, <2>1 DEF Stands
  <2>3. SettledCoversLog'
    BY <2>1, <2>2 DEF StandsInv, SettledCoversLog
  <2> QED BY <2>1, <2>3, IdleStands, StandsAlone
<1>5. CASE SettleViolated(w) \/ SettleScanned(w)
  BY <1>4, <1>5 DEF SettleViolated, SettleScanned, At, Judges
<1> QED BY <1>2, <1>3, <1>5 DEF Judge

LEMMA StandsNext ==
    ASSUME OneWorker
    PROVE  TypeInv /\ LogInv /\ StandsInv /\ [Next]_vars => StandsInv'
<1> SUFFICES ASSUME TypeInv, LogInv, StandsInv, [Next]_vars PROVE StandsInv'
  OBVIOUS
<1>1. CASE UNCHANGED vars \/ Tick
  BY <1>1 DEF vars, Tick, db, local, request, StandsInv, Stands,
              SettledCoversLog, NewCursor
<1>2. CASE Crash
  BY <1>2, IdleStands DEF Crash, db, StandsInv, SettledCoversLog
<1>3. ASSUME NEW w \in Worker, Handle(w) \/ Record(w) \/ RowFault(w) \/ MarkLost(w)
      PROVE  StandsInv'
  BY <1>3, MessageSteps, StandsFrame DEF Reads, AtMessage
<1>4. ASSUME NEW w \in Worker, Abort(w)
      PROVE  StandsInv'
  <2>1. UNCHANGED <<status, cursor, log>> /\ pc'[w] = "idle"
    BY <1>4 DEF Abort, Return, Goto, db, TypeInv, TypeOK
  <2>2. SettledCoversLog'
    BY <2>1 DEF StandsInv, SettledCoversLog
  <2> QED BY <2>1, <2>2, IdleStands, StandsAlone
<1>5. ASSUME NEW w \in Worker, NEW r \in Replica, NEW k \in Key, ScanFault(w, r, k)
      PROVE  StandsInv'
  BY <1>5 DEF ScanFault, db, request, StandsInv, Stands, SettledCoversLog,
              NewCursor
<1>6. ASSUME NEW w \in Worker, Request(w) \/ Reading(w) \/ Judge(w)
      PROVE  StandsInv'
  BY <1>6, StandsRequest, StandsReading, StandsJudge
<1> QED BY <1>1, <1>2, <1>3, <1>4, <1>5, <1>6 DEF Next, ReplayStep, Failure

LEMMA StandsInvariant ==
    ASSUME OneWorker
    PROVE  Spec => [](TypeInv /\ LogInv /\ StandsInv)
<1>1. Init => StandsInv
  BY DEF Init, StandsInv, Stands, SettledCoversLog, Settled, Final, Reads,
         Judges, AtMessage
<1> QED BY <1>1, StandsNext, LogInvariant, PTL DEF Spec

\* Requests one after the other, a verdict covers the whole log, through any
\* crash between the cursor and the verdict.
THEOREM SettledAlwaysCoversLog ==
    ASSUME OneWorker
    PROVE  Spec => []SettledCoversLog
<1>1. StandsInv => SettledCoversLog
  BY DEF StandsInv
<1> QED BY <1>1, StandsInvariant, PTL

-----------------------------------------------------------------------------
(* What a step never does: it changes nothing of a scenario with a final   *)
(* verdict, and sets neither a cursor nor a source back.                   *)

\* The statements that write something of a scenario.
LEMMA ScenarioWriters ==
    ASSUME [Next]_vars
    PROVE  \/ UNCHANGED <<status, cursor, log, violations, trace>>
           \/ \E w \in Worker :
                 \/ AppendInsert(w) \/ ReplayBegin(w) \/ Mark(w) \/ Violate(w)
                 \/ LogEvent(w) \/ AdvanceCursor(w) \/ SettleViolated(w)
                 \/ SettleScanned(w)
<1> DEFINE Kept == UNCHANGED <<status, cursor, log, violations, trace>>
<1>1. ASSUME NEW w \in Worker, Request(w)
      PROVE  Kept \/ AppendInsert(w)
  BY <1>1 DEF Request, AppendCheck, ReplayGet, AppendRefused, SourceRead,
              SourceWrite, RegisterReplica, SetReplicaStatus, db
<1>2. ASSUME NEW w \in Worker, Reading(w)
      PROVE  Kept \/ ReplayBegin(w)
  BY <1>2 DEF Reading, ReplayList, ReplayTopology, ReplaySources, Rebuild,
              RebuildDone, db
<1>3. ASSUME NEW w \in Worker, Handle(w)
      PROVE  Kept
  BY <1>3 DEF Handle, RejectUnknown, HandleLease, HandleInvalidate,
              HandleUpdate, HandleAck, AckRelease, AckConfirm, HandleRetry,
              Ignore, db
<1>4. ASSUME NEW w \in Worker, Record(w)
      PROVE  Kept \/ Mark(w) \/ Violate(w) \/ LogEvent(w)
  BY <1>4 DEF Record, WriteRow
<1>5. ASSUME NEW w \in Worker, Judge(w)
      PROVE  Kept \/ AdvanceCursor(w) \/ SettleViolated(w) \/ SettleScanned(w)
  BY <1>5 DEF Judge, ScanPair, db
<1>6. ASSUME NEW w \in Worker, Failure(w)
      PROVE  Kept
  BY <1>6 DEF Failure, Abort, RowFault, MarkLost, ScanFault, db
<1>7. CASE Tick \/ Crash \/ UNCHANGED vars
  BY <1>7 DEF Tick, Crash, vars, db
<1> QED BY <1>1, <1>2, <1>3, <1>4, <1>5, <1>6, <1>7 DEF Next, ReplayStep

LEMMA FinalStep ==
    ASSUME TypeInv, StandsInv, [Next]_vars, NEW s \in Scenario,
           status[s] \in Final
    PROVE  /\ status'[s] = status[s] /\ cursor'[s] = cursor[s]
           /\ log'[s] = log[s]
           /\ violations'[s] = violations[s] /\ trace'[s] = trace[s]
<1> USE DEF TypeInv, TypeOK
<1>1. ASSUME NEW w \in Worker, AppendInsert(w)
      PROVE  draft[w].sc \in Scenario /\ draft[w].sc # s
  BY <1>1 DEF AppendInsert, At, Draft, StandsInv, Stands, Final
<1>2. ASSUME NEW w \in Worker, pc[w] \in {"begin"} \union Reads \union Judges
      PROVE  view[w].sc \in Scenario /\ view[w].sc # s
  BY <1>2 DEF View, StandsInv, Stands, Final, Reads, Judges
<1>3. CASE \E w \in Worker : AppendInsert(w)
  BY <1>1, <1>3 DEF AppendInsert
<1>4. CASE \E w \in Worker : ReplayBegin(w) \/ Mark(w) \/ Violate(w) \/ LogEvent(w)
  BY <1>2, <1>4 DEF ReplayBegin, Mark, Violate, AppendViolation, LogEvent, At,
                    Reads, AtMessage
<1>5. CASE \E w \in Worker :
              AdvanceCursor(w) \/ SettleViolated(w) \/ SettleScanned(w)
  BY <1>2, <1>5 DEF AdvanceCursor, SettleViolated, SettleScanned, Settle, At,
                    Reads, Judges
<1> QED BY <1>3, <1>4, <1>5, ScenarioWriters

LEMMA CursorStep ==
    ASSUME TypeInv, StandsInv, [Next]_vars, NEW s \in Scenario
    PROVE  cursor'[s] >= cursor[s]
<1> USE DEF TypeInv, TypeOK
<1>1. CASE UNCHANGED cursor
  BY <1>1
<1>2. ASSUME NEW w \in Worker, ReplayBegin(w)
      PROVE  cursor'[s] >= cursor[s]
  <2>1. view[w].start = cursor[view[w].sc]
    BY <1>2 DEF ReplayBegin, At, StandsInv, Stands
  <2> QED BY <1>2, <2>1 DEF ReplayBegin
<1>3. ASSUME NEW w \in Worker, AdvanceCursor(w)
      PROVE  cursor'[s] >= cursor[s]
  <2>1. view[w].start = cursor[view[w].sc] /\ view[w].sc \in Scenario
    BY <1>3 DEF AdvanceCursor, At, StandsInv, Stands, Reads, View
  <2>2. NewCursor(w) >= view[w].start
    <3>1. pos[w] \in Nat /\ view[w].start \in Nat
      BY DEF View
    <3>2. pos[w] >= view[w].start + 1
      BY <1>3 DEF AdvanceCursor, At, PosOK
    <3> QED BY <3>1, <3>2 DEF NewCursor
  <2>3. cursor' = [cursor EXCEPT ![view[w].sc] = NewCursor(w)]
    BY <1>3 DEF AdvanceCursor
  <2> QED BY <2>1, <2>2, <2>3
<1>4. ASSUME NEW w \in Worker, SettleViolated(w) \/ SettleScanned(w)
      PROVE  cursor'[s] >= cursor[s]
  <2>1. view[w].sc \in Scenario /\ cursor[view[w].sc] = NewCursor(w)
    BY <1>4 DEF SettleViolated, SettleScanned, At, StandsInv, Stands, Judges, View
  <2>2. cursor' = [cursor EXCEPT ![view[w].sc] = NewCursor(w)]
    BY <1>4 DEF SettleViolated, SettleScanned, Settle
  <2>3. cursor'[s] = cursor[s]
    BY <2>1, <2>2
  <2> QED BY <2>3
<1>5. CASE \E w \in Worker :
              AppendInsert(w) \/ Mark(w) \/ Violate(w) \/ LogEvent(w)
  BY <1>5 DEF AppendInsert, Mark, Violate, LogEvent
<1> QED BY <1>1, <1>2, <1>3, <1>4, <1>5, ScenarioWriters

LEMMA SourceStep ==
    ASSUME TypeInv, StandsInv, [Next]_vars, NEW k \in Key
    PROVE  source'[k] >= source[k]
<1> USE DEF TypeInv, TypeOK, Sources
<1>1. CASE UNCHANGED source
  BY <1>1
<1>2. ASSUME NEW w \in Worker, SourceWrite(w)
      PROVE  source'[k] >= source[k]
  <2>1. /\ offer[w] \in Key \X Nat /\ offer[w][2] > source[offer[w][1]]
        /\ source' = [source EXCEPT ![offer[w][1]] = offer[w][2]]
    BY <1>2 DEF SourceWrite, At, FormOK, StandsInv, Stands
  <2> QED BY <2>1
<1>3. ASSUME NEW w \in Worker, Request(w)
      PROVE  UNCHANGED source \/ SourceWrite(w)
  BY <1>3 DEF Request, AppendCheck, ReplayGet, AppendInsert, AppendRefused,
              SourceRead, RegisterReplica, SetReplicaStatus, db
<1>4. ASSUME NEW w \in Worker, ReplayStep(w)
      PROVE  UNCHANGED source
  <2>1. CASE Reading(w)
    BY <2>1 DEF Reading, ReplayBegin, ReplayList, ReplayTopology,
                ReplaySources, Rebuild, RebuildDone, db
  <2>2. CASE Handle(w)
    BY <2>2 DEF Handle, RejectUnknown, HandleLease, HandleInvalidate,
                HandleUpdate, HandleAck, AckRelease, AckConfirm, HandleRetry,
                Ignore, db
  <2>3. CASE Record(w) \/ Judge(w)
    BY <2>3 DEF Record, WriteRow, Mark, Violate, LogEvent, Judge,
                AdvanceCursor, ScanPair, SettleViolated, SettleScanned,
                Settle, db
  <2> QED BY <1>4, <2>1, <2>2, <2>3 DEF ReplayStep
<1>5. ASSUME NEW w \in Worker, Failure(w)
      PROVE  UNCHANGED source
  BY <1>5 DEF Failure, Abort, RowFault, MarkLost, ScanFault, db
<1>6. CASE Tick \/ Crash \/ UNCHANGED vars
  BY <1>6 DEF Tick, Crash, vars, db
<1> QED BY <1>1, <1>2, <1>3, <1>4, <1>5, <1>6 DEF Next

\* Requests one after the other, nothing a replay would change of a converged
\* or violated scenario changes again, and it takes no more messages.
THEOREM FinalStaysFinal ==
    ASSUME OneWorker
    PROVE  Spec => FinalIsFinal
<1>1. TypeInv /\ StandsInv /\ [Next]_vars =>
         [\A s \in Scenario :
             status[s] \in Final =>
                /\ status'[s] = status[s] /\ cursor'[s] = cursor[s]
                /\ log'[s] = log[s]
                /\ violations'[s] = violations[s] /\ trace'[s] = trace[s]]_vars
  BY FinalStep
<1> QED BY <1>1, StandsInvariant, PTL DEF Spec, FinalIsFinal

\* Requests one after the other, a replay resumes where the last one saved its
\* cursor or later, also after a crash.
THEOREM CursorNeverGoesBack ==
    ASSUME OneWorker
    PROVE  Spec => CursorNeverBack
<1>1. TypeInv /\ StandsInv /\ [Next]_vars =>
         [\A s \in Scenario : cursor'[s] >= cursor[s]]_vars
  BY CursorStep
<1> QED BY <1>1, StandsInvariant, PTL DEF Spec, CursorNeverBack

\* Requests one after the other, a source version only increases: that it can
\* go back takes two commits that overlap.
THEOREM SourceNeverGoesBack ==
    ASSUME OneWorker
    PROVE  Spec => SourceNeverBack
<1>1. TypeInv /\ StandsInv /\ [Next]_vars =>
         [\A k \in Key : source'[k] >= source[k]]_vars
  BY SourceStep
<1> QED BY <1>1, StandsInvariant, PTL DEF Spec, SourceNeverBack

\* Requests one after the other, a scenario that has left "editing" takes no
\* more messages: that it does when they overlap is the overlap's doing alone.
THEOREM AppendsOnlyWhileEditing ==
    ASSUME OneWorker
    PROVE  Spec => AppendOnlyWhileEditing
<1>1. ASSUME TypeInv, StandsInv, [Next]_vars, NEW s \in Scenario,
             Len(log'[s]) > Len(log[s])
      PROVE  status[s] = "editing"
  <2>1. Len(log[s]) \in Nat
    BY <1>1 DEF TypeInv, TypeOK
  <2>2. log'[s] # log[s]
    BY <1>1, <2>1
  <2>3. ASSUME NEW w \in Worker, Mark(w)
        PROVE  FALSE
    BY <1>1, <2>1, <2>3, MarkWrites
  <2>4. PICK w \in Worker : AppendInsert(w)
    BY <1>1, <2>2, <2>3, LogWriters
  <2>5. draft[w].sc = s
    BY <1>1, <2>2, <2>4 DEF AppendInsert, TypeInv, TypeOK
  <2> QED BY <1>1, <2>4, <2>5 DEF AppendInsert, At, StandsInv, Stands
<1>2. TypeInv /\ StandsInv /\ [Next]_vars =>
         [\A s \in Scenario : Len(log'[s]) > Len(log[s]) => status[s] = "editing"]_vars
  BY <1>1
<1> QED BY <1>2, StandsInvariant, PTL DEF Spec, AppendOnlyWhileEditing

-----------------------------------------------------------------------------
(* What a replay is about to write, the contract allows: nobody has moved  *)
(* the row since the handler read it.                                      *)

Acting == {"release", "confirm", "write"}

Acts(w) ==
    LET m == Here(w).body IN
    /\ pc[w] \in {"release", "confirm"} => m.kind = "ack"
    /\ pc[w] = "write" => Promise!Allows(m, m.replica, m.key,
                                         rkv[m.replica][m.key], eff[w].row)

ActsInv == \A w \in Worker : Acts(w)

LEMMA ActsAlone ==
    ASSUME OneWorker, NEW w \in Worker, Acts(w)'
    PROVE  ActsInv'
<1>1. \A u \in Worker : u = w
  BY DEF OneWorker
<1> QED BY <1>1 DEF ActsInv

LEMMA RestActs ==
    ASSUME OneWorker, NEW w \in Worker, pc'[w] \notin Acting
    PROVE  ActsInv'
<1>1. Acts(w)'
  BY DEF Acts, Acting
<1> QED BY <1>1, ActsAlone

LEMMA ActsHandle ==
    ASSUME TypeInv, ActsInv, OneWorker, NEW w \in Worker, Handle(w)
    PROVE  ActsInv'
<1> DEFINE m == Here(w).body
           cur == rkv[m.replica][m.key]
<1> USE DEF Goto, TypeInv, TypeOK
<1>1. UNCHANGED <<rkv, view, pos>> /\ Here(w)' = Here(w)
  BY DEF Handle, RejectUnknown, HandleLease, HandleInvalidate, HandleUpdate,
         HandleAck, AckRelease, AckConfirm, HandleRetry, Ignore, Refuse, Decide,
         db, Here
<1>2. InRange(w)
  BY HandlingInRange
     DEF Handle, RejectUnknown, HandleLease, HandleInvalidate, HandleUpdate,
         HandleAck, AckRelease, AckConfirm, HandleRetry, Ignore, At, PosOK,
         AtMessage
<1>3. cur \in Row /\ m.version \in Int
  BY <1>2, HereType
<1>4. CASE pc'[w] \notin Acting
  BY <1>4, RestActs
<1>5. CASE HandleInvalidate(w) /\ pc'[w] \in Acting
  <2>1. /\ pc'[w] = "write" /\ m.kind = "invalidate"
        /\ InvalidateOK(cur, m.version)
        /\ eff'[w].row = Invalidated(cur, m.version)
    BY <1>5 DEF HandleInvalidate, Handling, Refuse, Decide, Acting
  <2>2. Promise!Allows(m, m.replica, m.key, cur, Invalidated(cur, m.version))
    BY <1>3, <2>1 DEF Promise!Allows, Promise!Absent, InvalidateOK, Invalidated,
                      Absent
  <2>3. Acts(w)'
    BY <1>1, <2>1, <2>2 DEF Acts
  <2> QED BY <2>3, ActsAlone
<1>6. CASE HandleUpdate(w) /\ pc'[w] \in Acting
  <2>1. /\ pc'[w] = "write" /\ m.kind = "update"
        /\ ObserveOK(cur, m.version) /\ Observed(cur, m.version) # cur
        /\ eff'[w].row = Observed(cur, m.version)
    BY <1>6 DEF HandleUpdate, Handling, Refuse, Decide, Acting
  <2>2. Promise!Allows(m, m.replica, m.key, cur, Observed(cur, m.version))
    BY <1>3, <2>1 DEF Promise!Allows, Promise!Absent, ObserveOK, Observed, Absent
  <2>3. Acts(w)'
    BY <1>1, <2>1, <2>2 DEF Acts
  <2> QED BY <2>3, ActsAlone
<1>7. CASE HandleAck(w) /\ pc'[w] \in Acting
  <2>1. pc'[w] = "release" /\ m.kind = "ack"
    BY <1>7 DEF HandleAck, Handling, Refuse, Decide, Acting
  <2>2. Acts(w)'
    BY <1>1, <2>1 DEF Acts
  <2> QED BY <2>2, ActsAlone
<1>8. CASE AckRelease(w)
  <2>1. pc'[w] = "confirm" /\ m.kind = "ack"
    BY <1>8 DEF AckRelease, At, ActsInv, Acts
  <2>2. Acts(w)'
    BY <1>1, <2>1 DEF Acts
  <2> QED BY <2>2, ActsAlone
<1>9. CASE AckConfirm(w) /\ pc'[w] \in Acting
  <2>1. /\ pc'[w] = "write" /\ m.kind = "ack" /\ ~Absent(cur)
        /\ eff'[w].row = Confirmed(cur)
    BY <1>9 DEF AckConfirm, At, Decide, Acting, ActsInv, Acts
  <2>2. Promise!Allows(m, m.replica, m.key, cur, Confirmed(cur))
    BY <2>1 DEF Promise!Allows, Promise!Absent, Promise!Confirmed, Confirmed, Absent
  <2>3. Acts(w)'
    BY <1>1, <2>1, <2>2 DEF Acts
  <2> QED BY <2>3, ActsAlone
<1>10. CASE RejectUnknown(w) \/ HandleLease(w) \/ HandleRetry(w) \/ Ignore(w)
  BY <1>4, <1>10 DEF RejectUnknown, HandleLease, HandleRetry, Ignore, Refuse,
                     Decide, Acting
<1> QED BY <1>4, <1>5, <1>6, <1>7, <1>8, <1>9, <1>10 DEF Handle

LEMMA ActsNext ==
    ASSUME OneWorker
    PROVE  TypeInv /\ ActsInv /\ [Next]_vars => ActsInv'
<1> SUFFICES ASSUME TypeInv, ActsInv, [Next]_vars PROVE ActsInv'
  OBVIOUS
<1> USE DEF TypeInv, TypeOK
<1>1. CASE UNCHANGED vars \/ Tick
  BY <1>1 DEF vars, Tick, db, local, ActsInv, Acts, Here
<1>2. CASE Crash
  BY <1>2 DEF Crash, ActsInv, Acts
<1>3. ASSUME NEW w \in Worker, Request(w)
      PROVE  ActsInv'
  <2>1. pc'[w] \in {"idle", "insert", "commit", "begin"}
    BY <1>3 DEF Request, AppendCheck, ReplayGet, AppendInsert, AppendRefused,
                SourceRead, SourceWrite, RegisterReplica, SetReplicaStatus, At,
                Return, Goto, local
  <2> QED BY <2>1, RestActs DEF Acting
<1>4. ASSUME NEW w \in Worker, Reading(w)
      PROVE  ActsInv'
  <2>1. pc'[w] \in {"list", "topology", "sources", "rebuild", "step"}
    BY <1>4 DEF Reading, ReplayBegin, ReplayList, ReplayTopology,
                ReplaySources, Rebuild, RebuildDone, At, Goto
  <2> QED BY <2>1, RestActs DEF Acting
<1>5. ASSUME NEW w \in Worker, Record(w)
      PROVE  ActsInv'
  <2>1. pc'[w] \in {"mark", "violate", "trace", "step"}
    BY <1>5 DEF Record, WriteRow, Mark, AfterMark, Violate, LogEvent, Goto
  <2> QED BY <2>1, RestActs DEF Acting
<1>6. ASSUME NEW w \in Worker, Judge(w)
      PROVE  ActsInv'
  <2>1. pc'[w] \in {"scan", "verdict", "idle"}
    <3>1. CASE AdvanceCursor(w)
      BY <3>1 DEF AdvanceCursor, Goto
    <3>2. CASE \E r \in Replica, k \in Key : ScanPair(w, r, k)
      BY <3>2 DEF ScanPair, At
    <3>3. CASE SettleViolated(w) \/ SettleScanned(w)
      BY <3>3 DEF SettleViolated, SettleScanned, Settle, Return, Goto
    <3> QED BY <1>6, <3>1, <3>2, <3>3 DEF Judge
  <2> QED BY <2>1, RestActs DEF Acting
<1>7. ASSUME NEW w \in Worker, Failure(w)
      PROVE  ActsInv'
  <2>1. pc'[w] \in {"idle", "mark", "violate", "trace", "scan"}
    BY <1>7 DEF Failure, Abort, RowFault, MarkLost, ScanFault, Refuse, Decide,
                AfterMark, Return, At, Goto
  <2> QED BY <2>1, RestActs DEF Acting
<1> QED BY <1>1, <1>2, <1>3, <1>4, <1>5, <1>6, <1>7, ActsHandle
        DEF Next, ReplayStep

LEMMA RowWriters ==
    ASSUME [Next]_vars
    PROVE  UNCHANGED rkv \/ \E w \in Worker : WriteRow(w)
<1>1. ASSUME NEW w \in Worker, Request(w) \/ Reading(w)
      PROVE  UNCHANGED rkv
  BY <1>1 DEF Request, AppendCheck, ReplayGet, AppendInsert, AppendRefused,
              SourceRead, SourceWrite, RegisterReplica, SetReplicaStatus,
              Reading, ReplayBegin, ReplayList, ReplayTopology, ReplaySources,
              Rebuild, RebuildDone, db
<1>2. ASSUME NEW w \in Worker, Handle(w)
      PROVE  UNCHANGED rkv
  BY <1>2 DEF Handle, RejectUnknown, HandleLease, HandleInvalidate,
              HandleUpdate, HandleAck, AckRelease, AckConfirm, HandleRetry,
              Ignore, db
<1>3. ASSUME NEW w \in Worker, Record(w) \/ Judge(w)
      PROVE  UNCHANGED rkv \/ WriteRow(w)
  BY <1>3 DEF Record, Mark, Violate, LogEvent, Judge, AdvanceCursor, ScanPair,
              SettleViolated, SettleScanned, Settle, db
<1>4. ASSUME NEW w \in Worker, Failure(w)
      PROVE  UNCHANGED rkv
  BY <1>4 DEF Failure, Abort, RowFault, MarkLost, ScanFault, db
<1>5. CASE Tick \/ Crash \/ UNCHANGED vars
  BY <1>5 DEF Tick, Crash, vars, db
<1> QED BY <1>1, <1>2, <1>3, <1>4, <1>5 DEF Next, ReplayStep

LEMMA VersionStep ==
    ASSUME TypeInv, ActsInv, [Next]_vars, NEW r \in Replica, NEW k \in Key,
           ~Absent(rkv[r][k])
    PROVE  ~Absent(rkv'[r][k]) /\ rkv'[r][k].version >= rkv[r][k].version
<1>1. rkv \in [Replica -> [Key -> Row]] /\ rkv[r][k].version \in Int
  BY DEF TypeInv, TypeOK, Row
<1>2. CASE rkv'[r][k] = rkv[r][k]
  BY <1>1, <1>2
<1>3. ASSUME NEW w \in Worker, WriteRow(w), rkv'[r][k] # rkv[r][k]
      PROVE  ~Absent(rkv'[r][k]) /\ rkv'[r][k].version >= rkv[r][k].version
  <2> DEFINE m == Here(w).body
  <2>1. m.replica \in Replica /\ m.key \in Key
    BY <1>3, HereType DEF WriteRow, At, TypeInv, PosOK, AtMessage
  <2>2. rkv' = [rkv EXCEPT ![m.replica][m.key] = eff[w].row]
    BY <1>3 DEF WriteRow
  <2>3. m.replica = r /\ m.key = k /\ rkv'[r][k] = eff[w].row
    BY <1>1, <1>3, <2>1, <2>2
  <2>4. Promise!Allows(m, r, k, rkv[r][k], eff[w].row)
    BY <1>3, <2>3 DEF WriteRow, At, ActsInv, Acts
  <2>5. rkv[r][k] \in Row
    BY <1>1
  <2> QED BY <1>1, <2>3, <2>4, <2>5
          DEF Promise!Allows, Promise!Absent, Promise!Confirmed, Absent, Row
<1> QED BY <1>2, <1>3, RowWriters

LEMMA ActsInvariant ==
    ASSUME OneWorker
    PROVE  Spec => []ActsInv
<1>1. Init => ActsInv
  BY DEF Init, ActsInv, Acts
<1> QED BY <1>1, ActsNext, TypeInvariant, PTL DEF Spec

\* Requests one after the other, the version a replica has observed never rolls
\* back, whatever the messages say and whatever fails in between.
THEOREM VersionsNeverGoBack ==
    ASSUME OneWorker
    PROVE  Spec => VersionsNeverRollBack
<1>1. TypeInv /\ ActsInv /\ [Next]_vars =>
         [\A r \in Replica, k \in Key :
             ~Absent(rkv[r][k]) =>
                ~Absent(rkv'[r][k]) /\ rkv'[r][k].version >= rkv[r][k].version]_vars
  BY VersionStep
<1> QED BY <1>1, ActsInvariant, TypeInvariant, PTL DEF Spec, VersionsNeverRollBack

-----------------------------------------------------------------------------
(* The verdict is true of the tables as they are: what a replay has read   *)
(* of them is still so, and each pair it has to look at is still to come,  *)
(* has been found converged, or belongs to a replica noted as lagging.     *)

Informed == {"rebuild", "step"} \union AtMessage \union Judges

Fresh(w) ==
    /\ pc[w] \in {"sources"} \union Informed => view[w].replicas = replicas
    /\ pc[w] \in Informed => view[w].sources = source
    /\ pc[w] = "scan" =>
          \A r \in Replica, k \in Key :
             r \in Allowed(w) /\ k \in Sourced(w) =>
                \/ <<r, k>> \in tally[w].todo \/ r \in tally[w].unconv
                \/ ConvergedFor(rkv[r][k], view[w].sources[k])

FreshInv == \A w \in Worker : Fresh(w)

LEMMA FreshAlone ==
    ASSUME OneWorker, NEW w \in Worker, Fresh(w)'
    PROVE  FreshInv'
<1>1. \A u \in Worker : u = w
  BY DEF OneWorker
<1> QED BY <1>1 DEF FreshInv

\* A request that is no replay yet, or no more.
Apart == {"idle", "insert", "commit", "begin", "list", "topology"}

LEMMA ApartFresh ==
    ASSUME OneWorker, NEW w \in Worker, pc'[w] \in Apart
    PROVE  FreshInv'
<1>1. Fresh(w)'
  BY DEF Fresh, Apart, Informed, Judges, AtMessage
<1> QED BY <1>1, FreshAlone

\* A step of a replay that does not read and is not at its scan afterwards.
LEMMA FreshFrame ==
    ASSUME TypeInv, FreshInv, OneWorker, NEW w \in Worker,
           pc[w] \in Informed, pc'[w] \in Informed \ {"scan"},
           UNCHANGED <<replicas, source, view>>
    PROVE  FreshInv'
<1>1. Fresh(w)'
  BY DEF FreshInv, Fresh
<1> QED BY <1>1, FreshAlone

LEMMA FreshReading ==
    ASSUME TypeInv, FreshInv, OneWorker, NEW w \in Worker, Reading(w)
    PROVE  FreshInv'
<1> USE DEF At, Goto, TypeInv, TypeOK
<1>1. CASE ReplayBegin(w) \/ ReplayList(w)
  BY <1>1, ApartFresh DEF ReplayBegin, ReplayList, Apart
<1>2. CASE ReplayTopology(w)
  <2>1. pc'[w] = "sources" /\ view'[w].replicas = replicas' 
    BY <1>2 DEF ReplayTopology, db, View
  <2>2. Fresh(w)'
    BY <2>1 DEF Fresh, Informed, Judges, AtMessage
  <2> QED BY <2>2, FreshAlone
<1>3. CASE ReplaySources(w)
  <2>1. /\ pc[w] = "sources" /\ pc'[w] = "rebuild"
        /\ UNCHANGED <<replicas, source>>
        /\ view'[w].replicas = view[w].replicas /\ view'[w].sources = source
    BY <1>3 DEF ReplaySources, db, View
  <2>2. Fresh(w)'
    BY <2>1 DEF FreshInv, Fresh, Informed, Judges, AtMessage
  <2> QED BY <2>2, FreshAlone
<1>4. CASE Rebuild(w) \/ RebuildDone(w)
  <2>1. /\ pc[w] = "rebuild" /\ pc'[w] \in {"rebuild", "step"}
        /\ UNCHANGED <<replicas, source, view>>
    BY <1>4 DEF Rebuild, RebuildDone, db
  <2> QED BY <2>1, FreshFrame DEF Informed
<1> QED BY <1>1, <1>2, <1>3, <1>4 DEF Reading

\* One pair is looked at: converged, or its replica is noted as lagging.
LEMMA FreshScan ==
    ASSUME TypeInv, FreshInv, OneWorker, NEW w \in Worker,
           NEW r \in Replica, NEW k \in Key, NEW ok \in BOOLEAN,
           pc[w] = "scan", Scanned(w, r, k, ok),
           ok => ConvergedFor(rkv[r][k], view[w].sources[k]),
           UNCHANGED <<rkv, replicas, source, view, pc>>
    PROVE  FreshInv'
<1>1. tally'[w] = [tally[w] EXCEPT
                     !.todo   = IF ok THEN @ \ {<<r, k>>}
                                ELSE {p \in @ : p[1] # r},
                     !.unconv = IF ok THEN @ ELSE @ \union {r}]
  BY DEF Scanned, TypeInv, TypeOK
<1>2. tally[w] \in Tally
  BY DEF TypeInv, TypeOK
<1>3. /\ tally'[w].todo = IF ok THEN tally[w].todo \ {<<r, k>>}
                          ELSE {p \in tally[w].todo : p[1] # r}
      /\ tally'[w].unconv = IF ok THEN tally[w].unconv
                            ELSE tally[w].unconv \union {r}
  BY <1>1, <1>2 DEF Tally
<1>4. Allowed(w)' = Allowed(w) /\ Sourced(w)' = Sourced(w)
  BY DEF Allowed, Sourced
<1>5. ASSUME NEW q \in Replica, NEW j \in Key, q \in Allowed(w), j \in Sourced(w)
      PROVE  \/ <<q, j>> \in tally'[w].todo \/ q \in tally'[w].unconv
             \/ ConvergedFor(rkv[q][j], view[w].sources[j])
  <2>1. \/ <<q, j>> \in tally[w].todo \/ q \in tally[w].unconv
        \/ ConvergedFor(rkv[q][j], view[w].sources[j])
    BY <1>5 DEF FreshInv, Fresh
  <2>2. CASE ok
    BY <1>3, <2>1, <2>2
  <2>3. CASE ~ok
    BY <1>3, <2>1, <2>3
  <2> QED BY <2>2, <2>3
<1>6. Fresh(w)'
  BY <1>4, <1>5 DEF FreshInv, Fresh, Informed, Judges
<1> QED BY <1>6, FreshAlone

LEMMA FreshJudge ==
    ASSUME TypeInv, FreshInv, OneWorker, NEW w \in Worker, Judge(w)
    PROVE  FreshInv'
<1>1. CASE AdvanceCursor(w) /\ tally[w].viol
  <2>1. /\ pc[w] = "step" /\ pc'[w] = "verdict"
        /\ UNCHANGED <<replicas, source, view>>
    BY <1>1 DEF AdvanceCursor, At, Goto, TypeInv, TypeOK
  <2> QED BY <2>1, FreshFrame DEF Informed, Judges
<1>2. CASE AdvanceCursor(w) /\ ~tally[w].viol
  <2>1. /\ pc[w] = "step" /\ pc'[w] = "scan"
        /\ UNCHANGED <<replicas, source, view>>
    BY <1>2 DEF AdvanceCursor, At, Goto, TypeInv, TypeOK
  <2>2. tally'[w].todo = Allowed(w) \X Sourced(w)
    BY <1>2 DEF AdvanceCursor, TypeInv, TypeOK, Tally
  <2>3. Allowed(w)' = Allowed(w) /\ Sourced(w)' = Sourced(w)
    BY <2>1 DEF Allowed, Sourced
  <2>4. Fresh(w)'
    BY <2>1, <2>2, <2>3 DEF FreshInv, Fresh, Informed, Judges
  <2> QED BY <2>4, FreshAlone
<1>3. ASSUME NEW r \in Replica, NEW k \in Key, ScanPair(w, r, k)
      PROVE  FreshInv'
  <2> DEFINE ok == ConvergedFor(rkv[r][k], view[w].sources[k])
  <2>1. ok \in BOOLEAN
    BY DEF ConvergedFor
  <2> QED BY <1>3, <2>1, FreshScan DEF ScanPair, At, db
<1>4. CASE SettleViolated(w) \/ SettleScanned(w)
  <2>1. pc'[w] = "idle"
    BY <1>4 DEF SettleViolated, SettleScanned, Settle, Return, Goto, TypeInv, TypeOK
  <2> QED BY <2>1, ApartFresh DEF Apart
<1> QED BY <1>1, <1>2, <1>3, <1>4 DEF Judge

LEMMA FreshNext ==
    ASSUME OneWorker
    PROVE  TypeInv /\ FreshInv /\ [Next]_vars => FreshInv'
<1> SUFFICES ASSUME TypeInv, FreshInv, [Next]_vars PROVE FreshInv'
  OBVIOUS
<1>1. CASE UNCHANGED vars \/ Tick
  BY <1>1 DEF vars, Tick, db, local, FreshInv, Fresh, Allowed, Sourced
<1>2. CASE Crash
  BY <1>2 DEF Crash, FreshInv, Fresh, Informed, Judges, AtMessage
<1>3. ASSUME NEW w \in Worker, Request(w)
      PROVE  FreshInv'
  <2>1. pc'[w] \in {"idle", "insert", "commit", "begin"}
    BY <1>3 DEF Request, AppendCheck, ReplayGet, AppendInsert, AppendRefused,
                SourceRead, SourceWrite, RegisterReplica, SetReplicaStatus, At,
                Return, Goto, local, TypeInv, TypeOK
  <2> QED BY <2>1, ApartFresh DEF Apart
<1>4. ASSUME NEW w \in Worker,
             Handle(w) \/ Record(w) \/ RowFault(w) \/ MarkLost(w)
      PROVE  FreshInv'
  <2>1. UNCHANGED <<replicas, source>>
    BY <1>4 DEF Handle, RejectUnknown, HandleLease, HandleInvalidate,
                HandleUpdate, HandleAck, AckRelease, AckConfirm, HandleRetry,
                Ignore, Record, WriteRow, Mark, Violate, LogEvent, RowFault,
                MarkLost, db
  <2> QED BY <1>4, <2>1, MessageSteps, FreshFrame DEF Informed, AtMessage
<1>5. ASSUME NEW w \in Worker, Abort(w)
      PROVE  FreshInv'
  <2>1. pc'[w] = "idle"
    BY <1>5 DEF Abort, Return, Goto, TypeInv, TypeOK
  <2> QED BY <2>1, ApartFresh DEF Apart
<1>6. ASSUME NEW w \in Worker, NEW r \in Replica, NEW k \in Key, ScanFault(w, r, k)
      PROVE  FreshInv'
  BY <1>6, FreshScan DEF ScanFault, At, db
<1> QED BY <1>1, <1>2, <1>3, <1>4, <1>5, <1>6, FreshReading, FreshJudge
        DEF Next, ReplayStep, Failure

LEMMA FreshInvariant ==
    ASSUME OneWorker
    PROVE  Spec => [](TypeInv /\ PositiveInv /\ FreshInv)
<1>1. Init => PositiveInv
  BY DEF Init, PositiveInv, SoundRow, NoRow, NoEff
<1>2. Init => FreshInv
  BY DEF Init, FreshInv, Fresh, Informed, Judges, AtMessage
<1> QED BY <1>1, <1>2, PositiveNext, FreshNext, TypeInvariant, PTL DEF Spec

\* Nothing left to look at and no replica lagging: all have converged.
LEMMA ScannedConverged ==
    ASSUME TypeInv, FreshInv, NEW w \in Worker, pc[w] = "scan",
           tally[w].todo = {}, tally[w].unconv = {},
           NEW r \in Replica, NEW k \in Key, replicas[r] = "healthy", source[k] > 0
    PROVE  ConvergedFor(rkv[r][k], source[k])
<1>1. view[w].replicas = replicas /\ view[w].sources = source
  BY DEF FreshInv, Fresh, Informed, Judges
<1>2. r \in Allowed(w) /\ k \in Sourced(w)
  BY <1>1 DEF Allowed, Sourced
<1> QED BY <1>1, <1>2 DEF FreshInv, Fresh

LEMMA ConvergedStep ==
    ASSUME TypeInv, PositiveInv, FreshInv, [Next]_vars, NEW s \in Scenario,
           status[s] # "converged", status'[s] = "converged",
           NEW r \in Replica, NEW k \in Key, replicas[r] = "healthy", source[k] > 0
    PROVE  rkv[r][k] = [version |-> source[k], status |-> "valid"]
<1>1. PICK w \in Worker :
         SettleScanned(w) /\ tally[w].unconv = {}
  <2> USE DEF TypeInv, TypeOK
  <2>1. CASE UNCHANGED status \/ \E w \in Worker :
                AppendInsert(w) \/ Mark(w) \/ Violate(w) \/ LogEvent(w)
    BY <2>1 DEF AppendInsert, Mark, Violate, LogEvent
  <2>2. CASE \E w \in Worker : ReplayBegin(w) \/ AdvanceCursor(w) \/ SettleViolated(w)
    BY <2>2 DEF ReplayBegin, AdvanceCursor, SettleViolated, Settle
  <2>3. ASSUME NEW w \in Worker, SettleScanned(w)
        PROVE  tally[w].unconv = {}
    BY <2>3 DEF SettleScanned, Settle
  <2> QED BY <2>1, <2>2, <2>3, ScenarioWriters
<1>2. ConvergedFor(rkv[r][k], source[k])
  BY <1>1, ScannedConverged DEF SettleScanned, At
<1>3. rkv[r][k] \in Row /\ rkv[r][k].status # "superseded"
  BY DEF TypeInv, TypeOK, PositiveInv, SoundRow
<1> QED BY <1>2, <1>3 DEF ConvergedFor, Row

\* Requests one after the other, a scenario is judged converged only when every
\* replica that is not isolated holds the source's version of every key, valid.
THEOREM ConvergedAlwaysTrue ==
    ASSUME OneWorker
    PROVE  Spec => ConvergedIsTrue
<1>1. TypeInv /\ PositiveInv /\ FreshInv /\ [Next]_vars =>
         [\A s \in Scenario :
             status[s] # "converged" /\ status'[s] = "converged" =>
                \A r \in Replica, k \in Key :
                   replicas[r] = "healthy" /\ source[k] > 0
                   => rkv[r][k] = [version |-> source[k], status |-> "valid"]]_vars
  BY ConvergedStep
<1> QED BY <1>1, FreshInvariant, PTL DEF Spec, ConvergedIsTrue

-----------------------------------------------------------------------------
(* The contract.  What a client sent is the log without what the engine    *)
(* marks in it; six statements of the service are steps of the contract,   *)
(* and all others change nothing the contract speaks of.                   *)

Envelope   == [id : MsgId, body : Body]
Letter(m)  == [id |-> m.id, body |-> m.body]
Letters(l) == [i \in DOMAIN l |-> Letter(l[i])]

LEMMA LettersShape ==
    ASSUME NEW l \in Seq(Message)
    PROVE  /\ Letters(l) \in Seq(Envelope)
           /\ Len(Letters(l)) = Len(l) /\ DOMAIN Letters(l) = 1 .. Len(l)
           /\ \A i \in 1 .. Len(l) : Letters(l)[i] = Letter(l[i])
<1>1. /\ DOMAIN l = 1 .. Len(l) /\ Len(l) \in Nat
      /\ \A i \in 1 .. Len(l) : l[i] \in Message
  OBVIOUS
<1>2. Letters(l) = [i \in 1 .. Len(l) |-> Letter(l[i])]
  BY <1>1 DEF Letters
<1>3. \A i \in 1 .. Len(l) : Letter(l[i]) \in Envelope
  BY <1>1 DEF Letter, Envelope, Message
<1>4. Letters(l) \in [1 .. Len(l) -> Envelope]
  BY <1>2, <1>3
<1>5. Letters(l) \in Seq(Envelope)
  BY <1>1, <1>4
<1>6. Len(Letters(l)) = Len(l)
  BY <1>1, <1>4, <1>5
<1> QED BY <1>2, <1>5, <1>6

LEMMA LettersSame ==
    ASSUME NEW l \in Seq(Message), NEW n \in Seq(Message), Len(n) = Len(l),
           \A i \in 1 .. Len(l) : Same(n[i], l[i])
    PROVE  Letters(n) = Letters(l)
<1>1. ASSUME NEW i \in 1 .. Len(l)
      PROVE  Letters(n)[i] = Letters(l)[i]
  <2>1. Letters(n)[i] = Letter(n[i]) /\ Letters(l)[i] = Letter(l[i])
    BY LettersShape
  <2> QED BY <2>1 DEF Same, Letter
<1>2. /\ Letters(n) \in Seq(Envelope) /\ Letters(l) \in Seq(Envelope)
      /\ Len(Letters(n)) = Len(Letters(l)) /\ Len(Letters(n)) = Len(l)
  BY LettersShape
<1> QED BY <1>1, <1>2, SeqEqual

LEMMA LettersAppend ==
    ASSUME NEW l \in Seq(Message), NEW m \in Message
    PROVE  /\ Letters(Append(l, m)) = Append(Letters(l), Letter(m))
           /\ Letters(Append(l, m)) # <<>>
           /\ Letters(Append(l, m))[Len(Letters(Append(l, m)))] = Letter(m)
<1> DEFINE n == Append(l, m)
           a == Letters(n)
           b == Append(Letters(l), Letter(m))
<1>1. /\ n \in Seq(Message) /\ Len(n) = Len(l) + 1 /\ Len(l) \in Nat
      /\ \A i \in 1 .. Len(l) : n[i] = l[i]
      /\ n[Len(l) + 1] = m
  BY AppendProperties, LenProperties
<1>2. Letter(m) \in Envelope
  BY DEF Letter, Envelope, Message
<1>3. /\ Letters(l) \in Seq(Envelope) /\ Len(Letters(l)) = Len(l)
      /\ \A i \in 1 .. Len(l) : Letters(l)[i] = Letter(l[i])
  BY LettersShape
<1>4. /\ b \in Seq(Envelope) /\ Len(b) = Len(l) + 1
      /\ \A i \in 1 .. Len(l) : b[i] = Letter(l[i])
      /\ b[Len(l) + 1] = Letter(m)
  BY <1>2, <1>3, AppendProperties
<1> HIDE DEF n, b
<1>5. /\ a \in Seq(Envelope) /\ Len(a) = Len(l) + 1
      /\ \A i \in 1 .. Len(l) + 1 : a[i] = Letter(n[i])
  BY <1>1, LettersShape
<1> HIDE DEF a
<1>6. ASSUME NEW i \in 1 .. Len(l) + 1
      PROVE  a[i] = b[i]
  <2>1. CASE i \in 1 .. Len(l)
    BY <1>1, <1>4, <1>5, <2>1
  <2>2. CASE i = Len(l) + 1
    BY <1>1, <1>4, <1>5, <2>2
  <2> QED BY <1>1, <2>1, <2>2
<1>7. a = b
  BY <1>4, <1>5, <1>6, SeqEqual
<1>8. a # <<>> /\ a[Len(a)] = Letter(m)
  <2>1. Len(a) \in Nat \ {0}
    BY <1>1, <1>5
  <2>2. a # <<>>
    BY <2>1
  <2> QED BY <1>1, <1>4, <1>5, <1>7, <2>2
<1> QED BY <1>7, <1>8 DEF a, b, n

LEMMA SentLetters == \A s : Sent(s) = Letters(log[s])
BY DEF Sent, Letters, Letter

-----------------------------------------------------------------------------

Mailed == [s \in Scenario |-> Sent(s)]
Noted  == [s \in Scenario |-> violations[s] # <<>>]

\* A step that leaves what the contract speaks of.
LEMMA ContractFrame ==
    ASSUME TypeInv, TypeInv', UNCHANGED <<status, rkv, replicas, source>>,
           \A s \in Scenario :
              /\ Len(log'[s]) = Len(log[s])
              /\ \A i \in 1 .. Len(log[s]) : Same(log'[s][i], log[s][i])
              /\ (violations'[s] # <<>>) = (violations[s] # <<>>)
    PROVE  UNCHANGED Promise!vars
<1>1. \A s \in Scenario : Letters(log'[s]) = Letters(log[s])
  BY LettersSame DEF TypeInv, TypeOK
<1>2. Mailed' = Mailed
  BY <1>1 DEF Mailed, Sent, Letters, Letter
<1>3. Noted' = Noted
  BY DEF Noted
<1> QED BY <1>2, <1>3 DEF Promise!vars, Mailed, Noted

LEMMA ContractInit == Init => Promise!Init
<1> SUFFICES ASSUME Init PROVE Promise!Init
  OBVIOUS
<1>1. <<>> \in Seq(Message) /\ Len(<<>>) = 0
  BY EmptySeq
<1>2. Letters(<<>>) \in Seq(Envelope) /\ Len(Letters(<<>>)) = 0
  BY <1>1, LettersShape
<1>3. Letters(<<>>) = <<>>
  BY <1>2, EmptySeq
<1>4. \A s \in Scenario : Sent(s) = <<>>
  BY <1>3, SentLetters DEF Init
<1> QED BY <1>4 DEF Init, Promise!Init, Promise!NoRow, NoRow

\* One request at a time, an append adds its message where the contract does.
LEMMA ContractAppend ==
    ASSUME TypeInv, StandsInv, NEW w \in Worker, AppendInsert(w)
    PROVE  Promise!Next
<1> DEFINE d == draft[w].sc
           m == draft[w].msg
<1>1. /\ d \in Scenario /\ m \in Message /\ status[d] = "editing"
      /\ log \in [Scenario -> Seq(Message)]
      /\ log' = [log EXCEPT ![d] = Append(@, m)]
  BY DEF AppendInsert, At, TypeInv, TypeOK, FormOK, Draft, StandsInv, Stands
<1>2. \A i \in 1 .. Len(log[d]) : log[d][i].id # m.id
  BY <1>1 DEF AppendInsert, Taken
<1> HIDE DEF d, m
<1>3. /\ Letters(log'[d]) = Append(Letters(log[d]), Letter(m))
      /\ Letters(log'[d]) # <<>>
      /\ Letters(log'[d])[Len(Letters(log'[d]))] = Letter(m)
  <2>1. log'[d] = Append(log[d], m)
    BY <1>1
  <2> QED BY <1>1, <2>1, LettersAppend
<1>4. /\ DOMAIN Letters(log[d]) = 1 .. Len(log[d])
      /\ \A i \in 1 .. Len(log[d]) : Letters(log[d])[i] = Letter(log[d][i])
  BY <1>1, LettersShape
<1>5. \A s \in Scenario \ {d} : log'[s] = log[s]
  BY <1>1
<1>6. /\ \A s \in Scenario : Mailed[s] = Letters(log[s])
      /\ \A s \in Scenario : Mailed'[s] = Letters(log'[s])
  BY DEF Mailed, Sent, Letters, Letter
<1>7. Mailed' = [Mailed EXCEPT ![d] = Append(@, Letter(m))]
  BY <1>1, <1>3, <1>5, <1>6 DEF Mailed
<1>8. Mailed'[d] # <<>> /\ Mailed'[d][Len(Mailed'[d])] = Letter(m)
  BY <1>1, <1>3, <1>6
<1>9. \A i \in DOMAIN Mailed[d] : Mailed[d][i].id # Letter(m).id
  <2>1. ASSUME NEW i \in 1 .. Len(log[d])
        PROVE  Letters(log[d])[i].id # Letter(m).id
    <3>1. Letter(log[d][i]).id # Letter(m).id
      BY <1>2 DEF Letter
    <3> QED BY <1>4, <3>1
  <2>2. Mailed[d] = Letters(log[d])
    BY <1>1, <1>6
  <2> QED BY <1>4, <2>1, <2>2
<1>10. UNCHANGED <<status, rkv, replicas, source, violations>>
  BY DEF AppendInsert
<1>11. Promise!AddMessage(d)
  BY <1>1, <1>7, <1>8, <1>9, <1>10 DEF Promise!AddMessage, Mailed
<1> QED BY <1>1, <1>11 DEF Promise!Next

\* A row that is written is one a message of a scenario being replayed allows,
\* for a replica that is registered.
LEMMA ContractWrite ==
    ASSUME TypeInv, LogInv, RegInv, StandsInv, ActsInv,
           NEW w \in Worker, WriteRow(w)
    PROVE  Promise!Next
<1> DEFINE s == view[w].sc
           h == Here(w)
           r == h.body.replica
           k == h.body.key
           new == eff[w].row
<1>1. /\ s \in Scenario /\ InRange(w) /\ pc[w] = "write"
      /\ view[w].log \in Seq(Message) /\ log[s] \in Seq(Message)
      /\ rkv \in [Replica -> [Key -> Row]]
  BY DEF WriteRow, At, TypeInv, TypeOK, PosOK, View, AtMessage
<1>2. h \in Message /\ r \in Replica /\ k \in Key
  BY <1>1, HereType
<1>3. pos[w] \in 1 .. Len(view[w].log) /\ pos[w] \in 1 .. Len(log[s])
  <2>1. view[w].start \in Nat /\ Len(view[w].log) \in Nat /\ Len(log[s]) \in Nat
    BY <1>1 DEF TypeInv, TypeOK, View
  <2>2. Len(view[w].log) <= Len(log[s])
    BY DEF LogInv, Within
  <2> QED BY <1>1, <2>1, <2>2 DEF InRange
<1>4. log[s][pos[w]].body = h.body
  BY <1>3 DEF LogInv, Copied, Same, Here
<1>5. pos[w] \in DOMAIN Mailed[s] /\ Mailed[s][pos[w]].body = h.body
  <2>1. Mailed[s] = Letters(log[s])
    BY <1>1 DEF Mailed, Sent, Letters, Letter
  <2>2. /\ DOMAIN Letters(log[s]) = 1 .. Len(log[s])
        /\ Letters(log[s])[pos[w]] = Letter(log[s][pos[w]])
    BY <1>1, <1>3, LettersShape
  <2> QED BY <1>3, <1>4, <2>1, <2>2 DEF Letter
<1>6. status[s] = "replaying" /\ replicas[r] # "unregistered"
  BY <1>1 DEF StandsInv, Stands, Reads, AtMessage, RegInv, ActsRegistered,
              Registered
<1>7. Promise!Allows(h.body, r, k, rkv[r][k], new)
  BY <1>1 DEF ActsInv, Acts
<1>8. /\ rkv' = [rkv EXCEPT ![r][k] = new]
      /\ UNCHANGED <<status, log, replicas, source, violations>>
  BY DEF WriteRow
<1> HIDE DEF s, h, r, k, new
<1>9. rkv'[r][k] = new
  BY <1>1, <1>2, <1>8
<1>10. Mailed' = Mailed
  BY <1>8 DEF Mailed, Sent
<1>11. Promise!Learn(r, k)
  BY <1>1, <1>5, <1>6, <1>7, <1>8, <1>9, <1>10 DEF Promise!Learn, Mailed
<1> QED BY <1>2, <1>11 DEF Promise!Next

LEMMA ContractVerdict ==
    ASSUME TypeInv, VerdictInv, StandsInv, FreshInv, NEW w \in Worker,
           SettleViolated(w) \/ SettleScanned(w)
    PROVE  Promise!Next
<1> DEFINE s == view[w].sc
<1>1. s \in Scenario /\ status[s] = "replaying"
  BY DEF SettleViolated, SettleScanned, At, TypeInv, TypeOK, View, StandsInv,
         Stands, Judges
<1>2. UNCHANGED <<log, rkv, replicas, source, violations>>
  BY DEF SettleViolated, SettleScanned, Settle
<1>3. Mailed' = Mailed /\ Noted' = Noted
  BY <1>2 DEF Mailed, Sent, Noted
<1>4. CASE SettleViolated(w)
  <2>1. Noted[s] /\ status' = [status EXCEPT ![s] = "violated"]
    BY <1>1, <1>4 DEF SettleViolated, Settle, At, VerdictInv, Remembers, Noted
  <2>2. Promise!Verdict(s, "violated")
    BY <1>1, <1>2, <1>3, <2>1 DEF Promise!Verdict, Mailed, Noted
  <2> QED BY <1>1, <2>2 DEF Promise!Next
<1>5. CASE SettleScanned(w) /\ tally[w].unconv = {}
  <2>1. status' = [status EXCEPT ![s] = "converged"]
    BY <1>5 DEF SettleScanned, Settle
  <2>2. Promise!Converged
    BY <1>5, ScannedConverged
       DEF SettleScanned, At, Promise!Converged, Promise!ConvergedFor,
           ConvergedFor
  <2>3. Promise!Verdict(s, "converged")
    BY <1>1, <1>2, <1>3, <2>1, <2>2 DEF Promise!Verdict, Mailed, Noted
  <2> QED BY <1>1, <2>3 DEF Promise!Next
<1>6. CASE SettleScanned(w) /\ tally[w].unconv # {}
  <2>1. status' = [status EXCEPT ![s] = "timeout"]
    BY <1>6 DEF SettleScanned, Settle
  <2>2. Promise!Verdict(s, "timeout")
    BY <1>1, <1>2, <1>3, <2>1 DEF Promise!Verdict, Mailed, Noted
  <2> QED BY <1>1, <2>2 DEF Promise!Next
<1> QED BY <1>4, <1>5, <1>6

LEMMA ContractTables ==
    ASSUME TypeInv, StandsInv, NEW w \in Worker, Request(w), ~AppendInsert(w)
    PROVE  Promise!Next \/ UNCHANGED Promise!vars
<1>1. UNCHANGED <<status, log, rkv, violations>>
  BY DEF Request, AppendCheck, ReplayGet, AppendRefused, SourceRead,
         SourceWrite, RegisterReplica, SetReplicaStatus, db
<1>2. Mailed' = Mailed /\ Noted' = Noted
  BY <1>1 DEF Mailed, Sent, Noted
<1>3. CASE UNCHANGED <<replicas, source>>
  BY <1>1, <1>2, <1>3 DEF Promise!vars, Mailed, Noted
<1>4. ASSUME NEW r \in Replica, RegisterReplica(w, r)
      PROVE  Promise!Next
  <2>1. Promise!Register(r)
    BY <1>1, <1>2, <1>4 DEF RegisterReplica, Promise!Register, Mailed, Noted
  <2> QED BY <2>1 DEF Promise!Next
<1>5. ASSUME NEW r \in Replica, NEW to \in {"healthy", "isolated"},
             SetReplicaStatus(w, r, to)
      PROVE  Promise!Next
  <2>1. Promise!SetStatus(r, to)
    BY <1>1, <1>2, <1>5 DEF SetReplicaStatus, Promise!SetStatus, Mailed, Noted
  <2> QED BY <2>1 DEF Promise!Next
<1>6. CASE SourceWrite(w)
  <2> DEFINE k == offer[w][1]
  <2>1. /\ k \in Key /\ offer[w][2] > source[k]
        /\ source' = [source EXCEPT ![k] = offer[w][2]]
        /\ source \in [Key -> Nat] /\ UNCHANGED replicas
    BY <1>6 DEF SourceWrite, At, TypeInv, TypeOK, FormOK, Sources, StandsInv,
                Stands
  <2> HIDE DEF k
  <2>2. source'[k] = offer[w][2]
    BY <2>1
  <2>3. Promise!Commit(k)
    BY <1>1, <1>2, <2>1, <2>2 DEF Promise!Commit, Mailed, Noted
  <2> QED BY <2>1, <2>3 DEF Promise!Next
<1> QED BY <1>3, <1>4, <1>5, <1>6
        DEF Request, AppendCheck, ReplayGet, AppendRefused, SourceRead, db

\* Steps of a replay that the contract does not see, or sees as its start or as
\* a violation being recorded.
LEMMA ContractReplay ==
    ASSUME TypeInv, StandsInv, NEW w \in Worker,
           \/ ReplayBegin(w) \/ Mark(w) \/ Violate(w) \/ LogEvent(w)
           \/ AdvanceCursor(w)
    PROVE  Promise!Next \/ UNCHANGED Promise!vars
<1> DEFINE s == view[w].sc
<1>1. s \in Scenario /\ Stands(w) /\ UNCHANGED <<rkv, replicas, source>>
  BY DEF TypeInv, TypeOK, View, StandsInv, ReplayBegin, Mark, Violate, LogEvent,
         AdvanceCursor
<1>2. CASE ReplayBegin(w)
  <2>1. /\ status[s] \notin Final /\ status' = [status EXCEPT ![s] = "replaying"]
        /\ UNCHANGED <<log, violations>>
    BY <1>1, <1>2 DEF ReplayBegin, At, Stands
  <2>2. Mailed' = Mailed /\ Noted' = Noted
    BY <2>1 DEF Mailed, Sent, Noted
  <2>3. Promise!Start(s)
    BY <1>1, <2>1, <2>2 DEF Promise!Start, Promise!Final, Final, Mailed, Noted
  <2> QED BY <1>1, <2>3 DEF Promise!Next
<1>3. CASE Violate(w)
  <2>1. /\ status[s] = "replaying" /\ UNCHANGED <<status, log>>
        /\ violations' = [violations EXCEPT ![s] = Append(@, StepSeq(w))]
    BY <1>1, <1>3 DEF Violate, AppendViolation, At, Stands, Reads, AtMessage
  <2>2. Append(violations[s], StepSeq(w)) # <<>>
    <3>1. violations[s] \in Seq(Nat)
      BY <1>1 DEF TypeInv, TypeOK
    <3>2. \A v \in Seq(Nat) : \A n : Append(v, n) # <<>>
      OBVIOUS
    <3> QED BY <3>1, <3>2, Zenon
  <2>3. Noted' = [Noted EXCEPT ![s] = TRUE]
    <3>1. violations \in [Scenario -> Seq(Nat)]
      BY DEF TypeInv, TypeOK
    <3>2. /\ violations'[s] # <<>>
          /\ \A t \in Scenario \ {s} : violations'[t] = violations[t]
      BY <1>1, <2>1, <2>2, <3>1
    <3> QED BY <1>1, <3>2 DEF Noted
  <2>4. Mailed' = Mailed
    BY <2>1 DEF Mailed, Sent
  <2>5. PICK t \in Scenario : t = s
    BY <1>1
  <2>6. Promise!RecordViolation(t)
    BY <1>1, <2>1, <2>3, <2>4, <2>5 DEF Promise!RecordViolation, Mailed, Noted
  <2> QED BY <2>6 DEF Promise!Next
<1>4. CASE AdvanceCursor(w) \/ LogEvent(w)
  <2>1. UNCHANGED status
    <3>1. CASE AdvanceCursor(w)
      <4>1. status[s] = "replaying" /\ status' = [status EXCEPT ![s] = "replaying"]
        BY <1>1, <3>1 DEF AdvanceCursor, At, Stands, Reads
      <4>2. status \in [Scenario -> Status]
        BY DEF TypeInv, TypeOK
      <4> QED BY <1>1, <4>1, <4>2
    <3>2. CASE LogEvent(w)
      BY <3>2 DEF LogEvent
    <3> QED BY <1>4, <3>1, <3>2
  <2>2. UNCHANGED <<log, violations>>
    BY <1>4 DEF AdvanceCursor, LogEvent
  <2> QED BY <1>1, <2>1, <2>2 DEF Promise!vars, Sent
<1>5. CASE Mark(w)
  <2>1. /\ UNCHANGED <<status, violations>> /\ log \in [Scenario -> Seq(Message)]
        /\ log' \in [Scenario -> Seq(Message)]
    BY <1>5, RecordType DEF Record, Mark, TypeInv, TypeOK
  <2>2. \A t \in Scenario : Len(log'[t]) = Len(log[t])
    BY <1>5, MarkWrites
  <2>3. LogKept
    BY <1>5, LogIsKept DEF Next, ReplayStep, Record
  <2>4. \A t \in Scenario : Letters(log'[t]) = Letters(log[t])
    BY <2>1, <2>2, <2>3, LettersSame DEF LogKept
  <2>5. Mailed' = Mailed /\ Noted' = Noted
    BY <2>1, <2>4 DEF Mailed, Sent, Letters, Letter, Noted
  <2> QED BY <1>1, <2>1, <2>5 DEF Promise!vars, Mailed, Noted
<1> QED BY <1>2, <1>3, <1>4, <1>5

LEMMA ContractStep ==
    ASSUME TypeInv, LogInv, VerdictInv, RegInv, StandsInv, ActsInv, FreshInv,
           [Next]_vars
    PROVE  [Promise!Next]_(Promise!vars)
<1>1. CASE UNCHANGED db
  BY <1>1 DEF db, Promise!vars, Sent
<1>2. ASSUME NEW w \in Worker, Request(w)
      PROVE  Promise!Next \/ UNCHANGED Promise!vars
  BY <1>2, ContractAppend, ContractTables
<1>3. ASSUME NEW w \in Worker, Reading(w)
      PROVE  UNCHANGED db \/ ReplayBegin(w)
  BY <1>3 DEF Reading, ReplayList, ReplayTopology, ReplaySources, Rebuild,
              RebuildDone
<1>4. ASSUME NEW w \in Worker, Handle(w)
      PROVE  UNCHANGED db
  BY <1>4 DEF Handle, RejectUnknown, HandleLease, HandleInvalidate,
              HandleUpdate, HandleAck, AckRelease, AckConfirm, HandleRetry,
              Ignore
<1>5. ASSUME NEW w \in Worker, Judge(w)
      PROVE  \/ UNCHANGED db \/ AdvanceCursor(w) \/ SettleViolated(w)
             \/ SettleScanned(w)
  BY <1>5 DEF Judge, ScanPair
<1>6. ASSUME NEW w \in Worker, Failure(w)
      PROVE  UNCHANGED db
  BY <1>6 DEF Failure, Abort, RowFault, MarkLost, ScanFault
<1>7. CASE Tick \/ Crash \/ UNCHANGED vars
  BY <1>1, <1>7 DEF Tick, Crash, vars
<1>8. ASSUME NEW w \in Worker, Record(w)
      PROVE  Promise!Next \/ UNCHANGED Promise!vars
  BY <1>8, ContractWrite, ContractReplay DEF Record
<1>9. ASSUME NEW w \in Worker, Reading(w) \/ Judge(w)
      PROVE  UNCHANGED db \/ Promise!Next \/ UNCHANGED Promise!vars
  BY <1>3, <1>5, <1>9, ContractReplay, ContractVerdict
<1> QED BY <1>1, <1>2, <1>4, <1>6, <1>7, <1>8, <1>9 DEF Next, ReplayStep

\* Requests one after the other, the service implements ScenarioContract,
\* through any number of crashes and failed statements.
THEOREM ContractAlwaysKept ==
    ASSUME OneWorker
    PROVE  Spec => KeepsContract
<1>1. Init => DraftPending /\ RegInv /\ VerdictInv
  BY DEF Init, DraftPending, RegInv, RegisteredOnly, LogRegistered,
         ReadRegistered, ActsRegistered, Known, NoView, NoRow, NoLease, Absent,
         NoTally, VerdictInv, ViolatedIsRecorded, Remembers
<1>2. TypeInv /\ DraftPending /\ [Next]_vars => DraftPending'
  BY DraftStep
<1>3. Spec => [](TypeInv /\ LogInv /\ DraftPending /\ RegInv /\ VerdictInv)
  BY <1>1, <1>2, RegNext, VerdictNext, LogInvariant, PTL DEF Spec
<1>4. TypeInv /\ LogInv /\ VerdictInv /\ RegInv /\ StandsInv /\ ActsInv
      /\ FreshInv /\ [Next]_vars => [Promise!Next]_(Promise!vars)
  BY ContractStep
<1> QED BY <1>3, <1>4, ContractInit, StandsInvariant, ActsInvariant,
           FreshInvariant, PTL DEF Spec, KeepsContract, Promise!Spec

-----------------------------------------------------------------------------
(* The reports on the verdict, when they are built right after it.         *)

LEMMA ReportStep ==
    ASSUME TypeInv, PositiveInv, FreshInv, [Next]_vars, NEW s \in Scenario,
           status[s] # "converged", status'[s] = "converged"
    PROVE  MissingLines(replicas', source', rkv') = {}
<1>1. UNCHANGED <<replicas, source, rkv>>
  <2> USE DEF TypeInv, TypeOK
  <2>1. ~UNCHANGED status
    OBVIOUS
  <2>2. \E w \in Worker : \/ ReplayBegin(w) \/ AdvanceCursor(w)
                          \/ SettleViolated(w) \/ SettleScanned(w)
    BY <2>1, ScenarioWriters DEF AppendInsert, Mark, Violate, LogEvent
  <2> QED BY <2>2 DEF ReplayBegin, AdvanceCursor, SettleViolated, SettleScanned,
                      Settle
<1>2. DOMAIN replicas = Replica /\ DOMAIN source = Key
  BY DEF TypeInv, TypeOK, Topology, Sources
<1>3. ASSUME NEW r \in Reported(replicas), NEW k \in Committed(source)
      PROVE  LineConverged(rkv[r][k], source[k])
  <2>1. r \in Replica /\ k \in Key /\ source[k] > 0 /\ replicas[r] = "healthy"
    BY <1>2 DEF Reported, Committed, TypeInv, TypeOK, Topology
  <2>2. rkv[r][k] = [version |-> source[k], status |-> "valid"]
    BY <2>1, ConvergedStep
  <2> QED BY <2>2 DEF LineConverged, Absent
<1>4. MissingLines(replicas, source, rkv) = {}
  BY <1>3 DEF MissingLines
<1> QED BY <1>1, <1>4

\* Requests one after the other, a proof built right after a scenario converged
\* has no "missing" line, although it compares in a way of its own.
THEOREM ProofAlwaysAgrees ==
    ASSUME OneWorker
    PROVE  Spec => ProofAgrees
<1>1. TypeInv /\ PositiveInv /\ FreshInv /\ [Next]_vars =>
         [\A s \in Scenario :
             status[s] # "converged" /\ status'[s] = "converged" =>
                MissingLines(replicas', source', rkv') = {}]_vars
  BY ReportStep
<1> QED BY <1>1, FreshInvariant, PTL DEF Spec, ProofAgrees

-----------------------------------------------------------------------------
(* A replica is noted as lagging only for a row, unless a row could not be *)
(* read: what the report of a timeout has to go on.                        *)

NoFault == MaxFaults = 0

Lags(w) ==
    /\ pc[w] # "scan" => tally[w].unconv = {}
    /\ pc[w] = "scan" =>
          /\ tally[w].todo \subseteq Allowed(w) \X Sourced(w)
          /\ \A r \in tally[w].unconv :
                /\ r \in Allowed(w)
                /\ \E k \in Sourced(w) : ~ConvergedFor(rkv[r][k], view[w].sources[k])

LagsInv == \A w \in Worker : Lags(w)

LEMMA LagsAlone ==
    ASSUME OneWorker, NEW w \in Worker, Lags(w)'
    PROVE  LagsInv'
<1>1. \A u \in Worker : u = w
  BY DEF OneWorker
<1> QED BY <1>1 DEF LagsInv

LEMMA LagsFrame ==
    ASSUME TypeInv, LagsInv, OneWorker, NEW w \in Worker,
           pc[w] # "scan", pc'[w] # "scan",
           tally'[w].unconv \in {tally[w].unconv, {}}
    PROVE  LagsInv'
<1>1. Lags(w)'
  BY DEF LagsInv, Lags
<1> QED BY <1>1, LagsAlone

\* A request that has returned, or was cut off.
LEMMA LagsReturn ==
    ASSUME TypeInv, OneWorker, NEW w \in Worker, pc'[w] = "idle",
           tally'[w] = NoTally
    PROVE  LagsInv'
<1>1. Lags(w)'
  BY DEF Lags, NoTally
<1> QED BY <1>1, LagsAlone

LEMMA LagsScan ==
    ASSUME TypeInv, LagsInv, OneWorker, NEW w \in Worker, NEW r \in Replica,
           NEW k \in Key, ScanPair(w, r, k)
    PROVE  LagsInv'
<1> DEFINE ok == ConvergedFor(rkv[r][k], view[w].sources[k])
<1>1. /\ pc[w] = "scan" /\ <<r, k>> \in tally[w].todo
      /\ UNCHANGED <<rkv, view, pc>>
  BY DEF ScanPair, At, db
<1>2. /\ tally'[w].todo = IF ok THEN tally[w].todo \ {<<r, k>>}
                          ELSE {p \in tally[w].todo : p[1] # r}
      /\ tally'[w].unconv = IF ok THEN tally[w].unconv
                            ELSE tally[w].unconv \union {r}
  BY DEF ScanPair, Scanned, TypeInv, TypeOK, Tally
<1>3. Allowed(w)' = Allowed(w) /\ Sourced(w)' = Sourced(w)
  BY <1>1 DEF Allowed, Sourced
<1>4. r \in Allowed(w) /\ k \in Sourced(w)
  BY <1>1 DEF LagsInv, Lags
<1>5. tally'[w].todo \subseteq Allowed(w) \X Sourced(w)
  BY <1>1, <1>2 DEF LagsInv, Lags
<1>6. ASSUME NEW q \in tally'[w].unconv
      PROVE  /\ q \in Allowed(w)
             /\ \E j \in Sourced(w) : ~ConvergedFor(rkv[q][j], view[w].sources[j])
  <2>1. CASE q \in tally[w].unconv
    BY <1>1, <2>1 DEF LagsInv, Lags
  <2>2. CASE q = r /\ ~ok
    BY <1>4, <2>2
  <2> QED BY <1>2, <1>6, <2>1, <2>2
<1>7. Lags(w)'
  BY <1>1, <1>3, <1>5, <1>6 DEF Lags
<1> QED BY <1>7, LagsAlone

LEMMA LagsNext ==
    ASSUME OneWorker, NoFault
    PROVE  TypeInv /\ LagsInv /\ [Next]_vars => LagsInv'
<1> SUFFICES ASSUME TypeInv, LagsInv, [Next]_vars PROVE LagsInv'
  OBVIOUS
<1> USE DEF TypeInv, TypeOK
<1>1. CASE UNCHANGED vars \/ Tick
  <2>1. UNCHANGED <<pc, tally, rkv, view>>
    BY <1>1 DEF vars, Tick, db, local
  <2>2. \A w \in Worker : Allowed(w)' = Allowed(w) /\ Sourced(w)' = Sourced(w)
    BY <2>1 DEF Allowed, Sourced
  <2>3. \A w \in Worker : Lags(w)'
    BY <2>1, <2>2 DEF LagsInv, Lags
  <2> QED BY <2>3 DEF LagsInv
<1>2. CASE Crash
  BY <1>2 DEF Crash, LagsInv, Lags, NoTally
<1>3. ASSUME NEW w \in Worker, Request(w)
      PROVE  LagsInv'
  <2>1. CASE AppendInsert(w) \/ AppendRefused(w) \/ SourceWrite(w)
    <3>1. pc'[w] = "idle" /\ tally'[w] = NoTally
      BY <2>1 DEF AppendInsert, AppendRefused, SourceWrite, Return, Goto
    <3> QED BY <3>1, LagsReturn
  <2>2. CASE Request(w) /\ ~(AppendInsert(w) \/ AppendRefused(w) \/ SourceWrite(w))
    <3>1. /\ pc[w] = "idle" /\ pc'[w] \in {"idle", "insert", "begin", "commit"}
          /\ UNCHANGED tally
      BY <2>2 DEF Request, AppendCheck, ReplayGet, SourceRead, RegisterReplica,
                  SetReplicaStatus, At, Goto, local
    <3> QED BY <3>1, LagsFrame
  <2> QED BY <1>3, <2>1, <2>2
<1>4. ASSUME NEW w \in Worker, Reading(w)
      PROVE  LagsInv'
  <2>1. /\ pc[w] # "scan" /\ pc'[w] # "scan" /\ UNCHANGED tally
    BY <1>4 DEF Reading, ReplayBegin, ReplayList, ReplayTopology,
                ReplaySources, Rebuild, RebuildDone, At, Goto
  <2> QED BY <2>1, LagsFrame
<1>5. ASSUME NEW w \in Worker, Handle(w) \/ Record(w)
      PROVE  LagsInv'
  <2>1. /\ pc[w] \in AtMessage \union {"step"}
        /\ pc'[w] \in AtMessage \union {"step"}
    BY <1>5, MessageSteps
  <2>2. tally'[w].unconv = tally[w].unconv
    <3>1. CASE Violate(w)
      BY <3>1 DEF Violate, Tally
    <3>2. CASE Handle(w) \/ WriteRow(w) \/ Mark(w) \/ LogEvent(w)
      BY <3>2 DEF Handle, RejectUnknown, HandleLease, HandleInvalidate,
                  HandleUpdate, HandleAck, AckRelease, AckConfirm, HandleRetry,
                  Ignore, Refuse, Decide, WriteRow, Mark, LogEvent
    <3> QED BY <1>5, <3>1, <3>2 DEF Record
  <2> QED BY <2>1, <2>2, LagsFrame DEF AtMessage
<1>6. ASSUME NEW w \in Worker, Judge(w)
      PROVE  LagsInv'
  <2>1. CASE AdvanceCursor(w) /\ tally[w].viol
    <3>1. pc[w] # "scan" /\ pc'[w] # "scan" /\ UNCHANGED tally
      BY <2>1 DEF AdvanceCursor, At, Goto
    <3> QED BY <3>1, LagsFrame
  <2>2. CASE AdvanceCursor(w) /\ ~tally[w].viol
    <3>1. /\ pc[w] = "step" /\ pc'[w] = "scan" /\ UNCHANGED <<rkv, view>>
          /\ tally'[w].todo = Allowed(w) \X Sourced(w)
          /\ tally'[w].unconv = tally[w].unconv
      BY <2>2 DEF AdvanceCursor, At, Goto, Tally
    <3>2. Allowed(w)' = Allowed(w) /\ Sourced(w)' = Sourced(w)
      BY <3>1 DEF Allowed, Sourced
    <3>3. Lags(w)'
      BY <3>1, <3>2 DEF LagsInv, Lags
    <3> QED BY <3>3, LagsAlone
  <2>3. CASE SettleViolated(w) \/ SettleScanned(w)
    <3>1. pc'[w] = "idle" /\ tally'[w] = NoTally
      BY <2>3 DEF SettleViolated, SettleScanned, Settle, Return, Goto
    <3> QED BY <3>1, LagsReturn
  <2> QED BY <1>6, <2>1, <2>2, <2>3, LagsScan DEF Judge
<1>7. ASSUME NEW w \in Worker
      PROVE  ~Failure(w)
  BY DEF NoFault, Failure, Abort, RowFault, MarkLost, ScanFault, Fault
<1> QED BY <1>1, <1>2, <1>3, <1>4, <1>5, <1>6, <1>7 DEF Next, ReplayStep

LEMMA TimeoutStep ==
    ASSUME TypeInv, FreshInv, LagsInv, [Next]_vars,
           NEW s \in Scenario, status[s] # "timeout", status'[s] = "timeout"
    PROVE  \/ Unconverged(replicas', source', rkv') # {}
           \/ \E p \in Reported(replicas') \X Committed(source') :
                 /\ rkv'[p[1]][p[2]].version = source'[p[2]]
                 /\ rkv'[p[1]][p[2]].status \in {"stale", "pending_invalidation"}
<1>1. PICK w \in Worker : SettleScanned(w) /\ tally[w].unconv # {}
  <2> USE DEF TypeInv, TypeOK
  <2>1. CASE UNCHANGED status \/ \E w \in Worker :
                AppendInsert(w) \/ Mark(w) \/ Violate(w) \/ LogEvent(w)
    BY <2>1 DEF AppendInsert, Mark, Violate, LogEvent
  <2>2. CASE \E w \in Worker : ReplayBegin(w) \/ AdvanceCursor(w) \/ SettleViolated(w)
    BY <2>2 DEF ReplayBegin, AdvanceCursor, SettleViolated, Settle
  <2>3. ASSUME NEW w \in Worker, SettleScanned(w)
        PROVE  tally[w].unconv # {}
    BY <2>3 DEF SettleScanned, Settle
  <2> QED BY <2>1, <2>2, <2>3, ScenarioWriters
<1>2. UNCHANGED <<replicas, source, rkv>> /\ pc[w] = "scan"
  BY <1>1 DEF SettleScanned, Settle, At
<1>3. view[w].replicas = replicas /\ view[w].sources = source
  BY <1>2 DEF FreshInv, Fresh, Informed, Judges
<1>4. PICK r \in Allowed(w), k \in Sourced(w) : ~ConvergedFor(rkv[r][k], source[k])
  BY <1>1, <1>2, <1>3 DEF LagsInv, Lags
<1>5. /\ r \in Replica /\ replicas[r] = "healthy"
      /\ k \in Key /\ source[k] > 0
      /\ DOMAIN replicas = Replica /\ DOMAIN source = Key
  BY <1>3, <1>4 DEF Allowed, Sourced, TypeInv, TypeOK, Topology, Sources
<1>6. r \in Reported(replicas) /\ k \in Committed(source)
  BY <1>5 DEF Reported, Committed
<1>7. CASE LineLagging(rkv[r][k], source[k])
  BY <1>2, <1>6, <1>7 DEF Unconverged
<1>8. CASE ~LineLagging(rkv[r][k], source[k])
  <2>1. rkv[r][k] \in Row
    BY <1>5 DEF TypeInv, TypeOK
  <2>2. /\ rkv[r][k].version = source[k]
        /\ rkv[r][k].status \in {"stale", "pending_invalidation"}
    BY <1>4, <1>8, <2>1 DEF LineLagging, Absent, ConvergedFor, Row, KeyStatus
  <2>3. <<r, k>> \in Reported(replicas) \X Committed(source)
    BY <1>6
  <2> QED BY <1>2, <2>2, <2>3
<1> QED BY <1>7, <1>8

\* Requests one after the other and no statement failing, the report of a
\* timeout names a replica, unless all that kept the scenario from converging
\* are rows that hold the source's version and are not valid.
THEOREM TimeoutAlwaysExplained ==
    ASSUME OneWorker, NoFault
    PROVE  Spec => TimeoutIsExplained
<1>1. Init => LagsInv
  BY DEF Init, LagsInv, Lags, NoTally
<1>2. TypeInv /\ FreshInv /\ LagsInv /\ [Next]_vars =>
         [\A s \in Scenario :
             status[s] # "timeout" /\ status'[s] = "timeout" =>
                \/ Unconverged(replicas', source', rkv') # {}
                \/ \E p \in Reported(replicas') \X Committed(source') :
                      /\ rkv'[p[1]][p[2]].version = source'[p[2]]
                      /\ rkv'[p[1]][p[2]].status
                            \in {"stale", "pending_invalidation"}]_vars
  BY TimeoutStep
<1> QED BY <1>1, <1>2, LagsNext, FreshInvariant, PTL DEF Spec, TimeoutIsExplained

=============================================================================
