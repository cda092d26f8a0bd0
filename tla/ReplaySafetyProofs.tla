------------------------- MODULE ReplaySafetyProofs -------------------------
(***************************************************************************)
(* Safety of ReplayService for any set of workers: what holds although     *)
(* replays overlap, crash and lose statements.                             *)
(***************************************************************************)
EXTENDS ReplayServiceProofs

-----------------------------------------------------------------------------
(* A violated scenario has a violation on record.  The verdict is decided  *)
(* by what a replay remembers, so the induction is about the memory of the *)
(* workers: one that remembers a violation has recorded one, and one that  *)
(* is about to say "violated" remembers.                                   *)

Remembers ==
    \A w \in Worker :
       /\ pc[w] = "idle"    => ~tally[w].viol
       /\ pc[w] = "verdict" => tally[w].viol
       /\ tally[w].viol     => violations[view[w].sc] # <<>>

VerdictInv == ViolatedIsRecorded /\ Remembers

\* A step that neither judges nor records, and moves one worker at most.
LEMMA VerdictFrame ==
    ASSUME TypeInv, VerdictInv, NEW w \in Worker,
           UNCHANGED <<status, violations, tally>>,
           \/ pc' = pc
           \/ \E there \in PC \ {"idle", "verdict"} : Goto(w, there),
           \A u \in Worker : view'[u].sc = view[u].sc
    PROVE  VerdictInv'
<1>1. \A u \in Worker : pc'[u] = pc[u] \/ pc'[u] \notin {"idle", "verdict"}
  BY DEF Goto, TypeInv, TypeOK
<1> QED BY <1>1 DEF VerdictInv, ViolatedIsRecorded, Remembers

\* A request that returns, whatever it has written before.
LEMMA VerdictReturn ==
    ASSUME TypeInv, VerdictInv, NEW w \in Worker, Return(w),
           UNCHANGED violations, ViolatedIsRecorded'
    PROVE  VerdictInv'
BY DEF Return, Goto, NoTally, TypeInv, TypeOK, VerdictInv, Remembers

LEMMA VerdictRequest ==
    ASSUME TypeInv, VerdictInv, NEW w \in Worker, Request(w)
    PROVE  VerdictInv'
<1>1. UNCHANGED <<status, violations>>
  BY DEF Request, AppendCheck, ReplayGet, AppendInsert, AppendRefused,
         SourceRead, SourceWrite, RegisterReplica, SetReplicaStatus, db
<1>2. ViolatedIsRecorded'
  BY <1>1 DEF VerdictInv, ViolatedIsRecorded
<1>3. ASSUME NEW s \in Scenario, AppendCheck(w, s)
      PROVE  VerdictInv'
  BY <1>1, <1>3, VerdictFrame DEF AppendCheck, PC
<1>4. ASSUME NEW s \in Scenario, ReplayGet(w, s)
      PROVE  VerdictInv'
  BY <1>2, <1>4 DEF ReplayGet, At, Goto, TypeInv, TypeOK, View, VerdictInv,
                    Remembers, db
<1>5. ASSUME AppendInsert(w) \/ AppendRefused(w) \/ SourceWrite(w)
      PROVE  VerdictInv'
  BY <1>1, <1>2, <1>5, VerdictReturn
     DEF AppendInsert, AppendRefused, SourceWrite
<1>6. ASSUME NEW k \in Key, NEW v \in SourceVersion, SourceRead(w, k, v)
      PROVE  VerdictInv'
  BY <1>1, <1>6, VerdictFrame DEF SourceRead, PC
<1>7. ASSUME NEW r \in Replica,
             \/ RegisterReplica(w, r)
             \/ \E to \in {"healthy", "isolated"} : SetReplicaStatus(w, r, to)
      PROVE  VerdictInv'
  BY <1>1, <1>7, VerdictFrame DEF RegisterReplica, SetReplicaStatus, local
<1> QED BY <1>3, <1>4, <1>5, <1>6, <1>7 DEF Request

LEMMA VerdictReading ==
    ASSUME TypeInv, VerdictInv, NEW w \in Worker, Reading(w)
    PROVE  VerdictInv'
<1>1. UNCHANGED violations /\ UNCHANGED tally
  BY DEF Reading, ReplayBegin, ReplayList, ReplayTopology, ReplaySources,
         Rebuild, RebuildDone, db
<1>2. ViolatedIsRecorded'
  BY <1>1 DEF Reading, ReplayBegin, ReplayList, ReplayTopology, ReplaySources,
              Rebuild, RebuildDone, db, VerdictInv, ViolatedIsRecorded,
              TypeInv, TypeOK
<1>3. \A u \in Worker : view'[u].sc = view[u].sc
  <2> USE DEF TypeInv, TypeOK, View
  <2>1. CASE ReplayList(w)
    BY <2>1 DEF ReplayList
  <2>2. CASE ReplayTopology(w)
    BY <2>2 DEF ReplayTopology
  <2>3. CASE ReplaySources(w)
    BY <2>3 DEF ReplaySources
  <2>4. CASE ReplayBegin(w) \/ Rebuild(w) \/ RebuildDone(w)
    BY <2>4 DEF ReplayBegin, Rebuild, RebuildDone
  <2> QED BY <2>1, <2>2, <2>3, <2>4 DEF Reading
<1>4. \A u \in Worker : pc'[u] = pc[u] \/ pc'[u] \notin {"idle", "verdict"}
  BY DEF Reading, ReplayBegin, ReplayList, ReplayTopology, ReplaySources,
         Rebuild, RebuildDone, Goto, TypeInv, TypeOK
<1> QED BY <1>1, <1>2, <1>3, <1>4 DEF VerdictInv, Remembers

LEMMA VerdictHandle ==
    ASSUME TypeInv, VerdictInv, NEW w \in Worker, Handle(w)
    PROVE  VerdictInv'
<1>1. UNCHANGED <<status, violations, tally, view>>
  BY DEF Handle, RejectUnknown, HandleLease, HandleInvalidate, HandleUpdate,
         HandleAck, AckRelease, AckConfirm, HandleRetry, Ignore, Refuse,
         Decide, db
<1>2. \E there \in {"release", "confirm", "write", "mark", "trace"} :
         Goto(w, there)
  BY DEF Handle, RejectUnknown, HandleLease, HandleInvalidate, HandleUpdate,
         HandleAck, AckRelease, AckConfirm, HandleRetry, Ignore, Refuse, Decide
<1>3. \E there \in PC \ {"idle", "verdict"} : Goto(w, there)
  BY <1>2 DEF PC
<1> QED BY <1>1, <1>3, VerdictFrame

LEMMA VerdictRecord ==
    ASSUME TypeInv, VerdictInv, NEW w \in Worker, Record(w)
    PROVE  VerdictInv'
<1>1. CASE WriteRow(w) \/ Mark(w) \/ LogEvent(w)
  <2>1. UNCHANGED <<status, violations, tally, view>>
    BY <1>1 DEF WriteRow, Mark, LogEvent
  <2>2. \E there \in {"mark", "violate", "trace", "step"} : Goto(w, there)
    BY <1>1 DEF WriteRow, Mark, LogEvent, AfterMark
  <2>3. \E there \in PC \ {"idle", "verdict"} : Goto(w, there)
    BY <2>2 DEF PC
  <2> QED BY <2>1, <2>3, VerdictFrame
<1>2. CASE Violate(w)
  <2> DEFINE s == view[w].sc
  <2>1. s \in Scenario
    BY DEF TypeInv, TypeOK, View
  <2>2. /\ \A t \in Scenario : violations[t] # <<>> => violations'[t] # <<>>
        /\ violations'[s] # <<>>
    <3>1. violations[s] \in Seq(Nat)
      BY <2>1 DEF TypeInv, TypeOK
    <3>2. Append(violations[s], StepSeq(w)) # <<>>
      BY <3>1
    <3> QED BY <1>2, <2>1, <3>2 DEF Violate, AppendViolation, TypeInv, TypeOK
  <2>3. \A u \in Worker : /\ view'[u] = view[u]
                          /\ pc'[u] \in {pc[u], "trace"}
                          /\ pc'[u] = "idle" => u # w
                          /\ u # w => tally'[u] = tally[u]
    BY <1>2 DEF Violate, Goto, TypeInv, TypeOK
  <2>4. ViolatedIsRecorded'
    BY <1>2, <2>2 DEF Violate, VerdictInv, ViolatedIsRecorded
  <2>5. \A u \in Worker : view[u].sc \in Scenario
    BY DEF TypeInv, TypeOK, View
  <2>6. pc'[w] = "trace"
    BY <1>2 DEF Violate, Goto, TypeInv, TypeOK
  <2>7. Remembers'
    BY <2>2, <2>3, <2>5, <2>6 DEF VerdictInv, Remembers
  <2> QED BY <2>4, <2>7 DEF VerdictInv
<1> QED BY <1>1, <1>2 DEF Record

LEMMA VerdictJudge ==
    ASSUME TypeInv, VerdictInv, NEW w \in Worker, Judge(w)
    PROVE  VerdictInv'
<1> DEFINE s == view[w].sc
<1>1. s \in Scenario
  BY DEF TypeInv, TypeOK, View
<1>2. CASE AdvanceCursor(w)
  <2>1. ViolatedIsRecorded'
    BY <1>1, <1>2 DEF AdvanceCursor, VerdictInv, ViolatedIsRecorded, TypeInv,
                      TypeOK
  <2>2. \A u \in Worker : tally'[u].viol = tally[u].viol
    <3> DEFINE todo == Allowed(w) \X Sourced(w)
    <3>1. tally' = tally \/ tally' = [tally EXCEPT ![w].todo = todo]
      BY <1>2 DEF AdvanceCursor
    <3> HIDE DEF todo
    <3>2. tally \in [Worker -> Tally]
      BY DEF TypeInv, TypeOK
    <3> QED BY <3>1, <3>2 DEF Tally
  <2>3. /\ \A u \in Worker \ {w} : pc'[u] = pc[u]
        /\ pc'[w] = "verdict" => tally[w].viol
        /\ pc'[w] # "idle"
    BY <1>2 DEF AdvanceCursor, Goto, TypeInv, TypeOK
  <2> QED BY <1>2, <2>1, <2>2, <2>3 DEF AdvanceCursor, VerdictInv, Remembers
<1>3. ASSUME NEW r \in Replica, NEW k \in Key, ScanPair(w, r, k)
      PROVE  VerdictInv'
  <2>1. \A u \in Worker : tally'[u].viol = tally[u].viol
    BY <1>3 DEF ScanPair, Scanned, TypeInv, TypeOK, Tally
  <2> QED BY <1>3, <2>1
          DEF ScanPair, VerdictInv, ViolatedIsRecorded, Remembers, db
<1>4. CASE SettleViolated(w)
  <2>1. violations[s] # <<>>
    BY <1>4 DEF SettleViolated, At, VerdictInv, Remembers
  <2>2. ViolatedIsRecorded'
    BY <1>1, <1>4, <2>1 DEF SettleViolated, Settle, VerdictInv,
                            ViolatedIsRecorded, TypeInv, TypeOK
  <2> QED BY <1>4, <2>2, VerdictReturn DEF SettleViolated, Settle
<1>5. CASE SettleScanned(w)
  <2>1. ViolatedIsRecorded'
    BY <1>1, <1>5 DEF SettleScanned, Settle, VerdictInv, ViolatedIsRecorded,
                      TypeInv, TypeOK
  <2> QED BY <1>5, <2>1, VerdictReturn DEF SettleScanned, Settle
<1> QED BY <1>2, <1>3, <1>4, <1>5 DEF Judge

LEMMA VerdictFailure ==
    ASSUME TypeInv, VerdictInv, NEW w \in Worker, Failure(w)
    PROVE  VerdictInv'
<1>1. UNCHANGED <<status, violations>>
  BY DEF Failure, Abort, RowFault, MarkLost, ScanFault, db
<1>2. CASE Abort(w)
  BY <1>1, <1>2, VerdictReturn DEF Abort, VerdictInv, ViolatedIsRecorded
<1>3. CASE RowFault(w) \/ MarkLost(w)
  <2>1. UNCHANGED <<tally, view>>
    BY <1>3 DEF RowFault, MarkLost, Refuse, Decide
  <2>2. \E there \in {"mark", "violate", "trace"} : Goto(w, there)
    BY <1>3 DEF RowFault, MarkLost, AfterMark, Refuse, Decide
  <2>3. \E there \in PC \ {"idle", "verdict"} : Goto(w, there)
    BY <2>2 DEF PC
  <2> QED BY <1>1, <2>1, <2>3, VerdictFrame
<1>4. ASSUME NEW r \in Replica, NEW k \in Key, ScanFault(w, r, k)
      PROVE  VerdictInv'
  <2>1. \A u \in Worker : tally'[u].viol = tally[u].viol
    BY <1>4 DEF ScanFault, Scanned, TypeInv, TypeOK, Tally
  <2> QED BY <1>1, <1>4, <2>1
          DEF ScanFault, VerdictInv, ViolatedIsRecorded, Remembers
<1> QED BY <1>2, <1>3, <1>4 DEF Failure

LEMMA VerdictNext == TypeInv /\ VerdictInv /\ [Next]_vars => VerdictInv'
<1> SUFFICES ASSUME TypeInv, VerdictInv, [Next]_vars PROVE VerdictInv'
  OBVIOUS
<1>1. CASE UNCHANGED vars
  BY <1>1 DEF vars, db, local, VerdictInv, ViolatedIsRecorded, Remembers
<1>2. CASE Tick
  BY <1>2 DEF Tick, db, local, VerdictInv, ViolatedIsRecorded, Remembers
<1>3. CASE Crash
  BY <1>3 DEF Crash, db, NoTally, VerdictInv, ViolatedIsRecorded, Remembers
<1>4. ASSUME NEW w \in Worker, Request(w) \/ ReplayStep(w) \/ Failure(w)
      PROVE  VerdictInv'
  BY <1>4, VerdictRequest, VerdictReading, VerdictHandle, VerdictRecord,
     VerdictJudge, VerdictFailure DEF ReplayStep
<1> QED BY <1>1, <1>2, <1>3, <1>4 DEF Next

\* A scenario judged violated has a violation on record, for any number of
\* overlapping replays: the engine appends it before it can say so.
THEOREM ViolatedAlwaysRecorded == Spec => []ViolatedIsRecorded
<1>1. Init => VerdictInv
  BY DEF Init, NoTally, VerdictInv, ViolatedIsRecorded, Remembers
<1>2. VerdictInv => ViolatedIsRecorded
  BY DEF VerdictInv
<1> QED BY <1>1, <1>2, VerdictNext, TypeInvariant, PTL DEF Spec

-----------------------------------------------------------------------------
(* A valid row has a positive version.  The row is decided in one step and *)
(* written in another, so the induction is about the rows that are about   *)
(* to be written as well.  It also says that no rule writes "superseded".  *)

SoundRow(row) ==
    /\ row.status \in {"valid", "pending_invalidation"} => row.version > 0
    /\ row.status # "superseded"

PositiveInv ==
    /\ \A r \in Replica, k \in Key : SoundRow(rkv[r][k])
    /\ \A w \in Worker : SoundRow(eff[w].row)

\* Each rule of KeyVersions makes of such a row another one.
LEMMA PositiveRules ==
    ASSUME NEW cur \in Row, SoundRow(cur), NEW v \in Int
    PROVE  /\ ObserveOK(cur, v) => SoundRow(Observed(cur, v))
           /\ SoundRow(Invalidated(cur, v))
           /\ SoundRow(Confirmed(cur))
BY DEF SoundRow, Row, ObserveOK, Observed, Invalidated, Confirmed

LEMMA PositiveDecide ==
    ASSUME TypeInv, PositiveInv, NEW w \in Worker, UNCHANGED rkv,
           NEW row, SoundRow(row), NEW mark, NEW next, Decide(w, row, mark, next)
    PROVE  PositiveInv'
<1>1. \A u \in Worker : eff'[u] = IF u = w THEN [row |-> row, mark |-> mark]
                                           ELSE eff[u]
  BY DEF Decide, TypeInv, TypeOK
<1>2. \A u \in Worker : SoundRow(eff'[u].row)
  BY <1>1 DEF PositiveInv
<1> QED BY <1>2 DEF PositiveInv

\* A step that leaves the rows and decides nothing.
LEMMA PositiveFrame ==
    ASSUME TypeInv, PositiveInv, UNCHANGED rkv,
           \A u \in Worker : eff'[u] = eff[u] \/ eff'[u] = NoEff
    PROVE  PositiveInv'
<1>1. SoundRow(NoEff.row)
  BY DEF NoEff, NoRow, SoundRow
<1> QED BY <1>1 DEF PositiveInv

LEMMA PositiveHandle ==
    ASSUME TypeInv, PositiveInv, NEW w \in Worker, Handle(w)
    PROVE  PositiveInv'
<1> DEFINE m == Here(w).body
           cur == rkv[m.replica][m.key]
<1>1. UNCHANGED rkv
  BY DEF Handle, RejectUnknown, HandleLease, HandleInvalidate, HandleUpdate,
         HandleAck, AckRelease, AckConfirm, HandleRetry, Ignore, db
<1>2. SoundRow(NoRow)
  BY DEF SoundRow, NoRow
<1>3. InRange(w) => /\ ObserveOK(cur, m.version) => SoundRow(Observed(cur, m.version))
                    /\ SoundRow(Invalidated(cur, m.version))
                    /\ SoundRow(Confirmed(cur))
  <2> SUFFICES ASSUME InRange(w)
               PROVE  /\ ObserveOK(cur, m.version) => SoundRow(Observed(cur, m.version))
                      /\ SoundRow(Invalidated(cur, m.version))
                      /\ SoundRow(Confirmed(cur))
    OBVIOUS
  <2>1. m.version \in Int /\ m.replica \in Replica /\ m.key \in Key
    BY HereType
  <2>2. cur \in Row /\ SoundRow(cur)
    BY <2>1 DEF PositiveInv, TypeInv, TypeOK
  <2> QED BY <2>1, <2>2, PositiveRules
<1>4. CASE RejectUnknown(w) \/ HandleLease(w) \/ HandleAck(w) \/ HandleRetry(w)
           \/ Ignore(w)
  BY <1>1, <1>2, <1>4, PositiveDecide
     DEF RejectUnknown, HandleLease, HandleAck, HandleRetry, Ignore, Refuse
<1>5. CASE HandleInvalidate(w)
  <2>1. InRange(w)
    BY <1>5, HandlingInRange DEF HandleInvalidate
  <2> QED BY <1>1, <1>2, <1>3, <1>5, <2>1, PositiveDecide
          DEF HandleInvalidate, Refuse
<1>6. CASE HandleUpdate(w)
  <2>1. InRange(w)
    BY <1>6, HandlingInRange DEF HandleUpdate
  <2> QED BY <1>1, <1>2, <1>3, <1>6, <2>1, PositiveDecide
          DEF HandleUpdate, Refuse
<1>7. CASE AckRelease(w)
  BY <1>1, <1>7, PositiveFrame DEF AckRelease
<1>8. CASE AckConfirm(w)
  <2>1. InRange(w)
    BY <1>8 DEF AckConfirm, At, TypeInv, PosOK, AtMessage
  <2> QED BY <1>1, <1>2, <1>3, <1>8, <2>1, PositiveDecide DEF AckConfirm
<1> QED BY <1>4, <1>5, <1>6, <1>7, <1>8 DEF Handle

LEMMA PositiveRecord ==
    ASSUME TypeInv, PositiveInv, NEW w \in Worker, Record(w)
    PROVE  PositiveInv'
<1>1. CASE WriteRow(w)
  <2> DEFINE m == Here(w).body
  <2>1. \A r \in Replica, k \in Key :
           rkv'[r][k] = rkv[r][k] \/ rkv'[r][k] = eff[w].row
    BY <1>1 DEF WriteRow, TypeInv, TypeOK
  <2> QED BY <1>1, <2>1 DEF WriteRow, PositiveInv
<1>2. CASE Mark(w) \/ Violate(w) \/ LogEvent(w)
  <2>1. UNCHANGED rkv /\ \A u \in Worker : eff'[u] = eff[u] \/ eff'[u] = NoEff
    BY <1>2 DEF Mark, Violate, LogEvent, TypeInv, TypeOK
  <2> QED BY <2>1, PositiveFrame
<1> QED BY <1>1, <1>2 DEF Record

LEMMA PositiveNext == TypeInv /\ PositiveInv /\ [Next]_vars => PositiveInv'
<1> SUFFICES ASSUME TypeInv, PositiveInv, [Next]_vars PROVE PositiveInv'
  OBVIOUS
<1>1. CASE UNCHANGED vars \/ Tick \/ Crash
  <2>1. UNCHANGED rkv /\ \A u \in Worker : eff'[u] = eff[u] \/ eff'[u] = NoEff
    BY <1>1 DEF vars, Tick, Crash, db, local
  <2> QED BY <2>1, PositiveFrame
<1>2. ASSUME NEW w \in Worker, Request(w) \/ Reading(w) \/ Judge(w)
      PROVE  PositiveInv'
  <2>1. CASE Request(w)
    <3>1. UNCHANGED rkv /\ \A u \in Worker : eff'[u] = eff[u] \/ eff'[u] = NoEff
      BY <2>1 DEF Request, AppendCheck, ReplayGet, AppendInsert, AppendRefused,
                  SourceRead, SourceWrite, RegisterReplica, SetReplicaStatus,
                  Return, db, local, TypeInv, TypeOK
    <3> QED BY <3>1, PositiveFrame
  <2>2. CASE Reading(w)
    <3>1. UNCHANGED <<rkv, eff>>
      BY <2>2 DEF Reading, ReplayBegin, ReplayList, ReplayTopology,
                  ReplaySources, Rebuild, RebuildDone, db
    <3> QED BY <3>1, PositiveFrame
  <2>3. CASE Judge(w)
    <3>1. UNCHANGED rkv /\ \A u \in Worker : eff'[u] = eff[u] \/ eff'[u] = NoEff
      BY <2>3 DEF Judge, AdvanceCursor, ScanPair, SettleViolated, SettleScanned,
                  Settle, Return, db, TypeInv, TypeOK
    <3> QED BY <3>1, PositiveFrame
  <2> QED BY <1>2, <2>1, <2>2, <2>3
<1>3. ASSUME NEW w \in Worker, Failure(w)
      PROVE  PositiveInv'
  <2>1. UNCHANGED rkv
    BY <1>3 DEF Failure, Abort, RowFault, MarkLost, ScanFault, db
  <2>2. CASE RowFault(w)
    <3>1. SoundRow(NoRow)
      BY DEF SoundRow, NoRow
    <3> QED BY <2>1, <2>2, <3>1, PositiveDecide DEF RowFault, Refuse
  <2>3. CASE Failure(w) /\ ~RowFault(w)
    <3>1. \A u \in Worker : eff'[u] = eff[u] \/ eff'[u] = NoEff
      BY <2>3 DEF Failure, Abort, MarkLost, ScanFault, Return, TypeInv, TypeOK
    <3> QED BY <2>1, <3>1, PositiveFrame
  <2> QED BY <1>3, <2>2, <2>3
<1> QED BY <1>1, <1>2, <1>3, PositiveHandle, PositiveRecord DEF Next, ReplayStep

\* However requests overlap and fail, a row of a version that is not positive is
\* never valid or waiting for an ack, though invalidations may create one.
THEOREM ValidAlwaysPositive == Spec => []OnlyPositiveIsValid
<1>1. Init => PositiveInv
  BY DEF Init, PositiveInv, SoundRow, NoRow, NoEff
<1>2. PositiveInv => OnlyPositiveIsValid
  BY DEF PositiveInv, SoundRow, OnlyPositiveIsValid
<1> QED BY <1>1, <1>2, PositiveNext, TypeInvariant, PTL DEF Spec

-----------------------------------------------------------------------------
(* The log of a scenario under overlapping appends and replays: messages  *)
(* are added and marked, never replaced, so what a replay read of the log  *)
(* stays true of it.  First, one step of the log.                          *)

Same(m, n) == m.id = n.id /\ m.body = n.body

LogKept ==
    \A s \in Scenario :
       /\ Len(log[s]) <= Len(log'[s])
       /\ \A i \in 1 .. Len(log[s]) : Same(log'[s][i], log[s][i])

\* Two statements write the log.
LEMMA LogWriters ==
    ASSUME [Next]_vars
    PROVE  UNCHANGED log \/ \E w \in Worker : AppendInsert(w) \/ Mark(w)
<1>1. ASSUME NEW w \in Worker, Request(w)
      PROVE  UNCHANGED log \/ AppendInsert(w)
  BY <1>1 DEF Request, AppendCheck, ReplayGet, AppendRefused, SourceRead,
              SourceWrite, RegisterReplica, SetReplicaStatus, db
<1>2. ASSUME NEW w \in Worker, Reading(w)
      PROVE  UNCHANGED log
  BY <1>2 DEF Reading, ReplayBegin, ReplayList, ReplayTopology, ReplaySources,
              Rebuild, RebuildDone, db
<1>3. ASSUME NEW w \in Worker, Handle(w)
      PROVE  UNCHANGED log
  BY <1>3 DEF Handle, RejectUnknown, HandleLease, HandleInvalidate,
              HandleUpdate, HandleAck, AckRelease, AckConfirm, HandleRetry,
              Ignore, db
<1>4. ASSUME NEW w \in Worker, Record(w)
      PROVE  UNCHANGED log \/ Mark(w)
  BY <1>4 DEF Record, WriteRow, Violate, LogEvent
<1>5. ASSUME NEW w \in Worker, Judge(w)
      PROVE  UNCHANGED log
  BY <1>5 DEF Judge, AdvanceCursor, ScanPair, SettleViolated, SettleScanned,
              Settle, db
<1>6. ASSUME NEW w \in Worker, Failure(w)
      PROVE  UNCHANGED log
  BY <1>6 DEF Failure, Abort, RowFault, MarkLost, ScanFault, db
<1>7. CASE Tick \/ Crash \/ UNCHANGED vars
  BY <1>7 DEF Tick, Crash, vars, db
<1> QED BY <1>1, <1>2, <1>3, <1>4, <1>5, <1>6, <1>7 DEF Next, ReplayStep

\* The message a replay marks is one it read.
LEMMA MarkWrites ==
    ASSUME TypeInv, NEW w \in Worker, Mark(w), NEW s \in Scenario
    PROVE  /\ Len(log'[s]) = Len(log[s])
           /\ \A i \in 1 .. Len(log[s]) :
                 log'[s][i] = IF s = view[w].sc /\ i = pos[w]
                              THEN Marked(log[s][i], Here(w), eff[w].mark)
                              ELSE log[s][i]
<1>1. /\ log \in [Scenario -> Seq(Message)] /\ view[w].sc \in Scenario
      /\ log' = [log EXCEPT ![view[w].sc][pos[w]] =
                    Marked(log[view[w].sc][pos[w]], Here(w), eff[w].mark)]
  BY DEF TypeInv, TypeOK, View, Mark
<1> QED BY <1>1

LEMMA LogIsKept == TypeInv /\ [Next]_vars => LogKept
<1> SUFFICES ASSUME TypeInv, [Next]_vars, NEW s \in Scenario
             PROVE  /\ Len(log[s]) <= Len(log'[s])
                    /\ \A i \in 1 .. Len(log[s]) : Same(log'[s][i], log[s][i])
  BY DEF LogKept
<1>1. log \in [Scenario -> Seq(Message)]
  BY DEF TypeInv, TypeOK
<1>2. CASE UNCHANGED log
  BY <1>1, <1>2 DEF Same
<1>3. ASSUME NEW w \in Worker, AppendInsert(w)
      PROVE  /\ Len(log[s]) <= Len(log'[s])
             /\ \A i \in 1 .. Len(log[s]) : Same(log'[s][i], log[s][i])
  <2>1. /\ draft[w].sc \in Scenario /\ draft[w].msg \in Message
        /\ log' = [log EXCEPT ![draft[w].sc] = Append(@, draft[w].msg)]
    BY <1>3 DEF AppendInsert, At, TypeInv, TypeOK, FormOK, Draft
  <2>2. log'[s] = log[s] \/ log'[s] = Append(log[s], draft[w].msg)
    BY <1>1, <2>1
  <2> QED BY <1>1, <2>1, <2>2 DEF Same
<1>4. ASSUME NEW w \in Worker, Mark(w)
      PROVE  /\ Len(log[s]) <= Len(log'[s])
             /\ \A i \in 1 .. Len(log[s]) : Same(log'[s][i], log[s][i])
  <2>1. ASSUME NEW i \in 1 .. Len(log[s])
        PROVE  Same(log'[s][i], log[s][i])
    <3>1. log[s][i] \in Message
      BY <1>1
    <3>2. Same(Marked(log[s][i], Here(w), eff[w].mark), log[s][i])
      BY <3>1 DEF Same, Marked, Message
    <3> QED BY <1>4, <3>2, MarkWrites DEF Same
  <2>2. Len(log'[s]) = Len(log[s])
    BY <1>4, MarkWrites
  <2> QED BY <1>1, <2>1, <2>2
<1> QED BY <1>2, <1>3, <1>4, LogWriters

-----------------------------------------------------------------------------
(* What a replay read of its log, and where it stands in it, lies within   *)
(* the log as it is now, whatever was appended meanwhile.                  *)

UniqueIds ==
    \A s \in Scenario : \A i, j \in 1 .. Len(log[s]) :
       log[s][i].id = log[s][j].id => i = j

Within(w) ==
    /\ view[w].start <= Len(log[view[w].sc])
    /\ Len(view[w].log) <= Len(log[view[w].sc])
    /\ pos[w] <= Len(log[view[w].sc]) + 1

Copied(w) ==
    \A i \in 1 .. Len(view[w].log) :
       Same(view[w].log[i], log[view[w].sc][i])

IdleForgets ==
    \A w \in Worker : pc[w] = "idle" => view[w] = NoView /\ pos[w] = 0

LogInv ==
    /\ IdleForgets
    /\ CursorWithinLog
    /\ UniqueIds
    /\ \A w \in Worker : Within(w) /\ Copied(w)

LEMMA UniqueIdsStep ==
    ASSUME TypeInv, UniqueIds, [Next]_vars
    PROVE  UniqueIds'
<1>1. log \in [Scenario -> Seq(Message)]
  BY DEF TypeInv, TypeOK
<1>2. CASE UNCHANGED log
  BY <1>2 DEF UniqueIds
<1>3. ASSUME NEW w \in Worker, AppendInsert(w)
      PROVE  UniqueIds'
  <2> DEFINE d == draft[w].sc  m == draft[w].msg
  <2>1. /\ d \in Scenario /\ m \in Message
        /\ log' = [log EXCEPT ![d] = Append(@, m)]
    BY <1>3 DEF AppendInsert, At, TypeInv, TypeOK, FormOK, Draft
  <2>2. \A i \in 1 .. Len(log[d]) : log[d][i].id # m.id
    BY <1>1, <1>3, <2>1 DEF AppendInsert, Taken
  <2> HIDE DEF d, m
  <2>3. \A s \in Scenario \ {d} : log'[s] = log[s]
    BY <1>1, <2>1
  <2>4. log'[d] = Append(log[d], m)
    BY <1>1, <2>1
  <2>5. ASSUME NEW i \in 1 .. Len(log'[d]), NEW j \in 1 .. Len(log'[d]),
               log'[d][i].id = log'[d][j].id
        PROVE  i = j
    BY <1>1, <2>1, <2>2, <2>4, <2>5 DEF UniqueIds
  <2> QED BY <2>3, <2>5 DEF UniqueIds
<1>4. ASSUME NEW w \in Worker, Mark(w)
      PROVE  UniqueIds'
  <2> SUFFICES ASSUME NEW s \in Scenario,
                      NEW i \in 1 .. Len(log'[s]), NEW j \in 1 .. Len(log'[s]),
                      log'[s][i].id = log'[s][j].id
               PROVE  i = j
    BY DEF UniqueIds
  <2>1. Len(log'[s]) = Len(log[s])
    BY <1>4, MarkWrites
  <2>2. \A h \in 1 .. Len(log[s]) : Same(log'[s][h], log[s][h])
    BY LogIsKept DEF LogKept
  <2> QED BY <2>1, <2>2 DEF Same, UniqueIds
<1> QED BY <1>2, <1>3, <1>4, LogWriters

LEMMA IdleStep ==
    ASSUME TypeInv, IdleForgets, [Next]_vars
    PROVE  IdleForgets'
<1> USE DEF TypeInv, TypeOK, IdleForgets
<1>1. ASSUME NEW w \in Worker, Request(w)
      PROVE  IdleForgets'
  <2>1. CASE AppendInsert(w) \/ AppendRefused(w) \/ SourceWrite(w)
    BY <2>1 DEF AppendInsert, AppendRefused, SourceWrite, Return, Goto
  <2>2. CASE \/ \E s \in Scenario : AppendCheck(w, s) \/ ReplayGet(w, s)
             \/ \E k \in Key, v \in SourceVersion : SourceRead(w, k, v)
    BY <2>2 DEF AppendCheck, ReplayGet, SourceRead, Goto
  <2>3. CASE \/ \E r \in Replica : RegisterReplica(w, r)
             \/ \E r \in Replica, to \in {"healthy", "isolated"} :
                   SetReplicaStatus(w, r, to)
    BY <2>3 DEF RegisterReplica, SetReplicaStatus, local
  <2> QED BY <1>1, <2>1, <2>2, <2>3 DEF Request
<1>2. ASSUME NEW w \in Worker, Reading(w)
      PROVE  IdleForgets'
  BY <1>2 DEF Reading, ReplayBegin, ReplayList, ReplayTopology, ReplaySources,
              Rebuild, RebuildDone, At, Goto
<1>3. ASSUME NEW w \in Worker, Handle(w)
      PROVE  IdleForgets'
  <2>1. /\ UNCHANGED <<view, pos>>
        /\ \E there \in {"release", "confirm", "write", "mark", "trace"} :
              Goto(w, there)
    BY <1>3 DEF Handle, RejectUnknown, HandleLease, HandleInvalidate,
                HandleUpdate, HandleAck, AckRelease, AckConfirm, HandleRetry,
                Ignore, Refuse, Decide
  <2> QED BY <2>1 DEF Goto
<1>4. ASSUME NEW w \in Worker, Record(w)
      PROVE  IdleForgets'
  BY <1>4 DEF Record, WriteRow, Mark, Violate, LogEvent, AfterMark, At, Goto
<1>5. ASSUME NEW w \in Worker, Judge(w)
      PROVE  IdleForgets'
  <2>1. CASE AdvanceCursor(w) \/ \E r \in Replica, k \in Key : ScanPair(w, r, k)
    BY <2>1 DEF AdvanceCursor, ScanPair, Goto
  <2>2. CASE SettleViolated(w) \/ SettleScanned(w)
    BY <2>2 DEF SettleViolated, SettleScanned, Settle, Return, Goto
  <2> QED BY <1>5, <2>1, <2>2 DEF Judge
<1>6. ASSUME NEW w \in Worker, Failure(w)
      PROVE  IdleForgets'
  <2>1. CASE Abort(w)
    BY <2>1 DEF Abort, Return, Goto
  <2>2. CASE RowFault(w) \/ MarkLost(w)
    BY <2>2 DEF RowFault, MarkLost, Refuse, Decide, AfterMark, Goto
  <2>3. CASE \E r \in Replica, k \in Key : ScanFault(w, r, k)
    BY <2>3 DEF ScanFault
  <2> QED BY <1>6, <2>1, <2>2, <2>3 DEF Failure
<1>7. CASE Tick \/ Crash \/ UNCHANGED vars
  BY <1>7 DEF Tick, Crash, vars, local
<1> QED BY <1>1, <1>2, <1>3, <1>4, <1>5, <1>6, <1>7 DEF Next, ReplayStep

\* A step that leaves what the replays have read, and where they are.
LEMMA LogFrame ==
    ASSUME TypeInv, TypeInv', LogInv, UniqueIds', IdleForgets', LogKept,
           UNCHANGED <<cursor, view, pos>>
    PROVE  LogInv'
<1>1. /\ log \in [Scenario -> Seq(Message)] /\ log' \in [Scenario -> Seq(Message)]
      /\ cursor \in [Scenario -> Nat]
  BY DEF TypeInv, TypeOK
<1>2. CursorWithinLog'
  BY <1>1 DEF LogInv, CursorWithinLog, LogKept
<1>3. ASSUME NEW w \in Worker
      PROVE  Within(w)' /\ Copied(w)'
  <2>1. /\ view[w].sc \in Scenario /\ view[w].start \in Nat
        /\ view[w].log \in Seq(Message) /\ pos[w] \in Nat
    BY DEF TypeInv, TypeOK, View
  <2>2. Within(w)'
    <3> DEFINE n == Len(log[view[w].sc])  m == Len(log'[view[w].sc])
    <3>1. n \in Nat /\ m \in Nat /\ n <= m /\ Len(view[w].log) \in Nat
      BY <1>1, <2>1 DEF LogKept
    <3>2. /\ view[w].start <= n /\ Len(view[w].log) <= n /\ pos[w] <= n + 1
      BY DEF LogInv, Within
    <3> HIDE DEF n, m
    <3>3. view[w].start <= m /\ Len(view[w].log) <= m /\ pos[w] <= m + 1
      BY <2>1, <3>1, <3>2
    <3> QED BY <3>3 DEF m, Within
  <2>3. Copied(w)'
    <3> SUFFICES ASSUME NEW i \in 1 .. Len(view[w].log)
                 PROVE  Same(view[w].log[i], log'[view[w].sc][i])
      BY DEF Copied
    <3>1. Same(view[w].log[i], log[view[w].sc][i])
      BY DEF LogInv, Copied
    <3>2. Same(log'[view[w].sc][i], log[view[w].sc][i])
      BY <1>1, <2>1 DEF LogInv, Within, LogKept
    <3> QED BY <3>1, <3>2 DEF Same
  <2> QED BY <2>2, <2>3
<1> QED BY <1>2, <1>3 DEF LogInv

\* A step of one worker that leaves the log.
LEMMA LogStep ==
    ASSUME TypeInv, LogInv, IdleForgets', UNCHANGED log, NEW w \in Worker,
           CursorWithinLog', Within(w)', Copied(w)',
           \A u \in Worker \ {w} : view'[u] = view[u] /\ pos'[u] = pos[u]
    PROVE  LogInv'
<1>1. UniqueIds'
  BY DEF LogInv, UniqueIds
<1>2. ASSUME NEW u \in Worker \ {w}
      PROVE  Within(u)' /\ Copied(u)'
  BY <1>2 DEF LogInv, Within, Copied
<1> QED BY <1>1, <1>2 DEF LogInv

LEMMA LogReturn ==
    ASSUME TypeInv, TypeInv', LogInv, UniqueIds', IdleForgets', LogKept, NEW w \in Worker,
           Return(w), CursorWithinLog'
    PROVE  LogInv'
<1>1. ASSUME NEW u \in Worker
      PROVE  Within(u)' /\ Copied(u)'
  <2> DEFINE s == view'[u].sc  n == Len(log[s])  m == Len(log'[s])
  <2>1. s \in Scenario
    <3>1. view' \in [Worker -> View]
      BY DEF TypeInv, TypeOK
    <3> QED BY <3>1 DEF View
  <2>2. log[s] \in Seq(Message) /\ log'[s] \in Seq(Message)
    BY <2>1 DEF TypeInv, TypeOK
  <2>3. n \in Nat /\ m \in Nat /\ n <= m
    BY <2>1, <2>2 DEF LogKept
  <2>4. CASE u = w
    <3>1. view'[u] = NoView /\ pos'[u] = 0
      BY <2>4 DEF Return, TypeInv, TypeOK
    <3> HIDE DEF m
    <3>2. 0 <= m /\ 0 <= m + 1
      BY <2>3
    <3> QED BY <3>1, <3>2 DEF Within, Copied, NoView, m
  <2>5. CASE u # w
    <3>1. view'[u] = view[u] /\ pos'[u] = pos[u]
      BY <2>5 DEF Return, TypeInv, TypeOK
    <3>2. /\ view[u].log \in Seq(Message) /\ view[u].start \in Nat
          /\ pos[u] \in Nat
      BY DEF TypeInv, TypeOK, View
    <3>3. Len(view[u].log) \in Nat
      BY <3>2
    <3>4. /\ view[u].start <= n /\ Len(view[u].log) <= n /\ pos[u] <= n + 1
      BY <3>1 DEF LogInv, Within
    <3>5. Copied(u)'
      <4> SUFFICES ASSUME NEW i \in 1 .. Len(view[u].log)
                   PROVE  Same(view[u].log[i], log'[s][i])
        BY <3>1 DEF Copied
      <4>1. Same(view[u].log[i], log[s][i])
        BY <3>1 DEF LogInv, Copied
      <4>2. Same(log'[s][i], log[s][i])
        BY <2>1, <2>3, <3>3, <3>4 DEF LogKept
      <4> QED BY <4>1, <4>2 DEF Same
    <3> HIDE DEF n, m
    <3>6. view[u].start <= m /\ Len(view[u].log) <= m /\ pos[u] <= m + 1
      BY <2>3, <3>2, <3>3, <3>4
    <3> QED BY <3>1, <3>5, <3>6 DEF m, Within
  <2> QED BY <2>4, <2>5
<1> QED BY <1>1 DEF LogInv

LEMMA LogRequest ==
    ASSUME TypeInv, TypeInv', LogInv, UniqueIds', IdleForgets', LogKept,
           NEW w \in Worker, Request(w)
    PROVE  LogInv'
<1>1. CursorWithinLog' /\ UNCHANGED cursor
  <2>1. UNCHANGED cursor
    BY DEF Request, AppendCheck, ReplayGet, AppendInsert, AppendRefused,
           SourceRead, SourceWrite, RegisterReplica, SetReplicaStatus, db
  <2> QED BY <2>1 DEF TypeInv, TypeOK, LogInv, CursorWithinLog, LogKept
<1>2. ASSUME NEW s \in Scenario, ReplayGet(w, s)
      PROVE  LogInv'
  <2>1. view[w] = NoView /\ pos[w] = 0
    BY <1>2 DEF ReplayGet, At, LogInv, IdleForgets
  <2>2. /\ view'[w] = [NoView EXCEPT !.sc = s, !.start = cursor[s]]
        /\ pos'[w] = 0
        /\ \A u \in Worker \ {w} : view'[u] = view[u] /\ pos'[u] = pos[u]
    BY <1>2, <2>1 DEF ReplayGet, TypeInv, TypeOK
  <2>3. /\ view'[w].sc = s /\ view'[w].start = cursor[s]
        /\ view'[w].log = <<>>
    BY <2>2 DEF NoView
  <2>4. UNCHANGED log /\ Len(log[s]) \in Nat /\ cursor[s] <= Len(log[s])
    BY <1>2 DEF ReplayGet, db, TypeInv, TypeOK, LogInv, CursorWithinLog
  <2>5. Within(w)'
    BY <2>2, <2>3, <2>4 DEF Within
  <2>6. Copied(w)'
    BY <2>3 DEF Copied
  <2> QED BY <1>1, <2>2, <2>4, <2>5, <2>6, LogStep
<1>3. ASSUME AppendInsert(w) \/ AppendRefused(w) \/ SourceWrite(w)
      PROVE  LogInv'
  BY <1>1, <1>3, LogReturn DEF AppendInsert, AppendRefused, SourceWrite
<1>4. CASE \/ \E s \in Scenario : AppendCheck(w, s)
           \/ \E k \in Key, v \in SourceVersion : SourceRead(w, k, v)
           \/ \E r \in Replica : RegisterReplica(w, r)
           \/ \E r \in Replica, to \in {"healthy", "isolated"} :
                 SetReplicaStatus(w, r, to)
  BY <1>1, <1>4, LogFrame
     DEF AppendCheck, SourceRead, RegisterReplica, SetReplicaStatus, local
<1> QED BY <1>2, <1>3, <1>4 DEF Request

LEMMA LogReading ==
    ASSUME TypeInv, LogInv, IdleForgets', NEW w \in Worker, Reading(w)
    PROVE  LogInv'
<1> DEFINE s == view[w].sc  n == Len(log[s])
<1>1. /\ s \in Scenario /\ view[w].start \in Nat /\ view[w].log \in Seq(Message)
      /\ pos[w] \in Nat /\ log[s] \in Seq(Message)
  BY DEF TypeInv, TypeOK, View
<1>2. n \in Nat /\ Len(view[w].log) \in Nat
  BY <1>1
<1>3. /\ view[w].start <= n /\ Len(view[w].log) <= n /\ pos[w] <= n + 1
  BY DEF LogInv, Within
<1>4. UNCHANGED log
  BY DEF Reading, ReplayBegin, ReplayList, ReplayTopology, ReplaySources,
         Rebuild, RebuildDone, db
<1>5. CursorWithinLog'
  BY <1>1, <1>3, <1>4
     DEF Reading, ReplayBegin, ReplayList, ReplayTopology, ReplaySources,
         Rebuild, RebuildDone, db, LogInv, CursorWithinLog, TypeInv, TypeOK
<1>6. \A u \in Worker \ {w} : view'[u] = view[u] /\ pos'[u] = pos[u]
  BY DEF Reading, ReplayBegin, ReplayList, ReplayTopology, ReplaySources,
         Rebuild, RebuildDone, TypeInv, TypeOK
<1>7. CASE ReplayList(w)
  <2>1. /\ view'[w].sc = s /\ view'[w].start = view[w].start
        /\ view'[w].log = log[s] /\ pos'[w] = pos[w]
    BY <1>7 DEF ReplayList, TypeInv, TypeOK, View
  <2>2. Within(w)'
    BY <1>2, <1>3, <1>4, <2>1 DEF Within
  <2>3. Copied(w)'
    BY <1>4, <2>1 DEF Copied, Same
  <2> QED BY <1>4, <1>5, <1>6, <2>2, <2>3, LogStep
<1>8. CASE Reading(w) /\ ~ReplayList(w)
  <2>1. /\ view'[w].sc = s /\ view'[w].start = view[w].start
        /\ view'[w].log = view[w].log
    <3>1. CASE ReplayTopology(w)
      BY <3>1 DEF ReplayTopology, TypeInv, TypeOK, View
    <3>2. CASE ReplaySources(w)
      BY <3>2 DEF ReplaySources, TypeInv, TypeOK, View
    <3>3. CASE ReplayBegin(w) \/ Rebuild(w) \/ RebuildDone(w)
      BY <3>3 DEF ReplayBegin, Rebuild, RebuildDone
    <3> QED BY <1>8, <3>1, <3>2, <3>3 DEF Reading
  <2>2. pos'[w] <= n + 1
    <3>1. CASE Rebuild(w)
      <4>1. pos'[w] = pos[w] + 1 /\ pos[w] <= Len(view[w].log)
        BY <3>1 DEF Rebuild, InLog, TypeInv, TypeOK
      <4> HIDE DEF n
      <4> QED BY <1>1, <1>2, <1>3, <4>1
    <3>2. CASE RebuildDone(w)
      <4>1. pos'[w] = view[w].start + 1
        BY <3>2 DEF RebuildDone, TypeInv, TypeOK
      <4> HIDE DEF n
      <4> QED BY <1>1, <1>2, <1>3, <4>1
    <3>3. CASE ReplaySources(w)
      <4>1. pos'[w] = 1
        BY <3>3 DEF ReplaySources, TypeInv, TypeOK
      <4> HIDE DEF n
      <4> QED BY <1>2, <4>1
    <3>4. CASE ReplayBegin(w) \/ ReplayTopology(w)
      BY <1>3, <3>4 DEF ReplayBegin, ReplayTopology
    <3> QED BY <1>8, <3>1, <3>2, <3>3, <3>4 DEF Reading
  <2>3. Within(w)'
    BY <1>3, <1>4, <2>1, <2>2 DEF Within
  <2>4. Copied(w)'
    BY <1>4, <2>1 DEF Copied, LogInv
  <2> QED BY <1>4, <1>5, <1>6, <2>3, <2>4, LogStep
<1> QED BY <1>7, <1>8

LEMMA LogRecord ==
    ASSUME TypeInv, TypeInv', LogInv, UniqueIds', IdleForgets', LogKept,
           NEW w \in Worker, Record(w)
    PROVE  LogInv'
<1>1. CASE WriteRow(w) \/ Mark(w) \/ Violate(w)
  BY <1>1, LogFrame DEF WriteRow, Mark, Violate
<1>2. CASE LogEvent(w)
  <2>1. /\ UNCHANGED <<log, cursor, view>>
        /\ pos'[w] = pos[w] + 1 /\ pos[w] \in Nat
        /\ \A u \in Worker \ {w} : pos'[u] = pos[u]
        /\ pos[w] <= Len(view[w].log)
    BY <1>2 DEF LogEvent, At, TypeInv, TypeOK, PosOK, AtMessage, InRange
  <2>2. /\ view[w].log \in Seq(Message) /\ log[view[w].sc] \in Seq(Message)
    BY DEF TypeInv, TypeOK, View
  <2>3. Within(w) /\ Copied(w) /\ CursorWithinLog
    BY DEF LogInv
  <2>4. Within(w)'
    <3> DEFINE n == Len(log[view[w].sc])
    <3>1. n \in Nat /\ Len(view[w].log) \in Nat
      BY <2>2
    <3>2. view[w].start <= n /\ Len(view[w].log) <= n
      BY <2>3 DEF Within
    <3> HIDE DEF n
    <3>3. pos'[w] <= n + 1
      BY <2>1, <3>1, <3>2
    <3> QED BY <2>1, <3>2, <3>3 DEF n, Within
  <2> QED BY <2>1, <2>3, <2>4, LogStep DEF Copied, CursorWithinLog
<1> QED BY <1>1, <1>2 DEF Record

LEMMA LogJudge ==
    ASSUME TypeInv, TypeInv', LogInv, UniqueIds', IdleForgets', LogKept,
           NEW w \in Worker, Judge(w)
    PROVE  LogInv'
<1> DEFINE s == view[w].sc
<1>1. /\ s \in Scenario /\ view[w].start \in Nat /\ pos[w] \in Nat
      /\ log[s] \in Seq(Message)
  BY DEF TypeInv, TypeOK, View
\* The cursor a verdict is saved with counts messages of the log.
<1>2. NewCursor(w) <= Len(log[s])
  <2> DEFINE n == Len(log[s])
  <2>1. n \in Nat /\ pos[w] <= n + 1
    BY <1>1 DEF LogInv, Within
  <2> HIDE DEF n
  <2>2. NewCursor(w) <= n
    BY <1>1, <2>1 DEF NewCursor
  <2> QED BY <2>2 DEF n
<1>3. UNCHANGED log
  BY DEF Judge, AdvanceCursor, ScanPair, SettleViolated, SettleScanned, Settle,
         db
<1>4. CursorWithinLog'
  <2>1. UNCHANGED cursor \/ cursor' = [cursor EXCEPT ![s] = NewCursor(w)]
    BY DEF Judge, AdvanceCursor, ScanPair, SettleViolated, SettleScanned,
           Settle, db
  <2>2. cursor \in [Scenario -> Nat]
    BY DEF TypeInv, TypeOK
  <2> QED BY <1>1, <1>2, <1>3, <2>1, <2>2 DEF LogInv, CursorWithinLog
<1>5. CASE AdvanceCursor(w) \/ \E r \in Replica, k \in Key : ScanPair(w, r, k)
  <2>1. UNCHANGED <<view, pos>>
    BY <1>5 DEF AdvanceCursor, ScanPair
  <2> QED BY <1>3, <1>4, <2>1, LogStep DEF LogInv, Within, Copied
<1>6. CASE SettleViolated(w) \/ SettleScanned(w)
  BY <1>4, <1>6, LogReturn DEF SettleViolated, SettleScanned, Settle
<1> QED BY <1>5, <1>6 DEF Judge

LEMMA LogOther ==
    ASSUME TypeInv, TypeInv', LogInv, UniqueIds', IdleForgets', LogKept,
           NEW w \in Worker, Handle(w) \/ Failure(w)
    PROVE  LogInv'
<1>1. CASE Handle(w)
  <2>1. UNCHANGED <<cursor, view, pos>>
    BY <1>1 DEF Handle, RejectUnknown, HandleLease, HandleInvalidate,
                HandleUpdate, HandleAck, AckRelease, AckConfirm, HandleRetry,
                Ignore, Refuse, Decide, db
  <2> QED BY <2>1, LogFrame
<1>2. CASE Abort(w)
  BY <1>2, LogReturn DEF Abort, db, LogInv, CursorWithinLog
<1>3. CASE Failure(w) /\ ~Abort(w)
  <2>1. UNCHANGED <<cursor, view, pos>>
    BY <1>3 DEF Failure, RowFault, MarkLost, ScanFault, Refuse, Decide, db
  <2> QED BY <2>1, LogFrame
<1> QED BY <1>1, <1>2, <1>3

LEMMA LogNext == TypeInv /\ LogInv /\ [Next]_vars => LogInv'
<1> SUFFICES ASSUME TypeInv, LogInv, [Next]_vars PROVE LogInv'
  OBVIOUS
<1>1. TypeInv' /\ LogKept
  BY NextType, LogIsKept
<1>2. IdleForgets' /\ UniqueIds'
  BY IdleStep, UniqueIdsStep DEF LogInv
<1>3. CASE Tick \/ UNCHANGED vars
  BY <1>1, <1>2, <1>3, LogFrame DEF Tick, vars, db, local
<1>4. CASE Crash
  <2>1. CursorWithinLog' /\ UNCHANGED log
    BY <1>4 DEF Crash, db, LogInv, CursorWithinLog
  <2>2. ASSUME NEW w \in Worker
        PROVE  Within(w)' /\ Copied(w)'
    <3>1. view'[w] = NoView /\ pos'[w] = 0
      BY <1>4 DEF Crash
    <3>2. Len(log[SomeScenario]) \in Nat
      BY SomeScenarioType DEF TypeInv, TypeOK
    <3> QED BY <2>1, <3>1, <3>2 DEF Within, Copied, NoView
  <2> QED BY <1>2, <2>1, <2>2 DEF LogInv
<1>5. ASSUME NEW w \in Worker, Request(w) \/ ReplayStep(w) \/ Failure(w)
      PROVE  LogInv'
  BY <1>1, <1>2, <1>5, LogRequest, LogReading, LogOther, LogRecord, LogJudge
     DEF ReplayStep
<1> QED BY <1>3, <1>4, <1>5 DEF Next

LEMMA LogInit == Init => LogInv
<1> SUFFICES ASSUME Init PROVE LogInv
  OBVIOUS
<1>1. \A s \in Scenario : Len(log[s]) = 0
  BY DEF Init
<1>2. \A w \in Worker : view[w] = NoView /\ pos[w] = 0
  BY DEF Init
<1>3. IdleForgets /\ UniqueIds /\ CursorWithinLog
  BY <1>1, <1>2 DEF Init, IdleForgets, UniqueIds, CursorWithinLog
<1>4. \A w \in Worker : Within(w) /\ Copied(w)
  BY <1>1, <1>2, SomeScenarioType DEF Within, Copied, NoView
<1> QED BY <1>3, <1>4 DEF LogInv

LEMMA LogInvariant == Spec => [](TypeInv /\ LogInv)
BY InitType, NextType, LogInit, LogNext, PTL DEF Spec

\* The cursor saved by any of several overlapping replays counts messages that
\* are in the log: a later replay that begins there misses none.
THEOREM CursorAlwaysWithinLog == Spec => []CursorWithinLog
<1>1. LogInv => CursorWithinLog
  BY DEF LogInv
<1> QED BY <1>1, LogInvariant, PTL

\* No replay ever takes the duplicate branch of the engine: the unique index
\* keeps the ids of the log apart, and what a replay read is part of the log.
THEOREM NeverReplayedTwice == Spec => []NoReplayedId
<1>1. TypeInv /\ LogInv => NoReplayedId
  <2> SUFFICES ASSUME TypeInv, LogInv, NEW w \in Worker,
                      At(w, "step"), InLog(w), SeenBefore(w)
               PROVE  FALSE
    BY DEF NoReplayedId
  <2> DEFINE s == view[w].sc  p == pos[w]
  <2>1. PICK i \in 1 .. p - 1 : view[w].log[i].id = Here(w).id
    BY DEF SeenBefore
  <2>2. /\ s \in Scenario /\ view[w].log \in Seq(Message)
        /\ log[s] \in Seq(Message) /\ p \in Nat
    BY DEF TypeInv, TypeOK, View
  <2>3. i \in 1 .. Len(view[w].log) /\ p \in 1 .. Len(view[w].log) /\ i # p
    BY <2>2 DEF InLog
  <2>4. Len(view[w].log) <= Len(log[s])
    BY DEF LogInv, Within
  <2>5. log[s][i].id = log[s][p].id
    BY <2>1, <2>3 DEF LogInv, Copied, Same, Here
  <2>6. i \in 1 .. Len(log[s]) /\ p \in 1 .. Len(log[s])
    BY <2>2, <2>3, <2>4
  <2> QED BY <2>2, <2>3, <2>5, <2>6 DEF LogInv, UniqueIds
<1> QED BY <1>1, LogInvariant, PTL

=============================================================================
