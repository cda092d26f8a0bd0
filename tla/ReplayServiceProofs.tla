------------------------ MODULE ReplayServiceProofs ------------------------
(***************************************************************************)
(* Theorems about ReplayService, for any set of workers, any messages and  *)
(* any number of crashes and failed statements.                            *)
(***************************************************************************)
EXTENDS ReplayService, SequenceTheorems, TLAPS

USE ProtocolAssumption, ServiceAssumption

-----------------------------------------------------------------------------
(* Type correctness.  A replay that is at a message is within the log it   *)
(* read, behind the cursor it began at; a request about to write has       *)
(* something to write.                                                     *)

AtMessage == {"release", "confirm", "write", "mark", "violate", "trace"}

\* The position of a worker lies behind its cursor and inside what it read.
InRange(w) == /\ pos[w] \in Nat
              /\ pos[w] >= view[w].start + 1
              /\ pos[w] <= Len(view[w].log)

PosOK ==
    \A w \in Worker :
       /\ pc[w] = "rebuild" => pos[w] >= 1
       /\ pc[w] \in {"step", "scan", "verdict"} => pos[w] >= view[w].start + 1
       /\ pc[w] \in AtMessage => InRange(w)

FormOK ==
    \A w \in Worker :
       /\ pc[w] = "insert" => draft[w].msg \in Message
       /\ pc[w] = "commit" => offer[w] \in Key \X Nat

TypeInv == TypeOK /\ PosOK /\ FormOK

LEMMA SomeScenarioType == SomeScenario \in Scenario
BY DEF SomeScenario

LEMMA ResetTypes ==
    /\ NoView \in View /\ NoEff \in Effect /\ NoTally \in Tally
    /\ NoDraft \in Draft /\ NoOffer \in Offer
<1>1. NoView \in View
  BY SomeScenarioType DEF NoView, View, Topology, Sources
<1>2. NoEff \in Effect
  BY DEF NoEff, Effect, NoRow, Row, KeyStatus, MsgStatus
<1>3. NoTally \in Tally
  BY DEF NoTally, Tally
<1>4. NoDraft \in Draft /\ NoOffer \in Offer
  BY SomeScenarioType DEF NoDraft, Draft, NoOffer, Offer
<1> QED BY <1>1, <1>2, <1>3, <1>4

LEMMA InitType == Init => TypeInv
<1> SUFFICES ASSUME Init PROVE TypeInv
  OBVIOUS
<1>1. NoRow \in Row /\ NoLease \in Lease
  BY DEF NoRow, Row, KeyStatus, NoLease, Lease
<1>2. TypeOK
  BY <1>1, ResetTypes DEF Init, TypeOK, Status, PC, Topology, Sources
<1>3. PosOK /\ FormOK
  BY DEF Init, PosOK, FormOK, AtMessage
<1> QED BY <1>2, <1>3 DEF TypeInv

LEMMA ReturnType ==
    ASSUME TypeInv, NEW w \in Worker, Return(w),
           UNCHANGED leases,
           status' \in [Scenario -> Status], cursor' \in [Scenario -> Nat],
           log' \in [Scenario -> Seq(Message)], source' \in Sources,
           UNCHANGED <<rkv, replicas, violations, trace>>,
           crashes' \in 0 .. MaxCrashes, faults' \in 0 .. MaxFaults
    PROVE  TypeInv'
<1>1. TypeOK'
  BY ResetTypes DEF Return, Goto, TypeInv, TypeOK, PC
<1>2. PosOK' /\ FormOK'
  BY DEF Return, Goto, TypeInv, TypeOK, PosOK, FormOK, AtMessage, InRange
<1> QED BY <1>1, <1>2 DEF TypeInv

LEMMA HereType ==
    ASSUME TypeInv, NEW w \in Worker, InRange(w)
    PROVE  /\ Here(w) \in Message
           /\ Here(w).body \in Body
           /\ Here(w).body.key \in Key /\ Here(w).body.replica \in Replica
           /\ Here(w).body.version \in Int /\ Here(w).retries \in Int
<1>1. view[w].log \in Seq(Message) /\ view[w].start \in Nat
  BY DEF TypeInv, TypeOK, View
<1>2. pos[w] \in 1 .. Len(view[w].log)
  BY <1>1 DEF InRange
<1>3. Here(w) \in Message
  BY <1>1, <1>2 DEF Here
<1> QED BY <1>3 DEF Message, Body

LEMMA HandlingInRange ==
    ASSUME TypeInv, NEW w \in Worker, NEW kind, Handling(w, kind)
    PROVE  InRange(w)
BY DEF TypeInv, TypeOK, PosOK, Handling, At, InLog, InRange

LEMMA DecideType ==
    ASSUME TypeInv, NEW w \in Worker, InRange(w),
           NEW row \in Row, NEW mark \in MsgStatus, NEW next \in AtMessage,
           Decide(w, row, mark, next),
           leases' \in [Replica -> [Key -> Lease]],
           UNCHANGED <<db, request>>,
           crashes' \in 0 .. MaxCrashes, faults' \in 0 .. MaxFaults
    PROVE  TypeInv'
<1>1. TypeOK'
  <2>1. next \in PC
    BY DEF AtMessage, PC
  <2>2. [row |-> row, mark |-> mark] \in Effect
    BY DEF Effect
  <2> QED BY <2>1, <2>2 DEF Decide, Goto, TypeInv, TypeOK, db, request
<1>2. PosOK' /\ FormOK'
  BY DEF Decide, Goto, TypeInv, TypeOK, PosOK, FormOK, AtMessage, InRange, request
<1> QED BY <1>1, <1>2 DEF TypeInv

\* What the operators of Leases do to a table of leases.
LEMMA LeaseTableType ==
    ASSUME NEW table \in [Replica -> [Key -> Lease]],
           NEW r \in Replica, NEW k \in Key, NEW v \in Int
    PROVE  /\ GrantLease(table, r, k, v) \in [Replica -> [Key -> Lease]]
           /\ ReleaseLease(table, r, k) \in [Replica -> [Key -> Lease]]
<1>1. [version |-> v, left |-> TTL] \in Lease /\ NoLease \in Lease
  BY DEF Lease, NoLease
<1> QED BY <1>1 DEF GrantLease, ReleaseLease

LEMMA RequestType ==
    ASSUME TypeInv, NEW w \in Worker, Request(w)
    PROVE  TypeInv'
<1>1. ASSUME NEW s \in Scenario, AppendCheck(w, s)
      PROVE  TypeInv'
  <2>1. PICK id \in MsgId, c \in Content :
           draft' = [draft EXCEPT ![w] =
              [sc |-> s, msg |-> [id |-> id, body |-> c.body,
                                  status |-> "pending", retries |-> c.retries]]]
    BY <1>1 DEF AppendCheck
  <2> DEFINE m == [id |-> id, body |-> c.body,
                   status |-> "pending", retries |-> c.retries]
  <2>2. m \in Message
    BY DEF Message, MsgStatus
  <2>3. [sc |-> s, msg |-> m] \in Draft
    BY <2>2 DEF Draft
  <2> HIDE DEF m
  <2>4. draft' = [draft EXCEPT ![w] = [sc |-> s, msg |-> m]]
    BY <2>1 DEF m
  <2>5. TypeOK'
    BY <1>1, <2>3, <2>4 DEF AppendCheck, Goto, TypeInv, TypeOK, PC, db, budget
  <2>6. PosOK'
    BY <1>1 DEF AppendCheck, Goto, TypeInv, TypeOK, PosOK, AtMessage, InRange
  <2>7. FormOK'
    BY <1>1, <2>2, <2>4
       DEF AppendCheck, Goto, TypeInv, TypeOK, FormOK, Draft
  <2> QED BY <2>5, <2>6, <2>7 DEF TypeInv
<1>2. ASSUME NEW s \in Scenario, ReplayGet(w, s)
      PROVE  TypeInv'
  <2>1. view' \in [Worker -> View]
    BY <1>2 DEF ReplayGet, TypeInv, TypeOK, View
  <2>2. TypeOK'
    BY <1>2, <2>1 DEF ReplayGet, Goto, TypeInv, TypeOK, PC, db, request, budget
  <2>3. PosOK'
    BY <1>2 DEF ReplayGet, At, Goto, TypeInv, TypeOK, PosOK, AtMessage, InRange
  <2>4. FormOK'
    BY <1>2 DEF ReplayGet, Goto, TypeInv, TypeOK, FormOK, request
  <2> QED BY <2>2, <2>3, <2>4 DEF TypeInv
<1>3. CASE AppendInsert(w)
  <2> DEFINE s == draft[w].sc  m == draft[w].msg
  <2>1. s \in Scenario /\ m \in Message
    BY <1>3 DEF AppendInsert, At, TypeInv, TypeOK, FormOK, Draft
  <2>2. log' = [log EXCEPT ![s] = Append(@, m)]
    BY <1>3 DEF AppendInsert
  <2> HIDE DEF s, m
  <2>3. log' \in [Scenario -> Seq(Message)]
    BY <2>1, <2>2 DEF TypeInv, TypeOK
  <2> QED BY <1>3, <2>3, ReturnType DEF AppendInsert, TypeInv, TypeOK, budget
<1>4. CASE AppendRefused(w)
  BY <1>4, ReturnType DEF AppendRefused, TypeInv, TypeOK, db, budget
<1>5. ASSUME NEW k \in Key, NEW v \in SourceVersion, SourceRead(w, k, v)
      PROVE  TypeInv'
  <2>1. <<k, v>> \in Key \X Nat
    BY <1>5 DEF SourceRead
  <2>2. TypeOK'
    BY <1>5, <2>1
       DEF SourceRead, Goto, TypeInv, TypeOK, PC, Offer, db, budget
  <2>3. PosOK'
    BY <1>5 DEF SourceRead, Goto, TypeInv, TypeOK, PosOK, AtMessage, InRange
  <2>4. FormOK'
    BY <1>5, <2>1 DEF SourceRead, Goto, TypeInv, TypeOK, FormOK
  <2> QED BY <2>2, <2>3, <2>4 DEF TypeInv
<1>6. CASE SourceWrite(w)
  <2>1. source' \in Sources
    BY <1>6 DEF SourceWrite, At, TypeInv, TypeOK, FormOK, Sources
  <2> QED BY <1>6, <2>1, ReturnType DEF SourceWrite, TypeInv, TypeOK, budget
<1>7. ASSUME NEW r \in Replica,
             \/ RegisterReplica(w, r)
             \/ \E to \in {"healthy", "isolated"} : SetReplicaStatus(w, r, to)
      PROVE  TypeInv'
  <2>1. replicas' \in Topology
    BY <1>7 DEF RegisterReplica, SetReplicaStatus, TypeInv, TypeOK, Topology
  <2>2. UNCHANGED <<status, cursor, log, rkv, source, violations, trace,
                    leases, local, request, budget>>
    BY <1>7 DEF RegisterReplica, SetReplicaStatus
  <2> QED BY <2>1, <2>2
          DEF TypeInv, TypeOK, PosOK, FormOK, InRange, local, request, budget
<1> QED BY <1>1, <1>2, <1>3, <1>4, <1>5, <1>6, <1>7 DEF Request

LEMMA ReadingType ==
    ASSUME TypeInv, NEW w \in Worker, Reading(w)
    PROVE  TypeInv'
<1>1. CASE ReplayBegin(w)
  <2>1. view[w].sc \in Scenario /\ view[w].start \in Nat
    BY DEF TypeInv, TypeOK, View
  <2>2. /\ status' \in [Scenario -> Status]
        /\ cursor' \in [Scenario -> Nat]
    BY <1>1, <2>1 DEF ReplayBegin, TypeInv, TypeOK, Status
  <2>3. TypeOK'
    BY <1>1, <2>2
       DEF ReplayBegin, Goto, TypeInv, TypeOK, PC, request, budget
  <2>4. PosOK' /\ FormOK'
    BY <1>1 DEF ReplayBegin, Goto, TypeInv, TypeOK, PosOK, FormOK, AtMessage,
                InRange, request
  <2> QED BY <2>3, <2>4 DEF TypeInv
<1>2. ASSUME ReplayList(w) \/ ReplayTopology(w)
      PROVE  TypeInv'
  <2>0. log[view[w].sc] \in Seq(Message) /\ replicas \in Topology
    BY DEF TypeInv, TypeOK, View
  <2>1. view' \in [Worker -> View]
    <3>1. CASE ReplayList(w)
      BY <3>1, <2>0 DEF ReplayList, TypeInv, TypeOK, View
    <3>2. CASE ReplayTopology(w)
      BY <3>2, <2>0 DEF ReplayTopology, TypeInv, TypeOK, View
    <3> QED BY <1>2, <3>1, <3>2
  <2>2. TypeOK'
    BY <1>2, <2>1 DEF ReplayList, ReplayTopology, Goto, TypeInv, TypeOK, PC,
                      db, request, budget
  <2>3. PosOK' /\ FormOK'
    BY <1>2 DEF ReplayList, ReplayTopology, At, Goto, TypeInv, TypeOK, PosOK,
                FormOK, AtMessage, InRange, request
  <2> QED BY <2>2, <2>3 DEF TypeInv
<1>3. CASE ReplaySources(w)
  <2>1. view' \in [Worker -> View]
    BY <1>3 DEF ReplaySources, TypeInv, TypeOK, View
  <2>2. TypeOK'
    BY <1>3, <2>1
       DEF ReplaySources, Goto, TypeInv, TypeOK, PC, db, request, budget
  <2>3. PosOK' /\ FormOK'
    BY <1>3 DEF ReplaySources, Goto, TypeInv, TypeOK, PosOK, FormOK,
                AtMessage, InRange, request
  <2> QED BY <2>2, <2>3 DEF TypeInv
<1>4. CASE Rebuild(w)
  <2>1. Here(w) \in Message
    <3>1. pos[w] \in 1 .. Len(view[w].log)
      BY <1>4 DEF Rebuild, InLog, At, TypeInv, TypeOK, PosOK, View
    <3>2. view[w].log \in Seq(Message)
      BY DEF TypeInv, TypeOK, View
    <3> QED BY <3>1, <3>2 DEF Here
  <2>2. leases' \in [Replica -> [Key -> Lease]]
    BY <1>4, <2>1, LeaseTableType
       DEF Rebuild, TypeInv, TypeOK, Message, Body
  <2>3. TypeOK'
    BY <1>4, <2>2 DEF Rebuild, TypeInv, TypeOK, db, request, budget
  <2>4. PosOK' /\ FormOK'
    BY <1>4 DEF Rebuild, At, TypeInv, TypeOK, PosOK, FormOK, AtMessage,
                InRange, request
  <2> QED BY <2>3, <2>4 DEF TypeInv
<1>5. CASE RebuildDone(w)
  <2>1. view[w].start \in Nat
    BY DEF TypeInv, TypeOK, View
  <2>2. TypeOK'
    BY <1>5, <2>1
       DEF RebuildDone, Goto, TypeInv, TypeOK, PC, db, request, budget
  <2>3. PosOK' /\ FormOK'
    BY <1>5, <2>1 DEF RebuildDone, Goto, TypeInv, TypeOK, PosOK, FormOK,
                      AtMessage, InRange, request
  <2> QED BY <2>2, <2>3 DEF TypeInv
<1> QED BY <1>1, <1>2, <1>3, <1>4, <1>5 DEF Reading

LEMMA HandleType ==
    ASSUME TypeInv, NEW w \in Worker, Handle(w)
    PROVE  TypeInv'
<1> DEFINE m == Here(w).body
           cur == rkv[m.replica][m.key]
<1>1. NoRow \in Row
  BY DEF NoRow, Row, KeyStatus
<1>2. {"rejected", "delivered", "expired", "pending"} \subseteq MsgStatus
  BY DEF MsgStatus
<1>3. /\ crashes' \in 0 .. MaxCrashes /\ faults' \in 0 .. MaxFaults
      /\ UNCHANGED <<db, request>>
  BY DEF Handle, RejectUnknown, HandleLease, HandleInvalidate, HandleUpdate,
         HandleAck, AckRelease, AckConfirm, HandleRetry, Ignore, budget,
         TypeInv, TypeOK
<1>4. leases \in [Replica -> [Key -> Lease]]
  BY DEF TypeInv, TypeOK
<1>5. CASE RejectUnknown(w)
  <2>1. InRange(w)
    BY <1>5, HandlingInRange DEF RejectUnknown
  <2> QED BY <1>1, <1>2, <1>3, <1>4, <1>5, <2>1, DecideType
          DEF RejectUnknown, Refuse, AtMessage
<1>6. CASE HandleLease(w)
  <2>1. InRange(w)
    BY <1>6, HandlingInRange DEF HandleLease
  <2>2. leases' \in [Replica -> [Key -> Lease]]
    BY <1>4, <1>6, <2>1, HereType, LeaseTableType DEF HandleLease
  <2> QED BY <1>1, <1>2, <1>3, <1>6, <2>1, <2>2, DecideType
          DEF HandleLease, AtMessage
<1>7. CASE HandleInvalidate(w)
  <2>1. InRange(w)
    BY <1>7, HandlingInRange DEF HandleInvalidate
  <2>2. Invalidated(cur, m.version) \in Row
    BY <2>1, HereType DEF Invalidated, Row, KeyStatus
  <2> QED BY <1>1, <1>2, <1>3, <1>4, <1>7, <2>1, <2>2, DecideType
          DEF HandleInvalidate, Refuse, AtMessage
<1>8. CASE HandleUpdate(w)
  <2>1. InRange(w)
    BY <1>8, HandlingInRange DEF HandleUpdate
  <2>2. cur \in Row
    BY <2>1, HereType DEF TypeInv, TypeOK
  <2>3. Observed(cur, m.version) \in Row
    BY <2>1, <2>2, HereType DEF Observed, Row, KeyStatus
  <2>4. CASE ~ObserveOK(cur, m.version)
    BY <1>1, <1>2, <1>3, <1>4, <1>8, <2>1, <2>4, DecideType
       DEF HandleUpdate, Refuse, AtMessage
  <2>5. CASE ObserveOK(cur, m.version)
    <3> DEFINE next == IF Observed(cur, m.version) = cur THEN "mark" ELSE "write"
    <3>1. next \in AtMessage
      BY DEF AtMessage
    <3>2. Decide(w, Observed(cur, m.version), "delivered", next)
      BY <1>8, <2>5 DEF HandleUpdate
    <3> HIDE DEF next
    <3> QED BY <1>2, <1>3, <1>4, <1>8, <2>1, <2>3, <3>1, <3>2, DecideType
            DEF HandleUpdate
  <2> QED BY <2>4, <2>5
<1>9. CASE HandleAck(w)
  <2>1. InRange(w)
    BY <1>9, HandlingInRange DEF HandleAck
  <2> QED BY <1>1, <1>2, <1>3, <1>4, <1>9, <2>1, DecideType
          DEF HandleAck, Refuse, AtMessage
<1>10. CASE AckRelease(w)
  <2>1. InRange(w)
    BY <1>10 DEF AckRelease, At, TypeInv, PosOK, AtMessage
  <2>2. leases' \in [Replica -> [Key -> Lease]]
    BY <1>4, <1>10, <2>1, HereType, LeaseTableType DEF AckRelease
  <2>3. TypeOK'
    BY <1>10, <2>2 DEF AckRelease, Goto, TypeInv, TypeOK, PC, db, request, budget
  <2>4. PosOK' /\ FormOK'
    BY <1>10, <2>1 DEF AckRelease, Goto, TypeInv, TypeOK, PosOK, FormOK,
                       AtMessage, InRange, request
  <2> QED BY <2>3, <2>4 DEF TypeInv
<1>11. CASE AckConfirm(w)
  <2>1. InRange(w)
    BY <1>11 DEF AckConfirm, At, TypeInv, PosOK, AtMessage
  <2>2. cur \in Row
    BY <2>1, HereType DEF TypeInv, TypeOK
  <2>3. Confirmed(cur) \in Row
    BY <2>2 DEF Confirmed, Row, KeyStatus
  <2> QED BY <1>1, <1>2, <1>3, <1>4, <1>11, <2>1, <2>3, DecideType
          DEF AckConfirm, AtMessage
<1>12. CASE HandleRetry(w)
  <2>1. InRange(w)
    BY <1>12, HandlingInRange DEF HandleRetry
  <2>2. leases' \in [Replica -> [Key -> Lease]]
    BY <1>4, <1>12, <2>1, HereType, LeaseTableType DEF HandleRetry
  <2> QED BY <1>1, <1>2, <1>3, <1>12, <2>1, <2>2, DecideType
          DEF HandleRetry, AtMessage
<1>13. CASE Ignore(w)
  <2>1. InRange(w)
    BY <1>13, HandlingInRange DEF Ignore
  <2> QED BY <1>1, <1>2, <1>3, <1>4, <1>13, <2>1, DecideType
          DEF Ignore, AtMessage
<1> QED BY <1>5, <1>6, <1>7, <1>8, <1>9, <1>10, <1>11, <1>12, <1>13 DEF Handle

\* A message keeps its type when it is marked.
LEMMA MarkedType ==
    ASSUME NEW m \in Message, NEW read \in Message, NEW mark \in MsgStatus
    PROVE  Marked(m, read, mark) \in Message
<1>1. m.retries \in Int /\ read.retries \in Int
  BY DEF Message
<1> DEFINE n == IF read.body.kind # "retry" THEN m.retries
                ELSE IF mark = "delivered"  THEN read.retries + 1
                ELSE IF mark = "expired"    THEN read.retries
                ELSE m.retries
<1>2. n \in Int
  BY <1>1
<1>3. Marked(m, read, mark) = [m EXCEPT !.status = mark, !.retries = n]
  BY DEF Marked, Message
<1> HIDE DEF n
<1> QED BY <1>2, <1>3 DEF Message

LEMMA RecordType ==
    ASSUME TypeInv, NEW w \in Worker, Record(w)
    PROVE  TypeInv'
<1> DEFINE s == view[w].sc
<1>1. InRange(w) /\ view[w].sc \in Scenario /\ view[w].start \in Nat
  BY DEF Record, WriteRow, Mark, Violate, LogEvent, At, TypeInv, TypeOK, PosOK,
         AtMessage, View
<1>2. StepSeq(w) \in Nat
  BY <1>1 DEF StepSeq, InRange
<1>3. CASE WriteRow(w)
  <2>1. rkv' \in [Replica -> [Key -> Row]]
    <3>1. eff[w].row \in Row
      BY DEF TypeInv, TypeOK, Effect
    <3> QED BY <1>1, <1>3, <3>1, HereType DEF WriteRow, TypeInv, TypeOK
  <2>2. TypeOK'
    BY <1>3, <2>1 DEF WriteRow, Goto, TypeInv, TypeOK, PC, request, budget
  <2>3. PosOK' /\ FormOK'
    BY <1>1, <1>3 DEF WriteRow, Goto, TypeInv, TypeOK, PosOK, FormOK,
                      AtMessage, InRange, request
  <2> QED BY <2>2, <2>3 DEF TypeInv
<1>4. CASE Mark(w)
  <2>1. ASSUME NEW m \in Message PROVE Marked(m, Here(w), eff[w].mark) \in Message
    <3>1. eff[w].mark \in MsgStatus
      BY DEF TypeInv, TypeOK, Effect
    <3> QED BY <1>1, <3>1, HereType, MarkedType
  <2>2. log' \in [Scenario -> Seq(Message)]
    <3>1. log[s] \in Seq(Message)
      BY <1>1 DEF TypeInv, TypeOK
    <3>2. [log[s] EXCEPT ![pos[w]] = Marked(@, Here(w), eff[w].mark)]
             \in Seq(Message)
      <4>1. CASE pos[w] \in 1 .. Len(log[s])
        <5>1. log[s][pos[w]] \in Message
          BY <3>1, <4>1
        <5> QED BY <2>1, <3>1, <4>1, <5>1, ExceptSeq
      <4>2. CASE pos[w] \notin 1 .. Len(log[s])
        <5> DEFINE e == Marked(log[s][pos[w]], Here(w), eff[w].mark)
                   n == Len(log[s])
        <5>1. n \in Nat /\ log[s] \in [1 .. n -> Message]
          BY <3>1
        <5> HIDE DEF e, n
        <5>2. [log[s] EXCEPT ![pos[w]] = e] \in [1 .. n -> Message]
          BY <4>2, <5>1 DEF n
        <5>3. [log[s] EXCEPT ![pos[w]] = e] \in Seq(Message)
          BY <5>1, <5>2
        <5> QED BY <5>3 DEF e
      <4> QED BY <4>1, <4>2
    <3> QED BY <1>1, <1>4, <3>2 DEF Mark, TypeInv, TypeOK
  <2>3. TypeOK'
    BY <1>4, <2>2
       DEF Mark, AfterMark, Goto, TypeInv, TypeOK, PC, request, budget
  <2>4. PosOK' /\ FormOK'
    BY <1>1, <1>4 DEF Mark, AfterMark, Goto, TypeInv, TypeOK, PosOK, FormOK,
                      AtMessage, InRange, request
  <2> QED BY <2>3, <2>4 DEF TypeInv
<1>5. CASE Violate(w)
  <2>1. violations' \in [Scenario -> Seq(Nat)]
    <3>1. violations \in [Scenario -> Seq(Nat)]
      BY DEF TypeInv, TypeOK
    <3>2. violations' = [violations EXCEPT ![s] = Append(@, StepSeq(w))]
      BY <1>5 DEF Violate, AppendViolation
    <3> QED BY <1>1, <1>2, <3>1, <3>2, AppendProperties
  <2>2. tally' \in [Worker -> Tally]
    BY <1>5 DEF Violate, TypeInv, TypeOK, Tally
  <2>3. TypeOK'
    BY <1>5, <2>1, <2>2 DEF Violate, Goto, TypeInv, TypeOK, PC, request, budget
  <2>4. PosOK' /\ FormOK'
    BY <1>1, <1>5 DEF Violate, Goto, TypeInv, TypeOK, PosOK, FormOK,
                      AtMessage, InRange, request
  <2> QED BY <2>3, <2>4 DEF TypeInv
<1>6. CASE LogEvent(w)
  <2>1. trace' \in [Scenario -> Seq(Nat)]
    <3>1. trace \in [Scenario -> Seq(Nat)]
      BY DEF TypeInv, TypeOK
    <3>2. trace' = [trace EXCEPT ![s] = Append(@, StepSeq(w))]
      BY <1>6 DEF LogEvent
    <3> QED BY <1>1, <1>2, <3>1, <3>2, AppendProperties
  <2>2. /\ pos' \in [Worker -> Nat]
        /\ eff' \in [Worker -> Effect]
    BY <1>6, ResetTypes DEF LogEvent, TypeInv, TypeOK
  <2>3. TypeOK'
    BY <1>6, <2>1, <2>2
       DEF LogEvent, Goto, TypeInv, TypeOK, PC, request, budget
  <2>4. PosOK' /\ FormOK'
    BY <1>1, <1>6 DEF LogEvent, Goto, TypeInv, TypeOK, PosOK, FormOK,
                      AtMessage, InRange, request
  <2> QED BY <2>3, <2>4 DEF TypeInv
<1> QED BY <1>3, <1>4, <1>5, <1>6 DEF Record

\* The cursor a verdict is saved with.
LEMMA NewCursorType ==
    ASSUME TypeInv, NEW w \in Worker, pc[w] \in {"step", "scan", "verdict"}
    PROVE  NewCursor(w) = pos[w] - 1 /\ NewCursor(w) \in Nat
<1>1. view[w].start \in Nat /\ pos[w] \in Nat /\ pos[w] >= view[w].start + 1
  BY DEF TypeInv, TypeOK, PosOK, View
<1> QED BY <1>1 DEF NewCursor

LEMMA ScannedType ==
    ASSUME TypeInv, NEW w \in Worker, NEW r \in Replica, NEW k \in Key,
           NEW ok \in BOOLEAN, Scanned(w, r, k, ok)
    PROVE  tally' \in [Worker -> Tally]
<1> DEFINE todo   == IF ok THEN tally[w].todo \ {<<r, k>>}
                     ELSE {p \in tally[w].todo : p[1] # r}
           unconv == IF ok THEN tally[w].unconv ELSE tally[w].unconv \union {r}
<1>1. tally \in [Worker -> Tally]
  BY DEF TypeInv, TypeOK
<1>2. todo \in SUBSET (Replica \X Key) /\ unconv \in SUBSET Replica
  BY <1>1 DEF Tally
<1>3. tally' = [tally EXCEPT ![w].todo = todo, ![w].unconv = unconv]
  BY <1>1 DEF Scanned, Tally
<1> HIDE DEF todo, unconv
<1> QED BY <1>1, <1>2, <1>3 DEF Tally

LEMMA JudgeType ==
    ASSUME TypeInv, NEW w \in Worker, Judge(w)
    PROVE  TypeInv'
<1> DEFINE s == view[w].sc
<1>1. s \in Scenario
  BY DEF TypeInv, TypeOK, View
<1>2. CASE AdvanceCursor(w)
  <2>1. NewCursor(w) \in Nat
    BY <1>2, NewCursorType DEF AdvanceCursor, At
  <2>2. /\ status' \in [Scenario -> Status]
        /\ cursor' \in [Scenario -> Nat]
    BY <1>1, <1>2, <2>1 DEF AdvanceCursor, TypeInv, TypeOK, Status
  <2>3. tally' \in [Worker -> Tally]
    <3>1. Allowed(w) \X Sourced(w) \in SUBSET (Replica \X Key)
      BY DEF Allowed, Sourced
    <3>2. tally \in [Worker -> Tally]
      BY DEF TypeInv, TypeOK
    <3>3. \A S \in SUBSET (Replica \X Key) :
             [tally EXCEPT ![w].todo = S] \in [Worker -> Tally]
      BY <3>2 DEF Tally
    <3>4. \/ tally' = tally
          \/ tally' = [tally EXCEPT ![w].todo = Allowed(w) \X Sourced(w)]
      BY <1>2 DEF AdvanceCursor
    <3> QED BY <3>1, <3>2, <3>3, <3>4
  <2>4. pc' \in [Worker -> PC]
    BY <1>2 DEF AdvanceCursor, Goto, TypeInv, TypeOK, PC
  <2>5. TypeOK'
    BY <1>2, <2>2, <2>3, <2>4 DEF AdvanceCursor, TypeInv, TypeOK, request, budget
  <2>6. PosOK' /\ FormOK'
    BY <1>2 DEF AdvanceCursor, At, Goto, TypeInv, TypeOK, PosOK, FormOK,
                AtMessage, InRange, request
  <2> QED BY <2>5, <2>6 DEF TypeInv
<1>3. ASSUME NEW r \in Replica, NEW k \in Key, ScanPair(w, r, k)
      PROVE  TypeInv'
  <2>1. tally' \in [Worker -> Tally]
    BY <1>3, ScannedType DEF ScanPair, ConvergedFor
  <2>2. TypeOK'
    BY <1>3, <2>1 DEF ScanPair, TypeInv, TypeOK, db, request, budget
  <2>3. PosOK' /\ FormOK'
    BY <1>3 DEF ScanPair, TypeInv, PosOK, FormOK, InRange, request
  <2> QED BY <2>2, <2>3 DEF TypeInv
<1>4. ASSUME NEW v \in Settled, Settle(w, v), pc[w] \in {"scan", "verdict"}
      PROVE  TypeInv'
  <2>1. NewCursor(w) \in Nat
    BY <1>4, NewCursorType
  <2>2. /\ status' \in [Scenario -> Status]
        /\ cursor' \in [Scenario -> Nat]
    BY <1>1, <1>4, <2>1
       DEF Settle, TypeInv, TypeOK, Status, Settled, Final
  <2> QED BY <1>4, <2>2, ReturnType DEF Settle, TypeInv, TypeOK, budget
<1>5. CASE SettleViolated(w)
  BY <1>4, <1>5 DEF SettleViolated, At, Settled, Final
<1>6. CASE SettleScanned(w)
  BY <1>4, <1>6 DEF SettleScanned, At, Settled, Final
<1> QED BY <1>2, <1>3, <1>5, <1>6 DEF Judge

LEMMA FailureType ==
    ASSUME TypeInv, NEW w \in Worker, Failure(w)
    PROVE  TypeInv'
<1>1. crashes' \in 0 .. MaxCrashes /\ faults' \in 0 .. MaxFaults
  <2>1. Fault
    BY DEF Failure, Abort, RowFault, MarkLost, ScanFault
  <2> QED BY <2>1 DEF Fault, TypeInv, TypeOK
<1>2. CASE Abort(w)
  BY <1>1, <1>2, ReturnType DEF Abort, TypeInv, TypeOK, db
<1>3. CASE RowFault(w)
  <2>1. InRange(w)
    BY <1>3, HandlingInRange DEF RowFault, TypeInv, PosOK, AtMessage
  <2>2. NoRow \in Row /\ {"delivered", "rejected"} \subseteq MsgStatus
    BY DEF NoRow, Row, KeyStatus, MsgStatus
  <2> QED BY <1>1, <1>3, <2>1, <2>2, DecideType
          DEF RowFault, Refuse, AtMessage, TypeInv, TypeOK
<1>4. CASE MarkLost(w)
  <2>1. TypeOK'
    BY <1>1, <1>4
       DEF MarkLost, AfterMark, Goto, TypeInv, TypeOK, PC, db, request
  <2>2. PosOK' /\ FormOK'
    BY <1>4 DEF MarkLost, AfterMark, At, Goto, TypeInv, TypeOK, PosOK, FormOK,
                AtMessage, InRange, request
  <2> QED BY <2>1, <2>2 DEF TypeInv
<1>5. ASSUME NEW r \in Replica, NEW k \in Key, ScanFault(w, r, k)
      PROVE  TypeInv'
  <2>1. tally' \in [Worker -> Tally]
    BY <1>5, ScannedType DEF ScanFault
  <2>2. TypeOK'
    BY <1>1, <1>5, <2>1 DEF ScanFault, TypeInv, TypeOK, db, request
  <2>3. PosOK' /\ FormOK'
    BY <1>5 DEF ScanFault, TypeInv, PosOK, FormOK, InRange, request
  <2> QED BY <2>2, <2>3 DEF TypeInv
<1> QED BY <1>2, <1>3, <1>4, <1>5 DEF Failure

LEMMA EnvironmentType ==
    ASSUME TypeInv, Tick \/ Crash
    PROVE  TypeInv'
<1>1. CASE Tick
  <2>1. \A l \in Lease : Aged(l) \in Lease
    BY DEF Aged, Lease, NoLease
  <2>2. leases' \in [Replica -> [Key -> Lease]]
    BY <1>1, <2>1 DEF Tick, TypeInv, TypeOK
  <2> QED BY <1>1, <2>2 DEF Tick, TypeInv, TypeOK, PosOK, FormOK, InRange,
                            db, local, request, budget
<1>2. CASE Crash
  <2>1. leases' \in [Replica -> [Key -> Lease]]
    BY <1>2 DEF Crash, NoLease, Lease
  <2>2. TypeOK'
    BY <1>2, <2>1, ResetTypes DEF Crash, TypeInv, TypeOK, PC, db
  <2>3. PosOK' /\ FormOK'
    BY <1>2 DEF Crash, PosOK, FormOK, AtMessage
  <2> QED BY <2>2, <2>3 DEF TypeInv
<1> QED BY <1>1, <1>2

LEMMA NextType == TypeInv /\ [Next]_vars => TypeInv'
<1> SUFFICES ASSUME TypeInv, [Next]_vars PROVE TypeInv'
  OBVIOUS
<1>1. CASE UNCHANGED vars
  BY <1>1 DEF vars, db, local, request, budget, TypeInv, TypeOK, PosOK, FormOK,
              InRange
<1>2. ASSUME NEW w \in Worker, Request(w) \/ ReplayStep(w) \/ Failure(w)
      PROVE  TypeInv'
  BY <1>2, RequestType, ReadingType, HandleType, RecordType, JudgeType,
     FailureType DEF ReplayStep
<1> QED BY <1>1, <1>2, EnvironmentType DEF Next

LEMMA TypeInvariant == Spec => []TypeInv
BY InitType, NextType, PTL DEF Spec

\* Every variable keeps its type, whatever crashes, fails or overlaps.
THEOREM TypeCorrect == Spec => []TypeOK
<1>1. TypeInv => TypeOK
  BY DEF TypeInv
<1> QED BY <1>1, TypeInvariant, PTL

=============================================================================
