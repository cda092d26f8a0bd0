--------------------------- MODULE RegistryProofs ---------------------------
(***************************************************************************)
(* What requests of several statements store about scenarios: what of it   *)
(* is true although everything overlaps, and what is true for ever when    *)
(* appends and replays come one after the other.  The steps of Registry    *)
(* are steps of ReplayService, whose invariants carry over.                *)
(***************************************************************************)
EXTENDS Registry, ReplaySequentialProofs, FiniteSetTheorems

USE ProtocolAssumption, ServiceAssumption, RegistryAssumption

-----------------------------------------------------------------------------
(* The steps of Registry are steps of the service *)

LEMMA CreatedScenarios ==
    ASSUME RegistryTypeOK
    PROVE  Created \subseteq Scenario
<1> DEFINE Entry == [sc : Scenario, finger : [Digests -> Nat]]
<1>1. scenarios \in Seq(Entry)
  BY DEF RegistryTypeOK
<1> HIDE DEF Entry
<1>2. ASSUME NEW i \in DOMAIN scenarios
      PROVE  scenarios[i].sc \in Scenario
  <2>1. scenarios[i] \in Entry
    BY <1>1, <1>2, LenProperties
  <2> QED BY <2>1 DEF Entry
<1> QED BY <1>2 DEF Created

\* What a creation carries.
LEMMA CreationParts ==
    ASSUME RegistryTypeOK, NEW w \in Worker
    PROVE  /\ creation[w].at \in {"none", "insert", "append"}
           /\ Making(w, "none") => creation[w] = NoCreation
           /\ Making(w, "insert") => /\ creation[w].msgs \in Creations
                                     /\ creation[w].reused \in BOOLEAN
           /\ Making(w, "append") =>
                 /\ creation[w].msgs \in Creations
                 /\ creation[w].reused \in BOOLEAN
                 /\ creation[w].sc \in Scenario
                 /\ creation[w].done \in 0 .. Len(creation[w].msgs)
                 /\ creation[w] = [at |-> "append", msgs |-> creation[w].msgs,
                                   reused |-> creation[w].reused,
                                   sc |-> creation[w].sc,
                                   done |-> creation[w].done]
<1>1. creation[w] \in Creation
  BY DEF RegistryTypeOK
<1>2. CASE creation[w] = NoCreation
  BY <1>2 DEF NoCreation, Making
<1>3. CASE creation[w] \in [at : {"insert"}, msgs : Creations, reused : BOOLEAN]
  BY <1>3 DEF Making
<1>4. CASE creation[w] \in [at : {"append"}, msgs : Creations, reused : BOOLEAN,
                            sc : Scenario, done : Nat]
  <2>1. /\ creation[w].at = "append" /\ creation[w].msgs \in Creations
        /\ creation[w].reused \in BOOLEAN /\ creation[w].sc \in Scenario
        /\ creation[w].done \in Nat
        /\ creation[w] = [at |-> "append", msgs |-> creation[w].msgs,
                          reused |-> creation[w].reused,
                          sc |-> creation[w].sc, done |-> creation[w].done]
    BY <1>4
  <2>2. creation[w].done <= Len(creation[w].msgs)
    BY <2>1 DEF RegistryTypeOK
  <2>3. Len(creation[w].msgs) \in Nat
    <3>1. PICK n \in 0 .. MaxCreated : creation[w].msgs \in [1 .. n -> Sendable]
      BY <2>1 DEF Creations
    <3>2. creation[w].msgs \in Seq(Sendable)
      BY <3>1
    <3> QED BY <3>2
  <2> QED BY <2>1, <2>2, <2>3 DEF Making
<1> QED BY <1>1, <1>2, <1>3, <1>4 DEF Creation

LEMMA ServiceStep ==
    ASSUME RegistryTypeOK, [RegistryNext]_registryVars
    PROVE  [Next]_vars
<1>1. ASSUME NEW w \in Worker, Create(w)
      PROVE  [Next]_vars
  <2>1. CASE CreateCheck(w)
    <3>1. creation[w].sc \in Scenario
      BY <2>1, CreationParts DEF CreateCheck, Incomplete
    <3> QED BY <2>1, <3>1 DEF CreateCheck, Request, Next
  <2>2. CASE CreateAppend(w) \/ CreateRefused(w)
    BY <2>2 DEF CreateAppend, CreateRefused, Request, Next
  <2>3. CASE CreateFails(w)
    BY <2>3 DEF CreateFails, Failure, Next
  <2>4. CASE \/ \E msgs \in Creations : CreateFind(w, msgs)
             \/ \E s \in Scenario : CreateInsert(w, s)
             \/ CreateClosed(w) \/ CreateAnswer(w)
    BY <2>4 DEF CreateFind, CreateInsert, CreateClosed, CreateAnswer
  <2> QED BY <1>1, <2>1, <2>2, <2>3, <2>4 DEF Create
<1>2. ASSUME NEW w \in Worker, Serves(w)
      PROVE  [Next]_vars
  <2>1. OtherRequest(w) => Request(w)
    BY CreatedScenarios DEF OtherRequest, Request
  <2> QED BY <1>2, <2>1 DEF Serves, Next
<1>3. ASSUME NEW c \in Client, Freeze(c) \/ Build(c) \/ Fail(c)
      PROVE  UNCHANGED vars
  BY <1>3 DEF Freeze, FreezeGet, FreezeList, FreezeCreate, FreezeSpec, Build,
              BuildGet, BuildList, InsertProof, Fail
<1>4. CASE TimePasses \/ Dies
  BY <1>4 DEF TimePasses, Dies, Next
<1>5. CASE UNCHANGED registryVars
  BY <1>5 DEF registryVars
<1> QED BY <1>1, <1>2, <1>3, <1>4, <1>5 DEF RegistryNext

\* Who writes what of the registry.
LEMMA CreationWriters ==
    ASSUME [RegistryNext]_registryVars
    PROVE  \/ UNCHANGED creation
           \/ creation' = [w \in Worker |-> NoCreation]
           \/ \E w \in Worker : Create(w)
BY DEF RegistryNext, registryVars, Serves, Freeze, FreezeGet, FreezeList,
       FreezeCreate, FreezeSpec, Build, BuildGet, BuildList, InsertProof, Fail,
       TimePasses, Dies

LEMMA JobWriters ==
    ASSUME [RegistryNext]_registryVars
    PROVE  \/ UNCHANGED <<job, specs, proofs>>
           \/ job' = [c \in Client |-> NoJob] /\ UNCHANGED <<specs, proofs>>
           \/ \E c \in Client : (Freeze(c) \/ Build(c) \/ Fail(c)) /\ UNCHANGED vars
<1>1. ASSUME NEW w \in Worker, Create(w)
      PROVE  UNCHANGED <<job, specs, proofs>>
  BY <1>1 DEF Create, CreateFind, CreateInsert, CreateCheck, CreateAppend,
              CreateRefused, CreateClosed, CreateFails, CreateAnswer, tables
<1>2. ASSUME NEW c \in Client, Freeze(c) \/ Build(c) \/ Fail(c)
      PROVE  UNCHANGED vars
  BY <1>2 DEF Freeze, FreezeGet, FreezeList, FreezeCreate, FreezeSpec, Build,
              BuildGet, BuildList, InsertProof, Fail
<1> QED BY <1>1, <1>2 DEF RegistryNext, registryVars, tables, Serves, TimePasses, Dies

-----------------------------------------------------------------------------
(* Data *)

LEMMA FingerprintTyped ==
    ASSUME NEW msgs \in Creations
    PROVE  Fingerprint(msgs) \in [Digests -> Nat]
<1>1. PICK n \in 0 .. MaxCreated : msgs \in [1 .. n -> Sendable]
  BY DEF Creations
<1>2. n \in Nat /\ DOMAIN msgs = 1 .. n
  BY <1>1
<1>3. ASSUME NEW d \in Digests
      PROVE  Cardinality({i \in DOMAIN msgs : Digest(msgs[i]) = d}) \in Nat
  <2>1. IsFiniteSet(1 .. n)
    BY <1>2, FS_Interval
  <2>2. IsFiniteSet({i \in DOMAIN msgs : Digest(msgs[i]) = d})
    BY <1>2, <2>1, FS_Subset
  <2> QED BY <2>2, FS_CardinalityType
<1> QED BY <1>3 DEF Fingerprint

LEMMA SentTyped ==
    ASSUME TypeInv, NEW s \in Scenario
    PROVE  /\ Sent(s) \in Script
           /\ Len(Sent(s)) = Len(log[s]) /\ Len(Sent(s)) \in Nat
           /\ DOMAIN Sent(s) = 1 .. Len(log[s])
<1>1. log[s] \in Seq(Message)
  BY DEF TypeInv, TypeOK
<1>2. Sent(s) = Letters(log[s])
  BY SentLetters
<1>3. /\ Letters(log[s]) \in Script
      /\ Len(Letters(log[s])) = Len(log[s])
      /\ DOMAIN Letters(log[s]) = 1 .. Len(log[s])
  BY <1>1, LettersShape DEF Script, Envelope
<1>4. Len(log[s]) \in Nat
  BY <1>1
<1> HIDE DEF Script
<1> QED BY <1>2, <1>3, <1>4

-----------------------------------------------------------------------------
(* A creation waits for the statement of its worker: a worker that creates *)
(* is idle between two messages, or about to insert the next of them.      *)

Carrying(w) ==
    /\ Making(w, "insert") => At(w, "idle")
    /\ Making(w, "append") =>
          \/ At(w, "idle")
          \/ /\ At(w, "insert") /\ Incomplete(w)
             /\ draft[w].sc = creation[w].sc
             /\ draft[w].msg = creation[w].msgs[creation[w].done + 1]

\* A worker moves nobody but itself.
LEMMA WorkersApart ==
    ASSUME TypeInv, NEW w \in Worker, NEW u \in Worker, u # w,
           Request(u) \/ ReplayStep(u) \/ Failure(u)
    PROVE  pc'[w] = pc[w] /\ draft'[w] = draft[w]
<1>1. pc \in [Worker -> PC] /\ draft \in [Worker -> Draft]
  BY DEF TypeInv, TypeOK
<1> USE <1>1 DEF Goto
<1>2. ASSUME Return(u)
      PROVE  pc'[w] = pc[w] /\ draft'[w] = draft[w]
  BY <1>2 DEF Return
<1>3. CASE Request(u)
  BY <1>3 DEF Request, AppendCheck, ReplayGet, AppendInsert, AppendRefused,
              SourceRead, SourceWrite, RegisterReplica, SetReplicaStatus,
              Return, local, request
<1>4. CASE Reading(u)
  BY <1>4 DEF Reading, ReplayBegin, ReplayList, ReplayTopology, ReplaySources,
              Rebuild, RebuildDone, request
<1>5. CASE Handle(u)
  BY <1>5 DEF Handle, RejectUnknown, HandleLease, HandleInvalidate,
              HandleUpdate, HandleAck, AckRelease, AckConfirm, HandleRetry,
              Ignore, Refuse, Decide, request
<1>6. CASE Record(u)
  BY <1>6 DEF Record, WriteRow, Mark, Violate, LogEvent, request
<1>7. CASE Judge(u)
  <2>1. CASE AdvanceCursor(u)
    BY <2>1 DEF AdvanceCursor, request
  <2>2. CASE \E r \in Replica, k \in Key : ScanPair(u, r, k)
    BY <2>2 DEF ScanPair, request
  <2>3. CASE SettleViolated(u)
    BY <2>3, <1>2 DEF SettleViolated, Settle
  <2>4. CASE SettleScanned(u)
    BY <2>4, <1>2 DEF SettleScanned, Settle
  <2> QED BY <1>7, <2>1, <2>2, <2>3, <2>4 DEF Judge
<1>8. CASE Failure(u)
  <2>1. CASE Abort(u)
    BY <2>1, <1>2 DEF Abort
  <2>2. CASE RowFault(u)
    BY <2>2 DEF RowFault, Refuse, Decide, request
  <2>3. CASE MarkLost(u)
    BY <2>3 DEF MarkLost, request
  <2>4. CASE \E r \in Replica, k \in Key : ScanFault(u, r, k)
    BY <2>4 DEF ScanFault, request
  <2> QED BY <1>8, <2>1, <2>2, <2>3, <2>4 DEF Failure
<1> QED BY <1>3, <1>4, <1>5, <1>6, <1>7, <1>8 DEF ReplayStep

\* What a step is to one worker.
LEMMA WorkerStep ==
    ASSUME TypeInv, RegistryTypeOK, [RegistryNext]_registryVars, NEW w \in Worker
    PROVE  \/ creation'[w] = creation[w] /\ pc'[w] = pc[w] /\ draft'[w] = draft[w]
           \/ creation'[w] = creation[w] /\ Making(w, "none")
           \/ creation'[w] = NoCreation
           \/ Create(w)
<1>1. ASSUME NEW u \in Worker, u # w, Create(u)
      PROVE  creation'[w] = creation[w] /\ pc'[w] = pc[w] /\ draft'[w] = draft[w]
  <2>1. creation \in [Worker -> Creation]
    BY DEF RegistryTypeOK
  <2>2. creation'[w] = creation[w]
    BY <1>1, <2>1 DEF Create, CreateFind, CreateInsert, CreateCheck,
       CreateAppend, CreateRefused, CreateClosed, CreateFails, CreateAnswer,
       AppendFailed, Make
  <2>3. Request(u) \/ Failure(u) \/ UNCHANGED vars
    <3>1. CASE CreateCheck(u)
      <4>1. creation[u].sc \in Scenario
        BY <3>1, CreationParts DEF CreateCheck, Incomplete
      <4> QED BY <3>1, <4>1 DEF CreateCheck, Request
    <3>2. CASE Create(u) /\ ~CreateCheck(u)
      BY <3>2 DEF Create, CreateFind, CreateInsert, CreateAppend, CreateRefused,
                  CreateClosed, CreateFails, CreateAnswer, Request, Failure
    <3> QED BY <1>1, <3>1, <3>2
  <2> QED BY <1>1, <2>2, <2>3, WorkersApart DEF vars, local, request
<1>2. ASSUME NEW u \in Worker, Serves(u)
      PROVE  \/ creation'[w] = creation[w] /\ pc'[w] = pc[w] /\ draft'[w] = draft[w]
             \/ creation'[w] = creation[w] /\ Making(w, "none")
  <2>1. OtherRequest(u) => Request(u)
    BY CreatedScenarios DEF OtherRequest, Request
  <2> QED BY <1>2, <2>1, WorkersApart DEF Serves
<1>3. CASE Dies
  BY <1>3 DEF Dies
<1>4. CASE \/ \E c \in Client : Freeze(c) \/ Build(c) \/ Fail(c)
           \/ TimePasses \/ UNCHANGED registryVars
  BY <1>4 DEF Freeze, FreezeGet, FreezeList, FreezeCreate, FreezeSpec, Build,
     BuildGet, BuildList, InsertProof, Fail, TimePasses, Tick, registryVars,
     vars, local, request
<1> QED BY <1>1, <1>2, <1>3, <1>4 DEF RegistryNext

LEMMA CarryingStep ==
    ASSUME TypeInv, RegistryTypeOK, [RegistryNext]_registryVars,
           NEW w \in Worker, Carrying(w)
    PROVE  Carrying(w)'
<1>1. creation \in [Worker -> Creation] /\ pc \in [Worker -> PC]
      /\ draft \in [Worker -> Draft]
  BY DEF RegistryTypeOK, TypeInv, TypeOK
<1>2. CASE \E msgs \in Creations : CreateFind(w, msgs)
  BY <1>1, <1>2 DEF CreateFind, Make, Making, Carrying, At, vars, local
<1>3. CASE \E s \in Scenario : CreateInsert(w, s)
  BY <1>1, <1>3 DEF CreateInsert, Make, Making, Carrying, At, vars, local
<1>4. CASE CreateCheck(w)
  <2>1. /\ pc'[w] = "insert" /\ draft'[w].sc = creation[w].sc
        /\ draft'[w].msg = creation[w].msgs[creation[w].done + 1]
        /\ creation' = creation /\ Incomplete(w)
    BY <1>1, <1>4 DEF CreateCheck, AppendCheck, Goto
  <2> QED BY <2>1 DEF Carrying, Incomplete, Making, At
<1>5. CASE CreateAppend(w)
  <2>1. pc'[w] = "idle"
    BY <1>1, <1>5 DEF CreateAppend, AppendInsert, Return, Goto
  <2>2. creation'[w].at = "append"
    <3>1. creation[w].at = "append"
      BY <1>5 DEF CreateAppend, Making
    <3>2. [creation[w] EXCEPT !.done = @ + 1].at = "append"
      BY <3>1, CreationParts DEF Making
    <3> QED BY <1>1, <1>5, <3>2 DEF CreateAppend, Make
  <2> QED BY <2>1, <2>2 DEF Carrying, Making, At
<1>6. ASSUME creation'[w] = NoCreation
      PROVE  Carrying(w)'
  BY <1>6 DEF Carrying, Making, NoCreation
<1>7. CASE CreateRefused(w) \/ CreateClosed(w) \/ CreateFails(w) \/ CreateAnswer(w)
  BY <1>1, <1>6, <1>7 DEF CreateRefused, CreateClosed, CreateFails, CreateAnswer,
                          AppendFailed, Make
<1>8. CASE creation'[w] = creation[w] /\ pc'[w] = pc[w] /\ draft'[w] = draft[w]
  BY <1>8 DEF Carrying, Making, At, Incomplete
<1>9. CASE creation'[w] = creation[w] /\ Making(w, "none")
  BY <1>9 DEF Carrying, Making
<1> QED BY <1>2, <1>3, <1>4, <1>5, <1>6, <1>7, <1>8, <1>9, WorkerStep DEF Create

-----------------------------------------------------------------------------
(* Types *)

CreationTyped ==
    /\ creation \in [Worker -> Creation]
    /\ \A w \in Worker : creation[w].at = "append"
                         => creation[w].done <= Len(creation[w].msgs)

LEMMA CreationTypedStep ==
    ASSUME RegistryTypeOK, NEW w \in Worker, Carrying(w), Create(w)
    PROVE  CreationTyped'
<1>1. /\ creation \in [Worker -> Creation]
      /\ \A u \in Worker : creation[u].at = "append"
                           => creation[u].done <= Len(creation[u].msgs)
  BY DEF RegistryTypeOK
<1>2. ASSUME NEW next \in Creation, Make(w, next),
             next.at = "append" => next.done <= Len(next.msgs)
      PROVE  CreationTyped'
  BY <1>1, <1>2 DEF Make, CreationTyped
<1>3. NoCreation \in Creation /\ NoCreation.at # "append"
  BY DEF Creation, NoCreation
<1>4. ASSUME NEW msgs \in Creations, CreateFind(w, msgs)
      PROVE  CreationTyped'
  <2> DEFINE b == \E i \in Oldest(Fingerprint(msgs)) : Resolve(scenarios[i].sc)
             next == [at |-> "insert", msgs |-> msgs, reused |-> b]
  <2>1. b \in BOOLEAN
    OBVIOUS
  <2>2. Make(w, next)
    BY <1>4 DEF CreateFind
  <2> HIDE DEF b
  <2>3. next \in Creation /\ next.at # "append"
    BY <2>1 DEF Creation
  <2> QED BY <1>2, <2>2, <2>3
<1>5. ASSUME NEW s \in Scenario, CreateInsert(w, s)
      PROVE  CreationTyped'
  <2> DEFINE next == [at |-> "append", msgs |-> creation[w].msgs,
                      reused |-> creation[w].reused, sc |-> s, done |-> 0]
  <2>1. creation[w].msgs \in Creations /\ creation[w].reused \in BOOLEAN
    BY <1>5, CreationParts DEF CreateInsert
  <2>2. PICK n \in 0 .. MaxCreated : creation[w].msgs \in [1 .. n -> Sendable]
    BY <2>1 DEF Creations
  <2>3. creation[w].msgs \in Seq(Sendable)
    BY <2>2
  <2>4. Len(creation[w].msgs) \in Nat
    BY <2>3
  <2>5. next \in Creation /\ next.done <= Len(next.msgs)
    BY <2>1, <2>4 DEF Creation
  <2> QED BY <1>2, <1>5, <2>5 DEF CreateInsert
<1>6. CASE CreateAppend(w)
  <2> DEFINE next == [at |-> "append", msgs |-> creation[w].msgs,
                      reused |-> creation[w].reused, sc |-> creation[w].sc,
                      done |-> creation[w].done + 1]
  <2>1. /\ creation[w].msgs \in Creations /\ creation[w].reused \in BOOLEAN
        /\ creation[w].sc \in Scenario
        /\ creation[w].done \in 0 .. Len(creation[w].msgs)
        /\ creation[w] = [at |-> "append", msgs |-> creation[w].msgs,
                          reused |-> creation[w].reused,
                          sc |-> creation[w].sc, done |-> creation[w].done]
    BY <1>6, CreationParts DEF CreateAppend
  <2>2. next.done <= Len(next.msgs)
    BY <1>6, <2>1 DEF CreateAppend, AppendInsert, Carrying, Making, At, Incomplete
  <2>3. [creation[w] EXCEPT !.done = @ + 1] = next
    BY <2>1
  <2>4. next \in Creation
    BY <2>1 DEF Creation
  <2> HIDE DEF next
  <2>5. Make(w, next)
    BY <1>6, <2>3 DEF CreateAppend
  <2> QED BY <1>2, <2>2, <2>4, <2>5
<1>7. CASE CreateRefused(w) \/ CreateClosed(w) \/ CreateFails(w) \/ CreateAnswer(w)
  BY <1>2, <1>3, <1>7 DEF CreateRefused, CreateClosed, CreateFails, CreateAnswer,
                          AppendFailed
<1>8. CASE CreateCheck(w)
  BY <1>1, <1>8 DEF CreateCheck, CreationTyped
<1> QED BY <1>4, <1>5, <1>6, <1>7, <1>8 DEF Create

\* What a step puts into a table or a job has the type of it.
TablesTyped ==
    /\ scenarios \in Seq([sc : Scenario, finger : [Digests -> Nat]])
    /\ specs \in Seq([sc : Scenario, msgs : Script, status : SpecStatus])
    /\ proofs \in Seq([sc : Scenario, conclusion : Conclusions,
                       listed : Seq(Nat)])
    /\ job \in [Client -> Job]
    /\ \A c \in Client : job[c].at = "freeze" => job[c].spec \in DOMAIN specs

\* What a job carries.
LEMMA JobParts ==
    ASSUME RegistryTypeOK, NEW c \in Client
    PROVE  /\ job[c].at \in {"list", "save", "report", "prove"} =>
                 job[c].sc \in Scenario
           /\ Doing(c, "save") => job[c].msgs \in Script
           /\ job[c].at \in {"report", "prove"} => job[c].conclusion \in Conclusions
           /\ Doing(c, "prove") => job[c].listed \in Seq(Nat)
<1>1. job[c] \in Job
  BY DEF RegistryTypeOK
<1> QED BY <1>1 DEF Job, NoJob, Doing

LEMMA TablesTypedStep ==
    ASSUME TypeInv, RegistryTypeOK, NEW c \in Client,
           Freeze(c) \/ Build(c) \/ Fail(c)
    PROVE  TablesTyped'
<1> DEFINE Entry == [sc : Scenario, finger : [Digests -> Nat]]
           SpecRow == [sc : Scenario, msgs : Script, status : SpecStatus]
           ProofRow == [sc : Scenario, conclusion : Conclusions, listed : Seq(Nat)]
           Ready == \A d \in Client : job[d].at = "freeze" => job[d].spec \in DOMAIN specs
           Typed == /\ scenarios \in Seq(Entry) /\ specs \in Seq(SpecRow)
                    /\ proofs \in Seq(ProofRow) /\ job \in [Client -> Job] /\ Ready
<1>1. Typed
  BY DEF RegistryTypeOK
<1>2. SUFFICES Typed'
  BY DEF TablesTyped
<1> HIDE DEF Entry, SpecRow, ProofRow
<1>3. ASSUME NEW j \in Job, Then(c, j), j.at # "freeze"
      PROVE  job' \in [Client -> Job] /\ (specs' = specs => Ready')
  BY <1>1, <1>3 DEF Then
<1>4. NoJob \in Job /\ NoJob.at # "freeze"
  BY DEF Job, NoJob
<1>5. CASE Freeze(c)
  <2>1. CASE \E s \in Scenario : FreezeGet(c, s)
    BY <1>1, <1>3, <2>1 DEF FreezeGet, Job, tables
  <2>2. CASE FreezeList(c)
    <3> DEFINE msgs == Sent(job[c].sc)
               j == [at |-> "save", sc |-> job[c].sc, msgs |-> msgs]
    <3>1. job[c].sc \in Scenario
      BY <2>2, JobParts DEF FreezeList, Doing
    <3>2. msgs \in Script
      BY <3>1, SentTyped
    <3> HIDE DEF msgs
    <3>3. j \in Job /\ j.at # "freeze"
      BY <3>1, <3>2 DEF Job
    <3>4. Then(c, j) \/ Then(c, NoJob)
      BY <2>2 DEF FreezeList, msgs
    <3> QED BY <1>1, <1>3, <1>4, <2>2, <3>3, <3>4 DEF FreezeList, tables
  <2>3. CASE FreezeCreate(c)
    <3>1. job[c].sc \in Scenario /\ job[c].msgs \in Script
      BY <2>3, JobParts DEF FreezeCreate, Doing
    <3>2. [sc |-> job[c].sc, msgs |-> job[c].msgs, status |-> "draft"] \in SpecRow
      BY <3>1 DEF SpecRow, SpecStatus
    <3>3. /\ specs' \in Seq(SpecRow)
          /\ Len(specs') = Len(specs) + 1 /\ Len(specs) \in Nat
          /\ DOMAIN specs = 1 .. Len(specs) /\ DOMAIN specs' = 1 .. Len(specs')
      BY <1>1, <2>3, <3>2, AppendProperties, LenProperties DEF FreezeCreate
    <3>4. job' = [job EXCEPT ![c] = [at |-> "freeze", spec |-> Len(specs')]]
      BY <2>3 DEF FreezeCreate, Then
    <3>5. job' \in [Client -> Job]
      BY <1>1, <3>3, <3>4 DEF Job
    <3>6. Ready'
      BY <1>1, <3>3, <3>4
    <3> QED BY <1>1, <2>3, <3>3, <3>5, <3>6 DEF FreezeCreate
  <2>4. CASE FreezeSpec(c)
    <3>1. job[c].spec \in DOMAIN specs
      BY <1>1, <2>4 DEF FreezeSpec, Doing
    <3>2. specs[job[c].spec] \in SpecRow
      BY <1>1, <3>1, LenProperties
    <3>3. [specs[job[c].spec] EXCEPT !.status = "frozen"] \in SpecRow
      BY <3>2 DEF SpecRow, SpecStatus
    <3>4. specs' \in Seq(SpecRow) /\ DOMAIN specs' = DOMAIN specs
      BY <1>1, <2>4, <3>1, <3>3, ExceptSeq DEF FreezeSpec
    <3>5. job' = [job EXCEPT ![c] = NoJob]
      BY <2>4 DEF FreezeSpec, Then
    <3> QED BY <1>1, <1>4, <2>4, <3>4, <3>5 DEF FreezeSpec
  <2> QED BY <1>5, <2>1, <2>2, <2>3, <2>4 DEF Freeze
<1>6. CASE Build(c)
  <2>1. ASSUME NEW s \in Scenario, BuildGet(c, s)
        PROVE  Typed'
    <3> DEFINE j == [at |-> "report", sc |-> s, conclusion |-> Conclusion(status[s])]
    <3>1. Conclusion(status[s]) \in Conclusions
      BY DEF Conclusion, Conclusions, TypeInv, TypeOK, Status
    <3>2. j \in Job /\ j.at # "freeze"
      BY <3>1 DEF Job
    <3> QED BY <1>1, <1>3, <2>1, <3>2 DEF BuildGet, tables
  <2>2. CASE BuildList(c)
    <3> DEFINE listed == IF job[c].conclusion = "violated"
                         THEN violations[job[c].sc] ELSE <<>>
               j == [at |-> "prove", sc |-> job[c].sc,
                     conclusion |-> job[c].conclusion, listed |-> listed]
    <3>1. job[c].sc \in Scenario /\ job[c].conclusion \in Conclusions
      BY <2>2, JobParts DEF BuildList, Doing
    <3>2. listed \in Seq(Nat)
      BY <3>1 DEF TypeInv, TypeOK
    <3>3. Then(c, j)
      BY <2>2 DEF BuildList
    <3> HIDE DEF listed
    <3>4. j \in Job /\ j.at # "freeze"
      BY <3>1, <3>2 DEF Job
    <3> QED BY <1>1, <1>3, <2>2, <3>3, <3>4 DEF BuildList, tables
  <2>3. CASE InsertProof(c)
    <3>1. [sc |-> job[c].sc, conclusion |-> job[c].conclusion,
           listed |-> job[c].listed] \in ProofRow
      BY <2>3, JobParts DEF InsertProof, Doing, ProofRow
    <3> QED BY <1>1, <1>3, <1>4, <2>3, <3>1, AppendProperties DEF InsertProof
  <2> QED BY <1>6, <2>1, <2>2, <2>3 DEF Build
<1>7. CASE Fail(c)
  BY <1>1, <1>3, <1>4, <1>7 DEF Fail, tables
<1> QED BY <1>5, <1>6, <1>7

LEMMA RegistryTypeStep ==
    ASSUME TypeInv, RegistryTypeOK, \A w \in Worker : Carrying(w),
           [RegistryNext]_registryVars
    PROVE  RegistryTypeOK'
<1>1. CreationTyped /\ TablesTyped
  BY DEF RegistryTypeOK, CreationTyped, TablesTyped
<1>2. CreationTyped'
  <2>1. CASE UNCHANGED creation
    BY <1>1, <2>1 DEF CreationTyped
  <2>2. CASE creation' = [w \in Worker |-> NoCreation]
    <3>1. NoCreation \in Creation /\ NoCreation.at # "append"
      BY DEF Creation, NoCreation
    <3> QED BY <2>2, <3>1 DEF CreationTyped
  <2> QED BY <2>1, <2>2, CreationWriters, CreationTypedStep
<1>3. TablesTyped'
  <2>1. ASSUME NEW w \in Worker, NEW s \in Scenario, CreateInsert(w, s)
        PROVE  TablesTyped'
    <3> DEFINE Entry == [sc : Scenario, finger : [Digests -> Nat]]
               new == [sc |-> s, finger |-> Fingerprint(creation[w].msgs)]
    <3>1. new \in Entry
      BY <2>1, CreationParts, FingerprintTyped DEF CreateInsert
    <3>2. scenarios \in Seq(Entry) /\ scenarios' = Append(scenarios, new)
      BY <1>1, <2>1 DEF TablesTyped, CreateInsert
    <3> HIDE DEF Entry, new
    <3>3. scenarios' \in Seq(Entry)
      BY <3>1, <3>2, AppendProperties
    <3> QED BY <1>1, <2>1, <3>3 DEF TablesTyped, CreateInsert, Entry
  <2>2. CASE UNCHANGED <<tables, job>>
    BY <1>1, <2>2 DEF TablesTyped, tables
  <2>3. CASE Dies
    <3>1. NoJob \in Job /\ NoJob.at # "freeze"
      BY DEF Job, NoJob
    <3> QED BY <1>1, <2>3, <3>1 DEF Dies, TablesTyped, tables
  <2>4. \/ UNCHANGED <<tables, job>> \/ Dies
        \/ \E w \in Worker, s \in Scenario : CreateInsert(w, s)
        \/ \E c \in Client : Freeze(c) \/ Build(c) \/ Fail(c)
    BY DEF RegistryNext, registryVars, Create, CreateFind, CreateCheck,
       CreateAppend, CreateRefused, CreateClosed, CreateFails, CreateAnswer,
       Serves, TimePasses
  <2> QED BY <2>1, <2>2, <2>3, <2>4, TablesTypedStep
<1> QED BY <1>2, <1>3 DEF CreationTyped, TablesTyped, RegistryTypeOK

-----------------------------------------------------------------------------

\* The types of the service and of the registry, and what creations carry.
RegistryInv == TypeInv /\ RegistryTypeOK /\ \A w \in Worker : Carrying(w)

LEMMA RegistryInvInit == RegistryInit => RegistryInv
<1> SUFFICES ASSUME RegistryInit PROVE RegistryInv
  OBVIOUS
<1>1. TypeInv
  BY InitType DEF RegistryInit
<1>2. NoCreation \in Creation /\ NoCreation.at = "none" /\ NoJob \in Job
      /\ NoJob.at = "none"
  BY DEF Creation, NoCreation, Job, NoJob
<1>3. RegistryTypeOK
  BY <1>2 DEF RegistryInit, RegistryTypeOK
<1>4. \A w \in Worker : Carrying(w)
  BY <1>2 DEF RegistryInit, Carrying, Making
<1> QED BY <1>1, <1>3, <1>4 DEF RegistryInv

LEMMA RegistryInvStep ==
    ASSUME RegistryInv, [RegistryNext]_registryVars
    PROVE  RegistryInv' /\ [Next]_vars
<1>1. [Next]_vars
  BY ServiceStep DEF RegistryInv
<1>2. TypeInv'
  BY <1>1, NextType DEF RegistryInv
<1> QED BY <1>1, <1>2, RegistryTypeStep, CarryingStep DEF RegistryInv

LEMMA RegistryInvariant == RegistrySpec => []RegistryInv
BY RegistryInvInit, RegistryInvStep, PTL DEF RegistrySpec

\* The registry is type correct beside the whole service: in particular no
\* creation appends more messages than it was sent, whoever else appends, and
\* no request freezes a specification that was never created.
THEOREM RegistryTypeCorrect == RegistrySpec => []RegistryTypeOK
<1>1. RegistryInv => RegistryTypeOK
  BY DEF RegistryInv
<1> QED BY <1>1, RegistryInvariant, PTL

-----------------------------------------------------------------------------
(* Messages and violations are added at the end only *)

LEMMA BeginsGrown ==
    ASSUME NEW T, NEW part \in Seq(T), NEW whole \in Seq(T), NEW grown \in Seq(T),
           Begins(part, whole), Len(whole) <= Len(grown),
           \A i \in 1 .. Len(whole) : grown[i] = whole[i]
    PROVE  Begins(part, grown)
<1>1. /\ Len(part) \in Nat /\ Len(whole) \in Nat /\ Len(grown) \in Nat
      /\ DOMAIN part = 1 .. Len(part)
  OBVIOUS
<1>2. \A i \in DOMAIN part : i \in 1 .. Len(whole)
  BY <1>1 DEF Begins
<1> QED BY <1>1, <1>2 DEF Begins

LEMMA LettersGrow ==
    ASSUME TypeInv, TypeInv', [Next]_vars, NEW s \in Scenario,
           NEW part \in Script, Begins(part, Letters(log[s]))
    PROVE  Begins(part, Letters(log'[s]))
<1>1. /\ log[s] \in Seq(Message) /\ log'[s] \in Seq(Message)
      /\ Len(log[s]) \in Nat /\ Len(log'[s]) \in Nat
  BY DEF TypeInv, TypeOK
<1>2. /\ Len(log[s]) <= Len(log'[s])
      /\ \A i \in 1 .. Len(log[s]) : Same(log'[s][i], log[s][i])
  BY LogIsKept DEF LogKept
<1>3. /\ Letters(log[s]) \in Script /\ Letters(log'[s]) \in Script
      /\ Len(Letters(log[s])) = Len(log[s])
      /\ Len(Letters(log'[s])) = Len(log'[s])
      /\ \A i \in 1 .. Len(log[s]) : Letters(log[s])[i] = Letter(log[s][i])
      /\ \A i \in 1 .. Len(log'[s]) : Letters(log'[s])[i] = Letter(log'[s][i])
  BY <1>1, LettersShape DEF Script, Envelope
<1>4. ASSUME NEW i \in 1 .. Len(log[s])
      PROVE  Letters(log'[s])[i] = Letters(log[s])[i]
  <2>1. i \in 1 .. Len(log'[s])
    BY <1>1, <1>2
  <2>2. Letter(log'[s][i]) = Letter(log[s][i])
    BY <1>2 DEF Same, Letter
  <2> QED BY <1>3, <2>1, <2>2
<1> QED BY <1>2, <1>3, <1>4, BeginsGrown DEF Script

LEMMA ViolationsGrow ==
    ASSUME TypeInv, TypeInv', [Next]_vars, NEW s \in Scenario
    PROVE  /\ violations[s] # <<>> => violations'[s] # <<>>
           /\ \A part \in Seq(Nat) : Begins(part, violations[s])
                                     => Begins(part, violations'[s])
<1>1. /\ violations \in [Scenario -> Seq(Nat)]
      /\ violations[s] \in Seq(Nat) /\ violations'[s] \in Seq(Nat)
  BY DEF TypeInv, TypeOK
<1>2. UNCHANGED violations \/ \E w \in Worker : Violate(w)
  BY ScenarioWriters DEF AppendInsert, ReplayBegin, Mark, LogEvent,
     AdvanceCursor, SettleViolated, SettleScanned, Settle
<1>3. ASSUME NEW w \in Worker, Violate(w)
      PROVE  violations'[s] = violations[s]
             \/ \E n : violations'[s] = Append(violations[s], n)
  BY <1>1, <1>3 DEF Violate, AppendViolation
<1>4. /\ Len(violations[s]) <= Len(violations'[s])
      /\ \A i \in 1 .. Len(violations[s]) : violations'[s][i] = violations[s][i]
  <2>1. CASE violations'[s] = violations[s]
    BY <1>1, <2>1
  <2>2. ASSUME NEW n, violations'[s] = Append(violations[s], n)
        PROVE  /\ Len(violations[s]) <= Len(violations'[s])
               /\ \A i \in 1 .. Len(violations[s]) : violations'[s][i] = violations[s][i]
    BY <1>1, <2>2
  <2> QED BY <1>2, <1>3, <2>1, <2>2
<1>5. violations[s] # <<>> => violations'[s] # <<>>
  BY <1>1, <1>4
<1>6. \A part \in Seq(Nat) : Begins(part, violations[s]) => Begins(part, violations'[s])
  BY <1>1, <1>4, BeginsGrown
<1> QED BY <1>5, <1>6

-----------------------------------------------------------------------------
(* Creations *)

LEMMA InOrderGrown ==
    ASSUME NEW l \in Seq(Message), NEW n \in Seq(Message), Len(l) <= Len(n),
           \A i \in 1 .. Len(l) : Same(n[i], l[i]),
           NEW done \in Nat, NEW msgs, InOrder(done, msgs, l)
    PROVE  InOrder(done, msgs, n)
<1>1. PICK place \in [1 .. done -> DOMAIN l] :
         /\ \A i \in 1 .. done : Digest(l[place[i]]) = Digest(msgs[i])
         /\ \A i, j \in 1 .. done : i < j => place[i] < place[j]
  BY DEF InOrder
<1>2. /\ DOMAIN l = 1 .. Len(l) /\ DOMAIN n = 1 .. Len(n)
      /\ Len(l) \in Nat /\ Len(n) \in Nat
  OBVIOUS
<1>3. place \in [1 .. done -> DOMAIN n]
  BY <1>2
<1>4. ASSUME NEW i \in 1 .. done
      PROVE  Digest(n[place[i]]) = Digest(msgs[i])
  <2>1. Same(n[place[i]], l[place[i]])
    BY <1>2
  <2> QED BY <1>1, <2>1 DEF Same, Digest
<1> QED BY <1>1, <1>3, <1>4 DEF InOrder

LEMMA InOrderNext ==
    ASSUME NEW l \in Seq(Message), NEW n \in Seq(Message),
           NEW done \in Nat, NEW msgs, InOrder(done, msgs, l),
           n = Append(l, msgs[done + 1])
    PROVE  InOrder(done + 1, msgs, n)
<1>1. PICK place \in [1 .. done -> DOMAIN l] :
         /\ \A i \in 1 .. done : Digest(l[place[i]]) = Digest(msgs[i])
         /\ \A i, j \in 1 .. done : i < j => place[i] < place[j]
  BY DEF InOrder
<1> DEFINE k == Len(l)
<1>2. k \in Nat /\ DOMAIN l = 1 .. k
  OBVIOUS
<1>3. /\ Len(n) = k + 1 /\ DOMAIN n = 1 .. k + 1
      /\ n[k + 1] = msgs[done + 1]
      /\ \A i \in 1 .. k : n[i] = l[i]
  BY <1>2
<1> HIDE DEF k
<1> DEFINE next == [i \in 1 .. done + 1 |-> IF i = done + 1 THEN k + 1 ELSE place[i]]
<1>4. ASSUME NEW i \in 1 .. done
      PROVE  next[i] = place[i] /\ place[i] \in 1 .. k
  <2>1. i \in 1 .. done + 1 /\ i # done + 1
    OBVIOUS
  <2>2. next[i] = place[i]
    BY <2>1
  <2>3. place[i] \in DOMAIN l
    OBVIOUS
  <2> QED BY <1>2, <2>2, <2>3
<1>5. next[done + 1] = k + 1
  OBVIOUS
<1>6. next \in [1 .. done + 1 -> DOMAIN n]
  BY <1>2, <1>3, <1>4, <1>5
<1>7. \A i \in 1 .. done + 1 : i = done + 1 \/ i \in 1 .. done
  OBVIOUS
<1> HIDE DEF next
<1>8. ASSUME NEW i \in 1 .. done + 1
      PROVE  Digest(n[next[i]]) = Digest(msgs[i])
  <2>1. CASE i = done + 1
    BY <1>3, <1>5, <2>1
  <2>2. CASE i \in 1 .. done
    <3>1. next[i] = place[i] /\ n[place[i]] = l[place[i]]
      BY <1>3, <1>4, <2>2
    <3> QED BY <1>1, <2>2, <3>1
  <2> QED BY <1>7, <2>1, <2>2
<1>9. ASSUME NEW i \in 1 .. done + 1, NEW j \in 1 .. done + 1, i < j
      PROVE  next[i] < next[j]
  <2>1. i \in 1 .. done
    BY <1>9
  <2>2. CASE j = done + 1
    BY <1>2, <1>4, <1>5, <2>1, <2>2
  <2>3. CASE j \in 1 .. done
    BY <1>1, <1>4, <1>9, <2>1, <2>3
  <2> QED BY <1>7, <2>2, <2>3
<1> QED BY <1>6, <1>8, <1>9 DEF InOrder

LEMMA InOrderStep ==
    ASSUME RegistryInv, [RegistryNext]_registryVars, CreationInOrder
    PROVE  CreationInOrder'
<1> USE DEF RegistryInv
<1>1. TypeInv' /\ RegistryTypeOK' /\ [Next]_vars
  BY RegistryInvStep
<1> SUFFICES ASSUME NEW w \in Worker, Making(w, "append")'
             PROVE  InOrder(creation'[w].done, creation'[w].msgs, log'[creation'[w].sc])
  BY DEF CreationInOrder
<1> DEFINE d == creation[w].done  m == creation[w].msgs  s == creation[w].sc
<1>2. creation \in [Worker -> Creation] /\ log \in [Scenario -> Seq(Message)]
      /\ log' \in [Scenario -> Seq(Message)]
  BY <1>1 DEF RegistryTypeOK, TypeInv, TypeOK
<1>3. ASSUME Making(w, "append")
      PROVE  /\ s \in Scenario /\ d \in Nat /\ InOrder(d, m, log[s])
             /\ creation[w] = [at |-> "append", msgs |-> m, sc |-> s, done |-> d,
                               reused |-> creation[w].reused]
  <2>1. s \in Scenario /\ d \in 0 .. Len(m)
        /\ creation[w] = [at |-> "append", msgs |-> m, sc |-> s, done |-> d,
                          reused |-> creation[w].reused]
    BY <1>3, CreationParts
  <2>2. d \in Nat
    BY <2>1
  <2> QED BY <1>3, <2>1, <2>2 DEF CreationInOrder
<1>4. CASE creation'[w] = creation[w]
  <2>1. s \in Scenario /\ d \in Nat /\ InOrder(d, m, log[s])
    BY <1>3, <1>4 DEF Making
  <2>2. /\ log[s] \in Seq(Message) /\ log'[s] \in Seq(Message)
        /\ Len(log[s]) <= Len(log'[s])
        /\ \A i \in 1 .. Len(log[s]) : Same(log'[s][i], log[s][i])
    BY <1>1, <1>2, <2>1, LogIsKept DEF LogKept
  <2> HIDE DEF d, m, s
  <2>3. InOrder(d, m, log'[s])
    BY <2>1, <2>2, InOrderGrown
  <2> QED BY <1>4, <2>3 DEF d, m, s
<1>5. ASSUME NEW t \in Scenario, CreateInsert(w, t)
      PROVE  InOrder(creation'[w].done, creation'[w].msgs, log'[creation'[w].sc])
  <2>1. creation'[w].done = 0
    BY <1>2, <1>5 DEF CreateInsert, Make
  <2>2. ASSUME NEW msgs, NEW messages
        PROVE  InOrder(0, msgs, messages)
    <3> DEFINE place == [i \in 1 .. 0 |-> 0]
    <3>1. place \in [1 .. 0 -> DOMAIN messages]
      OBVIOUS
    <3>2. 1 .. 0 = {}
      OBVIOUS
    <3> HIDE DEF place
    <3> QED BY <3>1, <3>2 DEF InOrder
  <2> QED BY <2>1, <2>2
<1>6. CASE CreateAppend(w)
  <2>1. /\ s \in Scenario /\ d \in Nat /\ InOrder(d, m, log[s])
        /\ creation[w] = [at |-> "append", msgs |-> m, sc |-> s, done |-> d,
                          reused |-> creation[w].reused]
    BY <1>3, <1>6 DEF CreateAppend
  <2>2. creation'[w].done = d + 1 /\ creation'[w].msgs = m /\ creation'[w].sc = s
    <3>1. creation'[w] = [creation[w] EXCEPT !.done = @ + 1]
      BY <1>2, <1>6 DEF CreateAppend, Make
    <3> QED BY <2>1, <3>1
  <2>3. log'[s] = Append(log[s], m[d + 1])
    <3>1. draft[w].sc = s /\ draft[w].msg = m[d + 1]
      BY <1>6 DEF CreateAppend, AppendInsert, Carrying, At
    <3>2. log' = [log EXCEPT ![s] = Append(@, m[d + 1])]
      BY <1>6, <3>1 DEF CreateAppend, AppendInsert
    <3> QED BY <1>2, <2>1, <3>2
  <2>4. log[s] \in Seq(Message) /\ log'[s] \in Seq(Message)
    BY <1>2, <2>1
  <2> HIDE DEF d, m, s
  <2>5. InOrder(d + 1, m, log'[s])
    BY <2>1, <2>3, <2>4, InOrderNext
  <2> QED BY <2>2, <2>5
<1>7. creation'[w] = creation[w] \/ CreateAppend(w)
      \/ \E z \in Scenario : CreateInsert(w, z)
  <2>1. NoCreation.at # "append"
    BY DEF NoCreation
  <2>2. CASE \E msgs \in Creations : CreateFind(w, msgs)
    BY <1>2, <2>2 DEF CreateFind, Make, Making
  <2>3. CASE CreateCheck(w)
    BY <2>3 DEF CreateCheck
  <2>4. CASE CreateRefused(w) \/ CreateClosed(w) \/ CreateFails(w) \/ CreateAnswer(w)
    BY <1>2, <2>1, <2>4 DEF CreateRefused, CreateClosed, CreateFails,
       CreateAnswer, AppendFailed, Make, Making
  <2>5. CASE creation'[w] = NoCreation
    BY <2>1, <2>5 DEF Making
  <2> QED BY <2>2, <2>3, <2>4, <2>5, WorkerStep DEF Create
<1> QED BY <1>4, <1>5, <1>6, <1>7

\* Whoever appends to a scenario while it is being created, and whatever fails:
\* the messages that the request has got in stand in the scenario in its order.
THEOREM CreationsAlwaysInOrder == RegistrySpec => []CreationInOrder
<1>1. RegistryInit => CreationInOrder
  BY DEF RegistryInit, CreationInOrder, Making, NoCreation
<1> QED BY <1>1, InOrderStep, RegistryInvariant, PTL DEF RegistrySpec

-----------------------------------------------------------------------------
(* Where specifications and proofs come from *)

LEMMA SpecRows ==
    ASSUME RegistryTypeOK
    PROVE  /\ Len(specs) \in Nat /\ DOMAIN specs = 1 .. Len(specs)
           /\ \A i \in DOMAIN specs : /\ specs[i].sc \in Scenario
                                      /\ specs[i].msgs \in Script
<1> DEFINE Entry == [sc : Scenario, msgs : Script, status : SpecStatus]
<1>1. specs \in Seq(Entry)
  BY DEF RegistryTypeOK
<1> HIDE DEF Entry
<1>2. \A i \in DOMAIN specs : specs[i] \in Entry
  BY <1>1, LenProperties
<1> QED BY <1>1, <1>2, LenProperties DEF Entry

LEMMA ProofRows ==
    ASSUME RegistryTypeOK
    PROVE  /\ Len(proofs) \in Nat /\ DOMAIN proofs = 1 .. Len(proofs)
           /\ \A i \in DOMAIN proofs : /\ proofs[i].sc \in Scenario
                                       /\ proofs[i].listed \in Seq(Nat)
<1> DEFINE Entry == [sc : Scenario, conclusion : Conclusions, listed : Seq(Nat)]
<1>1. proofs \in Seq(Entry)
  BY DEF RegistryTypeOK
<1> HIDE DEF Entry
<1>2. \A i \in DOMAIN proofs : proofs[i] \in Entry
  BY <1>1, LenProperties
<1> QED BY <1>1, <1>2, LenProperties DEF Entry

\* A specification is one there was, drafted or frozen, or comes from a request
\* that was freezing.
LEMMA SpecsStep ==
    ASSUME RegistryTypeOK, [RegistryNext]_registryVars, NEW i \in DOMAIN specs'
    PROVE  \/ /\ i \in DOMAIN specs
              /\ specs'[i].sc = specs[i].sc /\ specs'[i].msgs = specs[i].msgs
           \/ \E c \in Client : /\ FreezeCreate(c)
                                 /\ specs'[i].sc = job[c].sc
                                 /\ specs'[i].msgs = job[c].msgs
<1>1. CASE UNCHANGED specs
  BY <1>1
<1>2. ASSUME NEW c \in Client, FreezeCreate(c)
      PROVE  \/ i \in DOMAIN specs /\ specs'[i] = specs[i]
             \/ specs'[i].sc = job[c].sc /\ specs'[i].msgs = job[c].msgs
  <2> DEFINE new == [sc |-> job[c].sc, msgs |-> job[c].msgs, status |-> "draft"]
  <2>1. specs' = Append(specs, new)
    BY <1>2 DEF FreezeCreate
  <2>2. /\ DOMAIN specs' = 1 .. Len(specs) + 1 /\ specs'[Len(specs) + 1] = new
        /\ \A j \in 1 .. Len(specs) : specs'[j] = specs[j]
    BY <2>1, SpecRows
  <2>3. i = Len(specs) + 1 \/ i \in 1 .. Len(specs)
    BY <2>2, SpecRows
  <2> QED BY <2>2, <2>3, SpecRows
<1>3. ASSUME NEW c \in Client, FreezeSpec(c)
      PROVE  /\ i \in DOMAIN specs
             /\ specs'[i].sc = specs[i].sc /\ specs'[i].msgs = specs[i].msgs
  BY <1>3 DEF FreezeSpec
<1>4. UNCHANGED specs \/ \E c \in Client : FreezeCreate(c) \/ FreezeSpec(c)
  BY JobWriters DEF Freeze, FreezeGet, FreezeList, Build, BuildGet, BuildList,
                    InsertProof, Fail, tables
<1> QED BY <1>1, <1>2, <1>3, <1>4

LEMMA ProofsStep ==
    ASSUME RegistryTypeOK, [RegistryNext]_registryVars, NEW i \in DOMAIN proofs'
    PROVE  \/ i \in DOMAIN proofs /\ proofs'[i] = proofs[i]
           \/ \E c \in Client : /\ InsertProof(c)
                                 /\ proofs'[i].sc = job[c].sc
                                 /\ proofs'[i].conclusion = job[c].conclusion
                                 /\ proofs'[i].listed = job[c].listed
<1>1. ASSUME NEW c \in Client, InsertProof(c)
      PROVE  \/ i \in DOMAIN proofs /\ proofs'[i] = proofs[i]
             \/ /\ proofs'[i].sc = job[c].sc
                /\ proofs'[i].conclusion = job[c].conclusion
                /\ proofs'[i].listed = job[c].listed
  <2> DEFINE new == [sc |-> job[c].sc, conclusion |-> job[c].conclusion,
                     listed |-> job[c].listed]
  <2>1. proofs' = Append(proofs, new)
    BY <1>1 DEF InsertProof
  <2>2. /\ DOMAIN proofs' = 1 .. Len(proofs) + 1 /\ proofs'[Len(proofs) + 1] = new
        /\ \A j \in 1 .. Len(proofs) : proofs'[j] = proofs[j]
    BY <2>1, ProofRows
  <2>3. i = Len(proofs) + 1 \/ i \in 1 .. Len(proofs)
    BY <2>2, ProofRows
  <2> QED BY <2>2, <2>3, ProofRows
<1>2. UNCHANGED proofs \/ \E c \in Client : InsertProof(c)
  BY JobWriters DEF Freeze, FreezeGet, FreezeList, FreezeCreate, FreezeSpec,
                    Build, BuildGet, BuildList, Fail, tables
<1> QED BY <1>1, <1>2

\* A job that goes on has read something in this step, or has what it had.
LEMMA JobStep ==
    ASSUME RegistryTypeOK, [RegistryNext]_registryVars, NEW c \in Client
    PROVE  \/ job'[c] = job[c]
           \/ job'[c].at \in {"none", "freeze"}
           \/ \E s \in Scenario : FreezeGet(c, s) \/ BuildGet(c, s)
           \/ FreezeList(c) \/ BuildList(c)
<1>1. job \in [Client -> Job] /\ NoJob.at = "none"
  BY DEF RegistryTypeOK, NoJob
<1>2. CASE FreezeCreate(c) \/ FreezeSpec(c) \/ InsertProof(c) \/ Fail(c)
  BY <1>1, <1>2 DEF FreezeCreate, FreezeSpec, InsertProof, Fail, Then
<1>3. ASSUME NEW d \in Client, d # c, Freeze(d) \/ Build(d) \/ Fail(d)
      PROVE  job'[c] = job[c]
  BY <1>1, <1>3 DEF Freeze, FreezeGet, FreezeList, FreezeCreate, FreezeSpec,
                    Build, BuildGet, BuildList, InsertProof, Fail, Then
<1> QED BY <1>1, <1>2, <1>3, JobWriters DEF Freeze, Build

-----------------------------------------------------------------------------
(* Whatever overlaps: what was read is the beginning of what there is *)

\* A request that goes on freezing or proving has read messages, or violations,
\* of its scenario.
Read(c) ==
    /\ Doing(c, "save") => Begins(job[c].msgs, Letters(log[job[c].sc]))
    /\ Doing(c, "report") /\ job[c].conclusion = "violated"
       => violations[job[c].sc] # <<>>
    /\ Doing(c, "prove") /\ job[c].conclusion = "violated"
       => Begins(job[c].listed, violations[job[c].sc])

ReadInv ==
    /\ \A c \in Client : Read(c)
    /\ \A i \in DOMAIN specs : Begins(specs[i].msgs, Letters(log[specs[i].sc]))
    /\ ViolatedIsListed

LEMMA ReadStays ==
    ASSUME RegistryInv, RegistryInv', [Next]_vars, NEW c \in Client, Read(c),
           job'[c] = job[c]
    PROVE  Read(c)'
<1> USE DEF RegistryInv
<1>1. CASE job[c].at \in {"save", "report", "prove"}
  <2> DEFINE s == job[c].sc
  <2>1. s \in Scenario
    BY <1>1, JobParts
  <2>2. CASE Doing(c, "save")
    BY <2>1, <2>2, JobParts, LettersGrow DEF Read, Doing
  <2>3. CASE job[c].at \in {"report", "prove"}
    BY <2>1, <2>3, JobParts, ViolationsGrow DEF Read, Doing
  <2> QED BY <1>1, <2>2, <2>3 DEF Doing
<1>2. CASE job[c].at \notin {"save", "report", "prove"}
  BY <1>2 DEF Read, Doing
<1> QED BY <1>1, <1>2

LEMMA ReadClient ==
    ASSUME RegistryInv, [RegistryNext]_registryVars, ViolatedIsRecorded,
           NEW c \in Client, Read(c)
    PROVE  Read(c)'
<1> USE DEF RegistryInv
<1>1. RegistryInv' /\ [Next]_vars
  BY RegistryInvStep
<1>2. job \in [Client -> Job]
  BY DEF RegistryTypeOK
<1>3. CASE \E s \in Scenario : FreezeGet(c, s)
  BY <1>2, <1>3 DEF FreezeGet, Then, Read, Doing
<1>4. ASSUME NEW s \in Scenario, BuildGet(c, s)
      PROVE  Read(c)'
  BY <1>2, <1>4 DEF BuildGet, Then, Conclusion, ViolatedIsRecorded, Read, Doing,
                    vars, db
<1>5. CASE FreezeList(c)
  <2> DEFINE s == job[c].sc
  <2>1. /\ s \in Scenario /\ log[s] \in Seq(Message) /\ UNCHANGED vars
    BY <1>5, JobParts DEF FreezeList, Doing, TypeInv, TypeOK
  <2>2. Sent(s) = Letters(log[s])
    BY SentLetters
  <2>3. Letters(log[s]) # <<>> => Begins(Letters(log[s]), Letters(log[s]))
    <3>1. Letters(log[s]) \in Seq(Envelope)
      BY <2>1, LettersShape
    <3> QED BY <3>1 DEF Begins
  <2>4. \/ job'[c].at = "none"
        \/ /\ job'[c] = [at |-> "save", sc |-> s, msgs |-> Letters(log[s])]
           /\ Letters(log[s]) # <<>>
    BY <1>2, <1>5, <2>2 DEF FreezeList, Then, WorthFreezing, NoJob
  <2> QED BY <2>1, <2>3, <2>4 DEF Read, Doing, vars, db
<1>6. CASE BuildList(c)
  <2> DEFINE s == job[c].sc
  <2>1. /\ s \in Scenario /\ violations[s] \in Seq(Nat) /\ UNCHANGED vars
    BY <1>6, JobParts DEF BuildList, Doing, TypeInv, TypeOK
  <2>2. violations[s] # <<>> => Begins(violations[s], violations[s])
    BY <2>1 DEF Begins
  <2>3. job[c].conclusion = "violated" => violations[s] # <<>>
    BY <1>6 DEF BuildList, Read
  <2>4. job'[c] = [at |-> "prove", sc |-> s, conclusion |-> job[c].conclusion,
                   listed |-> IF job[c].conclusion = "violated"
                              THEN violations[s] ELSE <<>>]
    BY <1>2, <1>6 DEF BuildList, Then
  <2> QED BY <2>1, <2>2, <2>3, <2>4 DEF Read, Doing, vars, db
<1>7. CASE job'[c].at \in {"none", "freeze"}
  BY <1>7 DEF Read, Doing
<1>8. CASE job'[c] = job[c]
  BY <1>1, <1>8, ReadStays
<1> QED BY <1>3, <1>4, <1>5, <1>6, <1>7, <1>8, JobStep

LEMMA ReadStep ==
    ASSUME RegistryInv, [RegistryNext]_registryVars, ViolatedIsRecorded, ReadInv
    PROVE  ReadInv'
<1> USE DEF RegistryInv
<1>1. RegistryInv' /\ [Next]_vars
  BY RegistryInvStep
<1>2. \A c \in Client : Read(c)'
  BY ReadClient DEF ReadInv
<1>3. ASSUME NEW i \in DOMAIN specs'
      PROVE  Begins(specs'[i].msgs, Letters(log'[specs'[i].sc]))
  <2>1. CASE /\ i \in DOMAIN specs
             /\ specs'[i].sc = specs[i].sc /\ specs'[i].msgs = specs[i].msgs
    BY <1>1, <2>1, SpecRows, LettersGrow DEF ReadInv
  <2>2. ASSUME NEW c \in Client, FreezeCreate(c), specs'[i].sc = job[c].sc,
               specs'[i].msgs = job[c].msgs
        PROVE  Begins(specs'[i].msgs, Letters(log'[specs'[i].sc]))
    <3>1. UNCHANGED log /\ Doing(c, "save")
      BY <2>2 DEF FreezeCreate, vars, db
    <3> QED BY <2>2, <3>1 DEF ReadInv, Read
  <2> QED BY <2>1, <2>2, SpecsStep
<1>4. ASSUME NEW i \in DOMAIN proofs', proofs'[i].conclusion = "violated"
      PROVE  Begins(proofs'[i].listed, violations'[proofs'[i].sc])
  <2>1. CASE i \in DOMAIN proofs /\ proofs'[i] = proofs[i]
    BY <1>1, <1>4, <2>1, ProofRows, ViolationsGrow DEF ReadInv, ViolatedIsListed
  <2>2. ASSUME NEW c \in Client, InsertProof(c), proofs'[i].sc = job[c].sc,
               proofs'[i].conclusion = job[c].conclusion,
               proofs'[i].listed = job[c].listed
        PROVE  Begins(proofs'[i].listed, violations'[proofs'[i].sc])
    <3>1. UNCHANGED violations /\ Doing(c, "prove")
      BY <2>2 DEF InsertProof, vars, db
    <3> QED BY <1>4, <2>2, <3>1 DEF ReadInv, Read
  <2> QED BY <2>1, <2>2, ProofsStep
<1> QED BY <1>2, <1>3, <1>4 DEF ReadInv, ViolatedIsListed

LEMMA VerdictStart == Init => VerdictInv
BY DEF Init, NoTally, VerdictInv, ViolatedIsRecorded, Remembers

LEMMA ReadInvariant == RegistrySpec => [](RegistryInv /\ VerdictInv /\ ReadInv)
<1>1. RegistryInit => VerdictInv /\ ReadInv
  BY VerdictStart DEF RegistryInit, ReadInv, Read, Doing, NoJob, ViolatedIsListed
<1>2. RegistryInv /\ VerdictInv /\ ReadInv /\ [RegistryNext]_registryVars
      => VerdictInv' /\ ReadInv'
  BY RegistryInvStep, VerdictNext, ReadStep DEF RegistryInv, VerdictInv
<1> QED BY <1>1, <1>2, RegistryInvariant, PTL DEF RegistrySpec

\* However late a message is appended and however often its scenario is replayed
\* meanwhile, a specification holds messages of the scenario, in their order,
\* and lacks at most the last ones.
THEOREM SpecsAlwaysBeginLogs == RegistrySpec => []SpecsBeginLogs
<1>1. ReadInv => SpecsBeginLogs
  BY SentLetters DEF ReadInv, SpecsBeginLogs
<1> QED BY <1>1, ReadInvariant, PTL

\* A proof that says violated shows at least one violation, and only violations
\* that are on record, in their order.
THEOREM ViolatedAlwaysListed == RegistrySpec => []ViolatedIsListed
<1>1. ReadInv => ViolatedIsListed
  BY DEF ReadInv
<1> QED BY <1>1, ReadInvariant, PTL

-----------------------------------------------------------------------------
(* One worker: appends and replays come one after the other, and nothing   *)
(* happens to a scenario with a final verdict while clients read it.       *)

\* What a request has read of a final scenario is still so.
Holds(c) ==
    /\ job[c].at \in {"list", "save"} => status[job[c].sc] = "converged"
    /\ Doing(c, "save") => Letters(log[job[c].sc]) = job[c].msgs
    /\ job[c].at \in {"report", "prove"} /\ job[c].conclusion \in Final
       => status[job[c].sc] = job[c].conclusion
    /\ Doing(c, "prove") /\ job[c].conclusion = "violated"
       => job[c].listed = violations[job[c].sc]

SpecHolds(i) ==
    /\ status[specs[i].sc] = "converged"
    /\ Letters(log[specs[i].sc]) = specs[i].msgs

ProofHolds(i) ==
    /\ proofs[i].conclusion \in Final => status[proofs[i].sc] = proofs[i].conclusion
    /\ proofs[i].conclusion = "violated" => proofs[i].listed = violations[proofs[i].sc]

HoldInv ==
    /\ \A c \in Client : Holds(c)
    /\ \A i \in DOMAIN specs : SpecHolds(i)
    /\ \A i \in DOMAIN proofs : ProofHolds(i)

LEMMA HoldsStay ==
    ASSUME RegistryInv, StandsInv, [Next]_vars, NEW c \in Client, Holds(c),
           job'[c] = job[c]
    PROVE  Holds(c)'
<1> DEFINE s == job[c].sc
<1>1. CASE job[c].at \in {"list", "save", "report", "prove"}
  <2>1. s \in Scenario
    BY <1>1, JobParts DEF RegistryInv
  <2>2. status[s] \in Final => status'[s] = status[s] /\ log'[s] = log[s]
                              /\ violations'[s] = violations[s]
    BY <2>1, FinalStep DEF RegistryInv
  <2> QED BY <2>2 DEF Holds, Doing, Final
<1>2. CASE job[c].at \notin {"list", "save", "report", "prove"}
  BY <1>2 DEF Holds, Doing
<1> QED BY <1>1, <1>2

LEMMA HoldsClient ==
    ASSUME RegistryInv, [RegistryNext]_registryVars, StandsInv,
           NEW c \in Client, Holds(c)
    PROVE  Holds(c)'
<1>1. [Next]_vars /\ job \in [Client -> Job] /\ RegistryTypeOK
  BY RegistryInvStep DEF RegistryInv, RegistryTypeOK
<1>2. ASSUME NEW s \in Scenario, FreezeGet(c, s)
      PROVE  Holds(c)'
  BY <1>1, <1>2 DEF FreezeGet, Then, Freezable, Holds, Doing, Final, vars, db
<1>3. ASSUME NEW s \in Scenario, BuildGet(c, s)
      PROVE  Holds(c)'
  BY <1>1, <1>3 DEF BuildGet, Then, Conclusion, Holds, Doing, Final, vars, db
<1>4. CASE FreezeList(c)
  <2> DEFINE s == job[c].sc
  <2>1. Sent(s) = Letters(log[s])
    BY SentLetters
  <2>2. \/ job'[c].at = "none"
        \/ job'[c] = [at |-> "save", sc |-> s, msgs |-> Letters(log[s])]
    BY <1>1, <1>4, <2>1 DEF FreezeList, Then, NoJob
  <2>3. status[s] = "converged" /\ UNCHANGED vars
    BY <1>4 DEF FreezeList, Holds, Doing
  <2> QED BY <2>2, <2>3 DEF Holds, Doing, vars, db
<1>5. CASE BuildList(c)
  <2> DEFINE s == job[c].sc
  <2>1. job'[c] = [at |-> "prove", sc |-> s, conclusion |-> job[c].conclusion,
                   listed |-> IF job[c].conclusion = "violated"
                              THEN violations[s] ELSE <<>>]
    BY <1>1, <1>5 DEF BuildList, Then
  <2>2. job[c].conclusion \in Final => status[s] = job[c].conclusion
    BY <1>5 DEF BuildList, Holds, Doing
  <2>3. UNCHANGED vars
    BY <1>5 DEF BuildList
  <2> QED BY <2>1, <2>2, <2>3 DEF Holds, Doing, vars, db
<1>6. CASE job'[c].at \in {"none", "freeze"}
  BY <1>6 DEF Holds, Doing
<1>7. CASE job'[c] = job[c]
  BY <1>1, <1>7, HoldsStay
<1> QED BY <1>1, <1>2, <1>3, <1>4, <1>5, <1>6, <1>7, JobStep

LEMMA HoldStep ==
    ASSUME RegistryInv, [RegistryNext]_registryVars, StandsInv, HoldInv
    PROVE  HoldInv'
<1>1. [Next]_vars /\ RegistryTypeOK
  BY RegistryInvStep DEF RegistryInv
<1>2. \A c \in Client : Holds(c)'
  BY HoldsClient DEF HoldInv
<1>3. ASSUME NEW s \in Scenario, status[s] \in Final
      PROVE  status'[s] = status[s] /\ log'[s] = log[s]
             /\ violations'[s] = violations[s]
  BY <1>1, <1>3, FinalStep DEF RegistryInv
<1>4. ASSUME NEW i \in DOMAIN specs'
      PROVE  SpecHolds(i)'
  <2>1. CASE /\ i \in DOMAIN specs
             /\ specs'[i].sc = specs[i].sc /\ specs'[i].msgs = specs[i].msgs
    BY <1>1, <1>3, <2>1, SpecRows DEF HoldInv, SpecHolds, Final
  <2>2. ASSUME NEW c \in Client, FreezeCreate(c), specs'[i].sc = job[c].sc,
               specs'[i].msgs = job[c].msgs
        PROVE  SpecHolds(i)'
    <3>1. UNCHANGED <<status, log>> /\ Doing(c, "save")
      BY <2>2 DEF FreezeCreate, vars, db
    <3> QED BY <2>2, <3>1 DEF HoldInv, Holds, SpecHolds, Doing
  <2> QED BY <1>1, <2>1, <2>2, SpecsStep
<1>5. ASSUME NEW i \in DOMAIN proofs'
      PROVE  ProofHolds(i)'
  <2>1. CASE i \in DOMAIN proofs /\ proofs'[i] = proofs[i]
    BY <1>1, <1>3, <2>1, ProofRows DEF HoldInv, ProofHolds, Final
  <2>2. ASSUME NEW c \in Client, InsertProof(c), proofs'[i].sc = job[c].sc,
               proofs'[i].conclusion = job[c].conclusion,
               proofs'[i].listed = job[c].listed
        PROVE  ProofHolds(i)'
    <3>1. UNCHANGED <<status, violations>> /\ Doing(c, "prove")
      BY <2>2 DEF InsertProof, vars, db
    <3> QED BY <2>2, <3>1 DEF HoldInv, Holds, ProofHolds, Doing
  <2> QED BY <1>1, <2>1, <2>2, ProofsStep
<1> QED BY <1>2, <1>4, <1>5 DEF HoldInv

LEMMA HoldInvariant ==
    ASSUME OneWorker
    PROVE  RegistrySpec => [](RegistryInv /\ VerdictInv /\ StandsInv /\ HoldInv)
<1>1. RegistryInit => LogInv /\ StandsInv /\ HoldInv
  <2>1. Init => StandsInv
    BY DEF Init, StandsInv, Stands, SettledCoversLog, Settled, Final, Reads,
           Judges, AtMessage
  <2>2. RegistryInit => HoldInv
    BY DEF RegistryInit, HoldInv, Holds, Doing, NoJob
  <2> QED BY <2>1, <2>2, LogInit DEF RegistryInit
<1>2. RegistryInv /\ LogInv /\ StandsInv /\ HoldInv /\ [RegistryNext]_registryVars
      => LogInv' /\ StandsInv' /\ HoldInv'
  BY RegistryInvStep, LogNext, StandsNext, HoldStep DEF RegistryInv
<1> QED BY <1>1, <1>2, ReadInvariant, RegistryInvariant, PTL DEF RegistrySpec

\* When appends and replays do not overlap, a specification is the complete log
\* of a scenario that was replayed to its end and stays converged: rechecking it
\* never fails, however many clients freeze and prove.
THEOREM SpecsAlwaysStand ==
    ASSUME OneWorker
    PROVE  RegistrySpec => []SpecStands
<1>1. RegistryInv /\ StandsInv /\ HoldInv => SpecStands
  <2> SUFFICES ASSUME RegistryInv, StandsInv, HoldInv, NEW i \in DOMAIN specs
               PROVE  /\ status[specs[i].sc] = "converged"
                      /\ cursor[specs[i].sc] = Len(specs[i].msgs)
                      /\ Sent(specs[i].sc) = specs[i].msgs
    BY DEF SpecStands, RecheckPasses
  <2> DEFINE s == specs[i].sc
  <2>1. s \in Scenario /\ log[s] \in Seq(Message)
    BY SpecRows DEF RegistryInv, TypeInv, TypeOK
  <2>2. status[s] = "converged" /\ Letters(log[s]) = specs[i].msgs
    BY DEF HoldInv, SpecHolds
  <2>3. cursor[s] = Len(log[s])
    BY <2>1, <2>2 DEF StandsInv, SettledCoversLog, Settled, Final
  <2>4. Len(Letters(log[s])) = Len(log[s])
    BY <2>1, LettersShape
  <2>5. Sent(s) = Letters(log[s])
    BY SentLetters
  <2> QED BY <2>2, <2>3, <2>4, <2>5
<1> QED BY <1>1, HoldInvariant, PTL

\* When appends and replays do not overlap, a stored proof that says converged
\* or violated stays true, and one that says violated lists every violation.
THEOREM ProofsAlwaysStand ==
    ASSUME OneWorker
    PROVE  RegistrySpec => []ProofStands
<1>1. RegistryInv /\ VerdictInv /\ HoldInv => ProofStands
  <2> SUFFICES ASSUME RegistryInv, VerdictInv, HoldInv, NEW i \in DOMAIN proofs
               PROVE  /\ proofs[i].conclusion \in Final
                         => status[proofs[i].sc] = proofs[i].conclusion
                      /\ proofs[i].conclusion = "violated" =>
                            /\ proofs[i].listed = violations[proofs[i].sc]
                            /\ proofs[i].listed # <<>>
    BY DEF ProofStands
  <2>1. ProofHolds(i) /\ proofs[i].sc \in Scenario
    BY ProofRows DEF HoldInv, RegistryInv
  <2> QED BY <2>1 DEF ProofHolds, Final, VerdictInv, ViolatedIsRecorded
<1> QED BY <1>1, HoldInvariant, PTL

=============================================================================
