------------------------------ MODULE Registry ------------------------------
(***************************************************************************)
(* The requests that work with scenarios from outside a replay: creating   *)
(* one with its first messages and looking for an earlier result           *)
(* (service/scenario.go, replay/helpers.go), freezing a converged one as a *)
(* specification (spec/spec.go), and storing a proof of its status         *)
(* (proof/proof.go).  Each is a handler of several statements, and may end *)
(* after any of them, by an error or with the process.                     *)
(*                                                                         *)
(* They run beside the rest of the service, ReplayService, statement by    *)
(* statement: every step here is one of its steps or leaves its variables  *)
(* alone.  A creation appends messages, so it is a request of a worker;    *)
(* freezing and proving only read what workers write, and are requests of  *)
(* clients.  Hashes are what they are taken of.                            *)
(***************************************************************************)
EXTENDS ReplayService

CONSTANTS Client,        \* goroutines that freeze scenarios and store proofs
          MaxCreated,    \* bound: messages a scenario is created with
          MaxStored      \* bound: specifications and proofs together

ASSUME RegistryAssumption == MaxCreated \in Nat /\ MaxStored \in Nat

VARIABLES scenarios,     \* in the order of their ids: scenario and fingerprint
          specs,         \* scenario, messages and status
          proofs,        \* scenario, conclusion, violations that are listed
          creation,      \* where the creation of a worker is
          job            \* where the request of a client is

tables       == <<scenarios, specs, proofs>>
registryVars == <<vars, tables, creation, job>>

-----------------------------------------------------------------------------
(* Data *)

\* What a client sends as a message.
Sendable ==
    {[id |-> id, body |-> c.body, status |-> "pending", retries |-> c.retries] :
        id \in MsgId, c \in Content}

\* A request to create a scenario carries its first messages.
Creations == UNION {[1 .. n -> Sendable] : n \in 0 .. MaxCreated}

\* What the hashes are taken of: a retry count and a status are not.
Digest(m) == [id |-> m.id, body |-> m.body]
Digests   == {Digest(m) : m \in Sendable}

\* ScenarioFingerprint: the messages of the request, in any order.
Fingerprint(msgs) ==
    [d \in Digests |-> Cardinality({i \in DOMAIN msgs : Digest(msgs[i]) = d})]

Created == {scenarios[i].sc : i \in DOMAIN scenarios}

SpecStatus  == {"draft", "frozen"}
Conclusions == {"converged", "violated", "timeout", "pending"}
Script      == Seq([id : MsgId, body : Body])

NoCreation == [at |-> "none"]
NoJob      == [at |-> "none"]

Creation == {NoCreation}
            \union [at : {"insert"}, msgs : Creations, reused : BOOLEAN]
            \union [at : {"append"}, msgs : Creations, reused : BOOLEAN,
                    sc : Scenario, done : Nat]

Job == {NoJob}
       \union [at : {"list"}, sc : Scenario]
       \union [at : {"save"}, sc : Scenario, msgs : Script]
       \union [at : {"freeze"}, spec : Nat]
       \union [at : {"report"}, sc : Scenario, conclusion : Conclusions]
       \union [at : {"prove"}, sc : Scenario, conclusion : Conclusions,
               listed : Seq(Nat)]

\* What the tables and the requests hold; the specification that a request is
\* about to freeze is there, and a creation is within its messages.
RegistryTypeOK ==
    /\ scenarios \in Seq([sc : Scenario, finger : [Digests -> Nat]])
    /\ specs \in Seq([sc : Scenario, msgs : Script, status : SpecStatus])
    /\ proofs \in Seq([sc : Scenario, conclusion : Conclusions,
                       listed : Seq(Nat)])
    /\ creation \in [Worker -> Creation]
    /\ \A w \in Worker : creation[w].at = "append"
                         => creation[w].done <= Len(creation[w].msgs)
    /\ job \in [Client -> Job]
    /\ \A c \in Client : job[c].at = "freeze" => job[c].spec \in DOMAIN specs

RegistryInit ==
    /\ Init
    /\ scenarios = <<>> /\ specs = <<>> /\ proofs = <<>>
    /\ creation = [w \in Worker |-> NoCreation]
    /\ job = [c \in Client |-> NoJob]

-----------------------------------------------------------------------------
(* CreateScenario, and the messages the handler then appends one by one *)

Making(w, here) == creation[w].at = here
Make(w, next) == creation' = [creation EXCEPT ![w] = next]

\* Resolve: only a final verdict is reused.
Resolve(s) == status[s] \in Final

\* FindScenarioByFingerprint asks the oldest scenario of a fingerprint only.
Oldest(f) == {i \in DOMAIN scenarios :
                 /\ scenarios[i].finger = f
                 /\ \A j \in 1 .. i - 1 : scenarios[j].finger # f}

CreateFind(w, msgs) ==
    /\ At(w, "idle") /\ Making(w, "none")
    /\ Make(w, [at |-> "insert", msgs |-> msgs,
                reused |-> \E i \in Oldest(Fingerprint(msgs)) :
                              Resolve(scenarios[i].sc)])
    /\ UNCHANGED <<vars, tables, job>>

CreateInsert(w, s) ==
    LET msgs == creation[w].msgs IN
    /\ Making(w, "insert")
    /\ s \notin Created
    /\ scenarios' = Append(scenarios, [sc |-> s, finger |-> Fingerprint(msgs)])
    /\ Make(w, [at |-> "append", msgs |-> msgs, reused |-> creation[w].reused,
                sc |-> s, done |-> 0])
    /\ UNCHANGED <<vars, specs, proofs, job>>

Incomplete(w) ==
    Making(w, "append") /\ creation[w].done < Len(creation[w].msgs)

\* AppendMessage, for the next message of the request: its check and its insert
\* are those of any append.
CreateCheck(w) ==
    /\ Incomplete(w)
    /\ AppendCheck(w, creation[w].sc)
    /\ draft'[w].msg = creation[w].msgs[creation[w].done + 1]
    /\ UNCHANGED <<tables, creation, job>>

CreateAppend(w) ==
    /\ Making(w, "append")
    /\ AppendInsert(w)
    /\ Make(w, [creation[w] EXCEPT !.done = @ + 1])
    /\ UNCHANGED <<tables, job>>

\* Mutant of AppendFailed: the remaining messages are appended all the same.
AppendSkipped(w) == Make(w, [creation[w] EXCEPT !.done = @ + 1])

\* AppendMessages stops at the first message that is not appended, and the
\* request is answered with its error.
AppendFailed(w) == Make(w, NoCreation)

\* The message has the id of another: one of this request, or an append of
\* somebody else's that came in between.
CreateRefused(w) ==
    /\ Making(w, "append")
    /\ AppendRefused(w)
    /\ AppendFailed(w)
    /\ UNCHANGED <<tables, job>>

\* Somebody has started to replay the scenario.
CreateClosed(w) ==
    /\ At(w, "idle") /\ Incomplete(w)
    /\ ~Editable(creation[w].sc)
    /\ AppendFailed(w)
    /\ UNCHANGED <<vars, tables, job>>

\* A statement of the request fails: the insert of a message, or another.
CreateFails(w) ==
    /\ ~Making(w, "none")
    /\ \/ Abort(w)
       \/ At(w, "idle") /\ UNCHANGED vars
    /\ Make(w, NoCreation)
    /\ UNCHANGED <<tables, job>>

\* The request is answered: the scenario is created, with all of its messages.
CreateAnswer(w) ==
    /\ Making(w, "append") /\ ~Incomplete(w)
    /\ Make(w, NoCreation)
    /\ UNCHANGED <<vars, tables, job>>

-----------------------------------------------------------------------------
(* FreezeFromScenario: the specification is created and frozen apart *)

Doing(c, here) == job[c].at = here
Then(c, next) == job' = [job EXCEPT ![c] = next]

Room == Len(specs) + Len(proofs) < MaxStored

\* Mutant of Freezable: any scenario that is not being replayed.
FreezableUnlessReplaying(s) == status[s] # "replaying"

Freezable(s) == status[s] = "converged"

FreezeGet(c, s) ==
    /\ Doing(c, "none")
    /\ s \in Created
    /\ Freezable(s)
    /\ Then(c, [at |-> "list", sc |-> s])
    /\ UNCHANGED <<vars, tables, creation>>

\* Mutant of WorthFreezing: the check for an empty scenario is missing.
AlwaysWorthFreezing(msgs) == TRUE

WorthFreezing(msgs) == msgs # <<>>

FreezeList(c) ==
    LET msgs == Sent(job[c].sc) IN
    /\ Doing(c, "list")
    /\ Then(c, IF WorthFreezing(msgs)
               THEN [at |-> "save", sc |-> job[c].sc, msgs |-> msgs]
               ELSE NoJob)
    /\ UNCHANGED <<vars, tables, creation>>

\* CreateSpec is one transaction.
FreezeCreate(c) ==
    /\ Doing(c, "save")
    /\ Room
    /\ specs' = Append(specs, [sc |-> job[c].sc, msgs |-> job[c].msgs,
                               status |-> "draft"])
    /\ Then(c, [at |-> "freeze", spec |-> Len(specs')])
    /\ UNCHANGED <<vars, scenarios, proofs, creation>>

FreezeSpec(c) ==
    /\ Doing(c, "freeze")
    /\ specs' = [specs EXCEPT ![job[c].spec].status = "frozen"]
    /\ Then(c, NoJob)
    /\ UNCHANGED <<vars, scenarios, proofs, creation>>

\* Recheck answers for a frozen specification, by comparing hashes.  It changes
\* nothing.
RecheckPasses(sp) == Sent(sp.sc) = sp.msgs

-----------------------------------------------------------------------------
(* Build: the status read first says what kind of proof it is.  What a     *)
(* report says of replicas and keys is in ProofGenerator.                  *)

\* Mutant of Conclusion: whatever is not bad is good.
ConclusionByDefault(st) == IF st \in {"violated", "timeout"} THEN st ELSE "converged"

\* Mutant of Conclusion: a proof is of whatever status there is.
ConclusionAsIs(st) == st

Conclusion(st) == IF st \in {"editing", "replaying"} THEN "pending" ELSE st

BuildGet(c, s) ==
    /\ Doing(c, "none")
    /\ s \in Created
    /\ Then(c, [at |-> "report", sc |-> s, conclusion |-> Conclusion(status[s])])
    /\ UNCHANGED <<vars, tables, creation>>

\* Only a proof of a violation lists the violations.
BuildList(c) ==
    LET j == job[c] IN
    /\ Doing(c, "report")
    /\ Then(c, [at |-> "prove", sc |-> j.sc, conclusion |-> j.conclusion,
                listed |-> IF j.conclusion = "violated" THEN violations[j.sc]
                           ELSE <<>>])
    /\ UNCHANGED <<vars, tables, creation>>

InsertProof(c) ==
    LET j == job[c] IN
    /\ Doing(c, "prove")
    /\ Room
    /\ proofs' = Append(proofs, [sc |-> j.sc, conclusion |-> j.conclusion,
                                 listed |-> j.listed])
    /\ Then(c, NoJob)
    /\ UNCHANGED <<vars, scenarios, specs, creation>>

\* A statement of the request fails: what was done stays.
Fail(c) ==
    /\ ~Doing(c, "none")
    /\ Then(c, NoJob)
    /\ UNCHANGED <<vars, tables, creation>>

-----------------------------------------------------------------------------

Create(w) ==
    \/ \E msgs \in Creations : CreateFind(w, msgs)
    \/ \E s \in Scenario : CreateInsert(w, s)
    \/ CreateCheck(w) \/ CreateAppend(w) \/ CreateRefused(w)
    \/ CreateClosed(w) \/ CreateFails(w) \/ CreateAnswer(w)

\* Any other request of a worker, about scenarios that are there.
OtherRequest(w) ==
    \/ \E s \in Created : AppendCheck(w, s) \/ ReplayGet(w, s)
    \/ AppendInsert(w) \/ AppendRefused(w)
    \/ \E k \in Key, v \in SourceVersion : SourceRead(w, k, v)
    \/ SourceWrite(w)
    \/ \E r \in Replica : RegisterReplica(w, r)
    \/ \E r \in Replica, to \in {"healthy", "isolated"} :
          SetReplicaStatus(w, r, to)

Serves(w) ==
    /\ Making(w, "none")
    /\ OtherRequest(w) \/ ReplayStep(w) \/ Failure(w)
    /\ UNCHANGED <<tables, creation, job>>

Freeze(c) ==
    \/ \E s \in Scenario : FreezeGet(c, s)
    \/ FreezeList(c) \/ FreezeCreate(c) \/ FreezeSpec(c)

Build(c) ==
    \/ \E s \in Scenario : BuildGet(c, s)
    \/ BuildList(c) \/ InsertProof(c)

TimePasses == Tick /\ UNCHANGED <<tables, creation, job>>

\* The process dies, and the requests of this module with it.
Dies ==
    /\ Crash
    /\ creation' = [w \in Worker |-> NoCreation]
    /\ job' = [c \in Client |-> NoJob]
    /\ UNCHANGED tables

RegistryNext ==
    \/ \E w \in Worker : Create(w) \/ Serves(w)
    \/ \E c \in Client : Freeze(c) \/ Build(c) \/ Fail(c)
    \/ TimePasses \/ Dies

RegistrySpec == RegistryInit /\ [][RegistryNext]_registryVars

-----------------------------------------------------------------------------
(* Properties that hold whatever overlaps *)

\* Creating a scenario with messages is a request of many statements, between
\* which others append to the new scenario, replay it, and fail.  What the
\* handler counts as appended, in the end everything that it answers for, is in
\* the scenario, in the order of the request.
InOrder(done, msgs, messages) ==
    \E place \in [1 .. done -> DOMAIN messages] :
       /\ \A i \in 1 .. done : Digest(messages[place[i]]) = Digest(msgs[i])
       /\ \A i, j \in 1 .. done : i < j => place[i] < place[j]

CreationInOrder ==
    \A w \in Worker : Making(w, "append") =>
       InOrder(creation[w].done, creation[w].msgs, log[creation[w].sc])

Begins(part, whole) ==
    /\ part # <<>>
    /\ Len(part) <= Len(whole)
    /\ \A i \in DOMAIN part : whole[i] = part[i]

\* README: a frozen specification keeps the complete messages of a scenario.
\* The status, the messages and the specification are three statements, and an
\* append may come in late: it is only ever at the end that a specification
\* lacks messages of its scenario.
SpecsBeginLogs ==
    \A i \in DOMAIN specs : Begins(specs[i].msgs, Sent(specs[i].sc))

\* A proof of a violation shows violations, those that came first, although the
\* status was read in another statement and replays may be going on.
ViolatedIsListed ==
    \A i \in DOMAIN proofs :
       proofs[i].conclusion = "violated"
       => Begins(proofs[i].listed, violations[proofs[i].sc])

-----------------------------------------------------------------------------
(* Properties that hold when appends and replays do not overlap, whatever  *)
(* else is frozen and proved meanwhile                                     *)

\* README: scenarios that pass can be frozen as regression specifications.  A
\* specification has all the messages of a scenario that was replayed to its end
\* and stays converged: rechecking it never fails.
SpecStands ==
    \A i \in DOMAIN specs :
       LET sp == specs[i] IN
       /\ status[sp.sc] = "converged"
       /\ cursor[sp.sc] = Len(sp.msgs)
       /\ RecheckPasses(sp)

\* A stored proof that says converged or violated stays true, although the
\* status was read before the proof was worked out and inserted; one that says
\* violated lists all the violations there will ever be.
ProofStands ==
    \A i \in DOMAIN proofs :
       LET p == proofs[i] IN
       /\ p.conclusion \in Final => status[p.sc] = p.conclusion
       /\ p.conclusion = "violated" =>
             p.listed = violations[p.sc] /\ p.listed # <<>>

=============================================================================
