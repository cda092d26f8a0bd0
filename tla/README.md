# Verification of the cache invalidation convergence service

The service (Go, `src/`) lets an engineer register a keyspace, cache replicas and
protocol parameters, commit source versions, and write *scenarios*: ordered lists of
protocol messages (lease, invalidate, update, ack, retry). A replay engine executes a
scenario message by message against stored state and judges it `converged`, `violated`
or `timeout`. Everything is kept in SQLite, one statement at a time, except the leases,
which live in the memory of the process. Every HTTP request runs in a goroutine of its
own, and a replay takes no lock: that, crashes between two statements, and statements
that fail are where this code is hard to test, and what the models are about.

## 1. Inventory

| component | source | state | operations | correct when |
|---|---|---|---|---|
| replay engine | `internal/replay/engine.go` | none of its own between requests; during a replay `seen`, `seq`, the violations found, and what it read at its start | `Replay`, `step` (one handler per message kind), `computeUnconverged` | each message is handled once and in order; verdict, violations, trace and log agree; a replay cut off can be resumed; a final verdict stays |
| lease manager | `internal/delivery/delivery.go` | map (replica, key) → lease, in memory, no lock | `GrantLease`, `ReleaseLease`, `ValidateAck`, `DecideRetry` | an ack passes only on a live lease of its version and uses it up; retries stay within the limit |
| key versions | `internal/versioning/version.go` | rows `replica_key_versions`, `source_versions` | `ApplySourceUpdate`, `ObserveVersion`, `InvalidateKey`, `ConfirmInvalidation`, `IsConvergedFor` | source and observed versions never go back; a replica is converged only on a valid row of the source's version |
| scenario service | `internal/service/scenario.go` | scenario rows, message rows | `CreateScenario`, `AppendMessage(s)`, `RunReplay`, `Stats` | messages are appended only while the scenario is edited, under ids of their own |
| topology | `internal/topology/*.go` | keyspaces, replicas with `lease_seq`, protocol parameters | register, set status, `UpdateProtocol`, `validateProtocol` | a keyspace is there with valid parameters or not at all; a replica is never lost, reset or moved; `lease_seq` does not run ahead of the changes of status |
| store | `internal/store/*.go` | the tables; a mutex for logical clocks | one method per statement | clocks are consecutive, ids unique; each statement happens or fails as a whole |
| data model | `internal/model/*.go` | – | state names, errors | – |
| replay helpers, hashes | `internal/replay/helpers.go`, `internal/versioning/hash.go` | – | fingerprints, `Resolve` of an earlier result | a reused result belongs to the same messages |
| proof generator | `internal/proof/*.go` | – (reads the tables) | convergence proof, static audit | it explains the verdict that was given |
| specification freezer | `internal/spec/spec.go` | specification rows | freeze, recheck | a frozen specification holds the whole message sequence |
| facade, HTTP API, self check, main | `internal/service/service.go`, `internal/httpapi`, `internal/selfcheck`, `cmd` | – | forwarding, decoding, status codes, smoke test | – |

How they interact: a handler of the HTTP API calls the service, the service the topology
and the store; `RunReplay` calls the engine, which reads scenario, messages, replicas and
source versions once, then for every message calls the lease manager (memory) and the
version rules (a read and an upsert of one row), writes the status of the message, the
violation if there is one, and an event. The cursor is saved after the last message, the
verdict in another statement after that. Appends and replays of other requests run in
between. The store's mutex covers the allocation of a logical clock together with the
insert of a message; replays do not take it.

The hard behaviours are listed one by one, with the line where each bites, as `hazards`
in `PROJECT.json`.

## 2. Modules

| module | models | lines up to |
|---|---|---|
| `KeyVersions` | the row of a replica and key, and the rules that move it | pure operators; no state |
| `Leases` | the lease table, lease time, validation of acks, the retry decision | pure operators; no state |
| `ReplayService` | composes both with scenarios, messages, replicas, source versions; workers; crashes and failed statements | all actions and properties |
| `ScenarioContract` | the abstract specification: what a client who sends one request at a time is promised | refined by `ReplayService` |
| `ProofGenerator` | what the reports of `internal/proof` say of replicas and keys, and the static audit of a list of messages | pure operators; no state |
| `ReplayReports` | composes `ReplayService` and `ProofGenerator`: the engine against the reports about it | properties only |
| `Registry` | composes `ReplayService` with creating scenarios, freezing specifications and storing proofs | all actions and properties |
| `Topology` | keyspaces, their parameters and replicas, statement by statement, with the database's write lock | all actions and properties |
| `MCReplay`, `MCRegistry`, `MCTopology` | message sets, proposals and symmetries for TLC | – |
| `ReplayServiceProofs` | type correctness, for any constants | – |
| `ReplaySafetyProofs` | whatever overlaps: a violated verdict has a violation; rows that are valid have a positive version; logs, copies of logs and cursors | – |
| `ReplayDecisionProofs` | retries under overlapping replays; leases and rows belong to registered replicas | – |
| `ReplaySequentialProofs` | requests one after the other, through crashes and failures: versions, verdicts, the reports and the refinement | – |
| `ReplayUndisturbedProofs` | one worker and nothing failing: messages, violations, leases and verdict add up | – |
| `ReplayAuditProofs` | there too: rows and static audit against a log of any length | – |
| `RegistryProofs` | what creations append, what is frozen and what is proved, for any constants | – |
| `TopologyProofs` | keyspaces, replicas and the lock, for any constants | – |

### How ReplayService corresponds to the code

A *worker* is the goroutine of one request. `pc[w]` names the statement it executes next;
each action is one database statement or one lease operation together with the local
computation up to the next one, so every place where another goroutine, a crash or a
database error can come in between is a state of the model.

* `AppendCheck`, `AppendInsert`, `AppendRefused`: `AppendMessage`. The status is read
  before the store's mutex is taken; clock allocation and insert are one step because the
  mutex covers both. `Taken` is the unique index on (scenario, msg_id).
* `SourceRead`, `SourceWrite`: `ApplySourceUpdate` (read, compare; upsert).
* `RegisterReplica`, `SetReplicaStatus`: topology, as far as replays can see it.
* `ReplayGet` … `ReplaySources`: the five statements before the first message. `view[w]` is
  what they read and everything later decides on.
* `Rebuild`, `RebuildDone`: the loop over the messages before the cursor. The `seen` map is
  not stored: `SeenBefore` computes it from the log and the position, since it only ever
  holds ids of messages already passed.
* `RejectUnknown`, `HandleLease`, `HandleInvalidate`, `HandleUpdate`, `HandleAck` with
  `AckRelease` and `AckConfirm`, `HandleRetry`, `Ignore`: the branches of `step`. A handler
  reads the row and decides (`eff[w]`); `WriteRow` is the upsert.
* `Mark`, `Violate`, `LogEvent`: the message's status, the violation, the event.
* `AdvanceCursor`, `ScanPair`, `SettleViolated`, `SettleScanned`: the cursor is saved, the
  rows are read one by one for the verdict, the verdict is saved.
* `Tick`, `Crash`, `Abort`, `RowFault`, `MarkLost`, `ScanFault`: the environment. `Abort` is
  an error that ends the request; the other three are errors the code swallows, each with
  what the code makes of it.

Modelling decisions a reader should know:

* A lease carries the ticks it has left instead of an instant of expiry. `ValidateAck` is
  the only reader and answers the same for a lease that has run out and for none.
* The lease map is used by all goroutines without a lock. The Go runtime either lets
  concurrent accesses happen one after the other or ends the process on detecting them:
  atomic operations and `Crash` between any two are those outcomes.
* The order in which `computeUnconverged` visits replicas and keys is left open. It stops at
  the first key a replica lacks, and so does `Scanned`. No run has two keys, so only the
  proofs, which are for any keys, see a scan that stops early.
* The duplicate branch of `step` has no action: `NoReplayedId` checks that no replay can
  reach it, because the unique index refuses the second message when it is appended. That
  this is not what the documents say of repeated messages is divergence b below.
* Kind and wording of violations, event descriptions, value hashes and times of creation
  are left out. A violation and an event are their step number.
* `SupersedeKey` and `DuplicateCheck` have no caller and no action. `CheckMonotonicObservations`,
  the static audit, is called by `proof_test.go` and nothing else: `AuditAgrees` is about the
  function, and no request of the service depends on it.
* One keyspace whose protocol parameters do not change during a run; scenarios exist from
  the start. `MaxLog`, `MaxTrace`, `MaxCrashes`, `MaxFaults` bound the state space; a replay
  that has begun is never cut short by a bound.
* A client may send a message with a `retry_count` of its own (`service/scenario.go` keeps
  it), so `Content` has one.

### How Registry corresponds to the code

`Registry` extends `ReplayService`, and each of its steps is a step of that module or leaves the
variables of that module alone (lemma `ServiceStep`). So a creation, a freeze and a proof run
beside replays and appends statement by statement, with the races of those, and nothing is
taken from a contract.

* A *worker* may create a scenario: `CreateFind`, `CreateInsert`, and for each message
  `CreateCheck` and `CreateAppend` or `CreateRefused`, which are `AppendCheck`, `AppendInsert` and
  `AppendRefused` for the message whose turn it is. `CreateClosed` is the check of the status
  that fails because somebody else has begun to replay, `CreateFails` a statement that fails,
  `CreateAnswer` the end of `handleCreateScenario`. `OtherRequest` is `Request` of
  `ReplayService` on scenarios that have been created.
* A *client* freezes and proves, which only reads what workers write: `FreezeGet`, `FreezeList`,
  `FreezeCreate` (a transaction), `FreezeSpec` are `FreezeFromScenario`; `BuildGet`, `BuildList`,
  `InsertProof` are `Build`. `Fail` ends such a request between any two statements; the tables
  stay. `Recheck` changes nothing: `RecheckPasses` is what it answers.
* `Dies` is `Crash` with the requests of this module.

Workers and clients are apart because two properties hold with one worker and any number of
clients: what they need is that appends and replays do not overlap each other, not that
nothing overlaps them. A fingerprint is the bag of the messages it hashes, the hash of a
specification the list of its messages: that two of them differ when the data do is assumed.
The violations a proof lists are those on record when it reads them; that the report sorts
them by step is left out.

`ProofGenerator` gives the reports as the sets of pairs (replica, key) and of replicas that
their lines name. `ReplayReports` evaluates them on the rows at the moment of the verdict.

### How Topology corresponds to the code

`job[c]` is again the statement a request is at and what it carries there.

* `CreateKeyspace`, `InsertKeyspace`, `InsertProtocol`, `Commit`: the one transaction of the
  keyspace store, with its deferred `Rollback`. `writing` holds the request whose
  transaction has the write lock; what it has inserted is visible at `Commit`.
* `UpdateProtocol`, `UpsertProtocol`: the keyspace is looked up, the parameters are validated
  and upserted. A client's `Proposal` that does not pass `Valid` changes nothing and has no
  action: only `Accepted` parameters reach a statement.
* `RegisterReplica`, `CreateReplica`: look-up, insert. An id is the clock's nanosecond, so any
  two requests may have the same; the primary key refuses the second (`Duplicate`).
* `SetReplicaStatus`, `UpdateReplicaStatus`: the row is read, and written back with the next
  `lease_seq` (`NextSeq`). `changed` is a history variable, the number of such writes.
* `GetProtocol`, `ListReplicas`, `ReplayEnds`: what a replay reads and then works with. `Duration`
  is the time to live it makes of `lease_ttl_ms`, in the width of a `time.Duration`: it may
  overflow (defect f below).
* `Busy`: a statement that waits for the lock fails after `busy_timeout(5000)`. `Fail` ends a
  request at any statement, `Crash` all of them; what was not committed is gone.

Names and descriptions are left out, and so is `UpdateProtocol`'s reading back what it wrote.

`ReplayService` takes one keyspace, parameters that satisfy `ProtocolAssumption` and replicas
that are registered once and stay. `ReplaysAreSound` and `KeepsContract` of this module are
what that rests on: a replay, whatever is written meanwhile, has valid parameters and
replicas of its own keyspace, and to each keyspace its replicas behave as they do in
`ScenarioContract`. `TTL` is the time to live as a duration, which need not be positive though
`lease_ttl_ms` is; `ProtocolAssumption` allows 0, a lease that has expired when it is granted.
`ReplayService` and `Topology` are so tied to one contract, and `Registry` is on top of
`ReplayService` itself.

## 3. Runs

Sizes are distinct states.

| run | instance | what it shows |
|---|---|---|
| `solo` (983 thousand) | 1 worker, 2 replicas, 3 messages of 12 kinds, also of version 0, no failure | `TypeOK`; violations, refused messages and verdict agree (`SettledAddsUp`); each message is handled once in order (`HandledOnce`); each delivered ack used up a grant of its own (`AckUsesLease`); a converged verdict is true when it is given (`ConvergedIsTrue`) and the proof's own comparison agrees (`ProofAgrees`); a timeout report names a replica, or a row at the source's version that is not valid is the reason (`TimeoutIsExplained`); the static audit complains about just the messages of a positive version that the engine refused (`AuditAgrees`); each row says what the delivered messages say (`RowsFollowLog`) |
| `crash` (2.4 million) | 1 worker, 2 messages, also of version 0, source versions 1 and 2, 1 crash and 1 failed statement | what resuming keeps: no version rolled back, of a source or of a row, no row valid at a version that is not positive (`OnlyPositiveIsValid`), no cursor going back, final verdicts stay, verdicts cover the log, only registered replicas have leases and rows, and `KeepsContract`: every behaviour is one of `ScenarioContract`; of steps that are taken again, the trace is of every message and violations are of messages (`StepsCoverLog`), and while no statement has failed each refused message is among the violations by its number (`RefusalsLocated`) |
| `pair` (2.0 million) | 2 workers, 2 messages, 1 crash | what holds although replays take no lock: `RetryBounded`, `ViolatedIsRecorded`, `CursorWithinLog`, `NoReplayedId` |
| `settles` (251 thousand) | 1 worker, 1 crash and 1 fault, fairness | a scenario is not left `replaying` for ever |
| `registry` (3.6 million) | 1 worker and 1 client, creations of up to 2 messages, perhaps of one id, 1 crash, 1 specification or proof | `RegistryTypeOK`; the messages of a creation are appended in its order, up to the first that is refused (`CreationInOrder`); a specification is the complete log of a scenario that stays converged, so that rechecking passes (`SpecStands`); a stored proof of a final verdict stays true (`ProofStands`) |
| `overlaps` (1.8 million) | 2 workers and 1 client, 1 scenario, creations of at most 1 message | what is left when requests overlap: a message that a creation counts as appended is in the log, whoever appends and replays meanwhile (`CreationInOrder`), a specification begins the log of its scenario (`SpecsBeginLogs`), a proof of a violation lists the first violations (`ViolatedIsListed`) |
| `topology` (210 thousand) | 2 clients, 2 keyspaces, 1 replica id, 2 changes of status, proposals at and past each limit and a time to live that overflows, fairness | `TypeOK`; a keyspace is complete or absent (`KeyspacesComplete`); replays read what the model of replays assumes (`ReplaysAreSound`); no error leaves the write lock behind (`LockHeldByRequest`); `LeaseSeqWithinChanges`; replicas are never lost, reset or moved (`KeepsContract`); every request ends (`EveryRequestAnswered`) |
| `crash_loses_violation` | 1 worker, 1 crash | violated on purpose, see findings |
| `append_race`, `source_race`, `rollback_race` | 2 workers, no failure | violated on purpose |
| `lease_regranted` | 1 worker, 2 scenarios, no failure | violated on purpose |

### Bounds, and why they are enough

One key and, with crashes or two workers, one replica: leases and rows of different
replicas and keys do not touch each other; `solo` has two replicas so that one can be isolated
or not registered while the other takes messages. Two versions give
older, equal and newer; three messages give a grant, its ack and something in between or
after. `TTL` is 1, so a lease is live or gone, and a tick can fall between any two steps;
`MaxRetries` is 1 and retry counts start at 0 or 1, the last value allowed and the first
refused. One crash and one fault reach every pair of neighbouring statements, and both in
one behaviour; each adds nothing new by repeating, as all it leaves behind is in the
database. `MaxTrace` limits how often a scenario is replayed: with two workers it is needed,
since two replays can undo each other's cursor for ever. In `pair` no source version is
committed, so that a verdict is `converged` or `violated`; the properties of that run are not
about versions. Symmetry is over message ids and, where there are two, workers, which no
definition tells apart; `settles`, a liveness run, uses none.

The runs of `Registry` have one scenario and one replica: a specification or a proof is of one
scenario, and scenarios share rows and leases only, which no property there is about. Two
message ids, so that a creation may repeat one and another append may take one first; two
kinds of message in `registry`, of which one is delivered and one refused; in `overlaps` a lease
that is refused until its replica is registered. `MaxCreated` bounds the messages of a
creation, two in `registry` and one in `overlaps`; `MaxLog` holds back an append, of a creation
too, which can then still fail. A client that finds no room for another specification or proof
(`MaxStored`) waits, and can still fail. The properties speak of one specification or proof at a time, and a second differs from the
first in nothing.

`topology` has one replica id, which two requests register in the same or in two keyspaces;
statements of different replicas do not touch a common row. Two changes of status can
overlap, share a number and write it back late. Parameters are at, and one past, the limits
that `validateProtocol` has. A `Duration` has 2^64 values in the code; the runs scale it down to
2^21 values with ten to a millisecond, since TLC's integers are of 32 bits, and has times to
live on both sides of the limit. The theorem has any width.

### Fairness

`FairSpec` has weak fairness on what an accepted request does next (a goroutine that can
run is run, and the database answers) and strong fairness on `ReplayGet`: after a crash
nothing in the service takes a scenario up again, so that it settles rests on clients
asking again. A request that is in progress disables a new one of the same worker, which is
why weak fairness would not say that. Crashes and faults are not fair and are bounded.

`Topology`'s `FairSpec` has weak fairness on `Serve(c)`: a statement is executed or, by the
busy timeout, given up. Nothing is assumed of the request that holds the lock but the same.

## 4. Findings

Each is a run that checks one statement of the repository and finds it violated.

1. `crash_loses_violation`: the cursor is saved before the verdict, and a verdict looks only
   at the violations of its own run. After a crash in between, the next replay has nothing
   to process and judges the scenario converged with violations on record.
2. `append_race`: the status check of an append is outside the mutex, and replays do not
   take it: a message gets into a scenario that is being replayed or has its verdict.
3. `source_race`, 4. `rollback_race`: read, compare, upsert without a lock or a condition in
   the upsert. The older of two versions can be written last, for the source and for a row.
5. `lease_regranted`: rebuilding grants delivered leases again although acks before the
   cursor used them up, so an ack of another scenario passes on a used lease.

These five are defects of the code. More were met while modelling, for which no run is kept.
Some of them are shown by a property of this project under another instance:

a. The status is checked in one statement (`engine.go:61`) and `replaying` written in the next
   (64), so that a replay can reopen a scenario another one has just judged. `FinalIsFinal`
   holds of requests that do not overlap, as `crash` checks; it is violated on the instance of
   `append_race`, which has two workers. So is `ProofAgrees`: a verdict is based on replicas and
   source versions read before the first message. On the instance of `pair` `RefusalsLocated` is
   violated: steps are numbered from where a replay began, and a message that got in late is
   handled by a later replay, which records its violation as one of an earlier message. On that of
   `overlaps` `SpecStands` and `ProofStands` are violated: a message appended late is frozen with
   the others, and a final scenario that is replayed again gets another verdict. What is left
   when requests overlap is `SpecsBeginLogs` and `ViolatedIsListed`.

The others are plain from the code:

b. `README.md:43` and `model.go:95` (in `src/`) describe repeated messages as duplicates, or as
   violations if the content differs, that a replay reports. The code diverges: the unique
   index (`db.go:115`) refuses every repeated id when it is appended, so that the branch
   `engine.go:178-189` is never taken. `NoReplayedId`, checked by `pair` and proved, says so.
c. An update that arrives after the invalidation of its own version is delivered and leaves the
   row stale (`version.go:107`; `RowsFollowLog` says what becomes of a row); the comment at
   `version.go:79` promises valid, `src/README.md:42` that it converges.
d. The fingerprint that decides on reuse is of the messages a scenario was created with
   (`helpers.go:12`). When the creation failed before they were appended, or others were appended
   later, the result that is reused is of other messages.
e. Two overlapping changes of a replica's status can write a smaller `lease_seq` back
   (`topology.go:164`), where `model.go:34` promises a monotonic number. What remains of it is
   `LeaseSeqWithinChanges`.
f. A `lease_ttl_ms` above 2^63 / 10^6 passes validation and overflows when it is multiplied
   (`engine.go:107`): leases have expired when they are granted. `ReplaysAreSound` says of leases
   that they last only where the product `Fits`, and `ProtocolAssumption` allows for the rest.

Less than a defect: the report of a timeout compares versions and not statuses
(`proof.go:140`, `171`), so it names no replica when all that is left is rows at the source's
version that are stale or pending (`TimeoutIsExplained` says that this is the only such case
when requests do not overlap); retries are counted per message where `model.go:41` says per key
and version; `Recheck` compares hashes and replays nothing; a proof of a converged scenario
that is built after a later commit says that all match and lists keys as missing; an earlier
result is reused although replicas or parameters differ; the static audit counts from 0
(`monotonic.go:49`) where the engine compares with a row, so the engine accepts an invalidation
of a negative version on a row that is not there and the audit complains, and the engine
refuses an update of version 0 and the audit does not; `convergence_timeout_ms` and the ordering
mode are stored and never used by a replay.

## 5. Proofs

The theorems about `ReplayService` hold for any sets of workers, scenarios, replicas, keys, ids
and messages, for any TTL, retry limit, crashes and faults; they assume `ServiceAssumption` and
`ProtocolAssumption` only (the latter is implied by what `validateProtocol` enforces). Those about
`Registry` assume these and `RegistryAssumption`, that two more bounds are natural numbers.

* `TypeCorrect` (`ReplayServiceProofs`): `TypeOK`. It is not inductive alone: that a handler
  indexes the log it read within bounds depends on where the replay stands, so the invariant
  `TypeInv` adds `PosOK` (the position lies behind the cursor the replay began at and inside
  what it read) and `FormOK` (a request about to write holds something to write).
* `ViolatedAlwaysRecorded` (`ReplaySafetyProofs`): `ViolatedIsRecorded`. The verdict is decided
  by what a replay remembers, so the invariant `VerdictInv` adds `Remembers`: a replay that
  remembers a violation has recorded one, and one that is about to say "violated" remembers.
* `CursorAlwaysWithinLog` and `NeverReplayedTwice` (`ReplaySafetyProofs`): `CursorWithinLog`,
  `NoReplayedId`. A replay works on a copy of the log. The lemma `LogIsKept` says what any step
  does to a log: it marks messages or adds one, and replaces and removes none. Hence the
  invariant `LogInv`: ids are unique in every log (`UniqueIds`), what a replay has read
  is a prefix of the log up to marks (`Copied`) and the positions it saves lie within it
  (`Within`).
* `RetriesAlwaysBounded` (`ReplayDecisionProofs`): `RetryBounded`. The decision and the mark are
  two steps, and the count comes from the copy: `RetryInv` says that a decision on a retry agrees
  with the limit by the count the replay read; beside it, a message about to be inserted is
  pending (`DraftPending`).
* `OnlyRegistered` (`ReplayDecisionProofs`): `RegisteredOnly`. A registered replica stays registered, so
  a copy of the topology only errs by refusing; `RegInv` adds that every delivered message of a
  log, or of a copy of one, is for a registered replica, which is why rebuilding leases from the
  log is safe without looking.
* `ValidAlwaysPositive` (`ReplaySafetyProofs`): `OnlyPositiveIsValid`, for any overlap: a row to
  be written is sound by itself (`SoundRow`), whatever the row was when it was read.
* `TopologyTypeCorrect`, `KeyspacesAlwaysComplete`, `ReplaysAlwaysSound`, `LockAlwaysHeldByRequest`,
  `LeaseSeqAlwaysWithinChanges`, `TopologyKeepsContract` (`TopologyProofs`), for any clients, ids
  and proposals under `TopologyAssumption`. The invariant `TopoInv` adds that a transaction's
  lock is its own (`Transacts`), that what a request carries to its next statement is sound:
  parameters that are valid, a keyspace and a replica that are there, a number that does not
  exceed the changes so far (`Carries`), and that a replica without a row was never changed
  (`Untouched`).

`RegistryProofs` is about creations, specifications and proofs. `ServiceStep` says that a step of
`Registry` is one of `ReplayService` or leaves its variables alone, so that the invariants above
and below hold of it; the rest is about what a request carries from one statement to the next.

* `RegistryTypeCorrect`: `RegistryTypeOK`. `RegistryInv` adds `TypeInv` and `Carrying`: the message
  a creation is about to insert is the one whose turn it is, for its scenario.
* `CreationsAlwaysInOrder`: `CreationInOrder`, for any number of workers, crashes and faults. From
  `LogIsKept`: a log grows at its end and keeps its messages, so the places found for the
  messages appended so far are still places, and the next one comes after all of them.
* `SpecsAlwaysBeginLogs` and `ViolatedAlwaysListed`: `SpecsBeginLogs`, `ViolatedIsListed`, for any
  number of workers too. `ReadInv` says the same of what a client has read and not yet stored;
  a proof that says violated read the status first, and by `VerdictInv` a violation was on
  record then.
* `SpecsAlwaysStand` and `ProofsAlwaysStand`: `SpecStands`, `ProofStands`, for any number of clients
  and, by the assumption `OneWorker`, at most one worker. `FinalStep` of
  `ReplaySequentialProofs` says that under `StandsInv` no step touches a final scenario;
  `HoldInv` adds that what a client has read of one, and carries, is still so. Without
  `OneWorker` they are false (a).

`ReplaySequentialProofs` holds what needs requests one after the other. Its theorems assume
`OneWorker` (at most one worker) and are otherwise for any constants, any number of crashes
and failed statements included; findings 2 to 4, and a, show that without `OneWorker` they are
false.

* `SettledAlwaysCoversLog`, `FinalStaysFinal`, `CursorNeverGoesBack`, `SourceNeverGoesBack` from
  `StandsInv`: what a request has checked of its scenario or of a source still stands when it
  writes, and a replay that judges has saved the cursor at the end of the log.
* `AppendsOnlyWhileEditing` from `StandsInv` too: the status an append has checked still stands
  when it inserts. This is finding 2 seen from the other side.
* `VersionsNeverGoBack` from `ActsInv`: a row that a replay is about to write is one
  that the rules allow after the row as it is stored, and only an ack releases or confirms.
* `ConvergedAlwaysTrue` and `ProofAlwaysAgrees` from `FreshInv`: the topology and the source
  versions a replay has read are current; of the pairs it scans, each is still to come, has
  converged, or its replica is noted. `ProofAlwaysAgrees` then needs only that the proof's
  comparison follows from `IsConvergedFor`.
* `TimeoutAlwaysExplained` from `LagsInv`: a replica is noted for a row that is there. It also
  assumes `NoFault`: a row that cannot be read counts as lagging and explains nothing.
* `ContractAlwaysKept`, the refinement `KeepsContract`, from these invariants together with
  `VerdictInv`, `RegInv` and `LogInv`: the initial states map to initial states, and every step,
  crash and fault maps to a step of `ScenarioContract` or changes nothing there.

`ReplayUndisturbedProofs` goes on where nothing fails either: its theorems assume `OneWorker`,
`NoCrash` and `NoFault` (no crash and no failed statement in the bounds). Without them they are
false: a crash makes a replay handle messages again.

* `HandledAlwaysOnce` from `OnceInv`: the trace counts the messages handled (`Counts`), a scenario
  that nobody replays has all of its log handled or none of it (`Rests`), and each statement
  of a replay stands at the message after the trace (`Follows`). Only the first replay of a
  scenario comes to a message, so the cursor a later one starts at is the end of the log.
* `SettledAlwaysAddsUp` from `AddsInv`: the violations are the steps of the refused messages but
  the one about to be written (`Records`, `Told`), and what a replay remembers is whether there
  are any (`Recalls`).
* `ConvergedWithoutViolation`: `NoViolationInConverged`, the statement that finding 1 refutes. It
  follows from `SettledAddsUp`; one crash between the cursor and the verdict breaks it.
* `AckAlwaysUsesLease` from `LeaseInv`, for one scenario (`OneScenario`; with two, an ack may use a
  lease granted by the other's messages): every lease in memory was granted by the last
  message before the trace's end that granted or used it (`Backed`), but for the lease of the
  message a replay is in the middle of (`BackedBut`). Time only takes leases away.
* `AcksAlwaysWithinGrants`: `AcksWithinGrants`, also for one scenario; finding 5 is that a second
  one refutes it. From `AckUsesLease`, each delivered ack answers a grant before it with no ack
  in between (`EachAckAnswers`), so no two answer the same and there are at most as many acks.

`ReplayAuditProofs` says what such a replay leaves behind, for a log of any length, and any
number of replicas and keys; its theorems assume `OneScenario` beside `OneWorker`, `NoCrash` and
`NoFault`, as rows that another scenario has written follow its log as well.

* `RowsAlwaysFollowLog`: `RowsFollowLog`. What the property says of settled scenarios is not
  inductive, as a row is written before its message is marked. `RowInv` says it at every step,
  with the message a replay is about to mark counted as marked (`Given`): each row says what the
  delivered messages say (`TellsOf`), these come in the order of their versions (`Sorted`), a
  refused one was outdone by a delivered one or its replica is not known (`Outdone`), and a row
  about to be written says what the log will say with its message (`Weighs`). TLC checked
  `RowInv` on the instance of `solo` before it was proved. One lemma for each kind of message
  (`TellsUpdate`, `TellsInvalidate`, `TellsAck`, `TellsOther`) says what it adds to a row.
* `AuditIsPairwise`: the audit is a running maximum, a recursive function over the log. It
  complains about a message just when its version is negative or an earlier update or
  invalidation of its replica and key has a higher version. The induction is over the positions
  of the log, from the well-foundedness of < (`LeastNatural`, `SetInduction`), since the library's
  induction rules take operators.
* `AuditAlwaysAgrees`: `AuditAgrees`, from both. A refused message was outdone by an earlier
  one, which the audit sees; of the delivered ones none was, since they come in order.

Every invariant that a passing run checks is so a theorem, and every action property too, but
for `StepsCoverLog` and `RefusalsLocated`, which are model-checked: with neither crash nor
fault they follow from `HandledAlwaysOnce` and `SettledAlwaysAddsUp`. Only model-checked, because
liveness under fairness is out of this prover's reach: `EveryReplaySettles` and
`EveryRequestAnswered`. The statements that the findings refute are false in general; of each of
the five a theorem says under which assumptions it holds (1 `ConvergedWithoutViolation`, 2
`AppendsOnlyWhileEditing`, 3 `SourceNeverGoesBack`, 4 `VersionsNeverGoBack`, 5
`AcksAlwaysWithinGrants`). No module here uses a recursive operator.

## 6. Not modelled, and the plan

Done: the core (`KeyVersions`, `Leases`, `ReplayService`), its contract and runs; the reports
and the audit; the registry; the topology; theorems on what holds whatever overlaps, on what
holds one request at a time up to the refinement, on replays that nothing disturbs, on rows and
audit against the log, and about registry and topology.

Next: theorems for `StepsCoverLog` and `RefusalsLocated`, which crashes do not harm; a run for `Recheck` against a replay, and one
for the retry limit per key and version, which `model.go:41` promises and the code counts per
message.

Left out for good: the facade `service.go`, which forwards each call to the component that is
modelled; text (descriptions, JSON, HTTP codes), listing and counting queries,
start-up and flags, the smoke test; hash functions, of which only injectivity would matter.
