# ReplicaT4: models, checks and proofs

ReplicaT4 is an S3-compatible proxy: clients PUT, GET, HEAD, DELETE and LIST
objects of one virtual bucket, and the proxy keeps copies of them in several
storage backends (remote S3 services or in-process memory). This directory
holds TLA+ models of its replication core and of the parts around it, the TLC
configurations that check them, and TLAPS proofs. Paths below are relative to
the repository's root.

Contents: [inventory](#inventory), [modules](#modules-and-the-code),
[runs](#runs), [bounds](#bounds-and-abstractions), [fairness](#fairness),
[proofs](#proofs), [disagreements](#where-code-and-documentation-disagree),
[not modelled](#not-modelled), [plan](#plan).

## Inventory

| component | state | operations | talks to |
|---|---|---|---|
| HTTP handlers, router (`src/handlers`, `src/server.rs`) | none per process; one future per request, dropped when the client goes away | PUT, GET, HEAD, DELETE, LIST, HEAD bucket | the authentication layer before them, the storage trait behind them |
| Authentication (`src/auth`) | a fixed map of credentials | one decision per request: header, credentials, timestamp, signature | handlers |
| `MultiBackend` (`src/storage/multi_backend`) | list of backends, primary index, read and write mode: all fixed at start-up | the storage trait, dispatched on the modes | the backends, by concurrent calls and spawned tasks |
| - asynchronous replication (`put_object.rs:34-170`, `delete_object.rs:14-28, 69-119`) | detached background tasks, in memory only | PUT, DELETE on the primary, then copies | primary, replicas |
| - synchronous replication (`put_object.rs:55-98`, `delete_object.rs:30-67`) | one task (PUT) or call (DELETE) per backend while the request runs | PUT, DELETE everywhere, wait for all | all backends |
| - broadcast (`put_object.rs:174-236`) | one bounded channel and one spawned task per backend | send chunk, send error, close, await tasks | body stream, backends |
| - read modes (`get_object.rs`, `head_object.rs`, `list_objects.rs`, `head_bucket.rs`, `utils.rs`) | the answers collected so far | primary only, fallback, race, verify | backends |
| `S3Backend` (`src/storage/s3.rs`) | none of its own; the service holds the objects; a forwarding task and a channel during a PUT | the storage trait over HTTP | remote service |
| `InMemoryStorage` (`src/storage/in_memory.rs`) | a map under a read-write lock, lost with the process | the storage trait | - |
| Start-up (`src/main.rs`, `determine_primary_by_latency`) | - | read the configuration, create backends, choose the primary | everything |
| Configuration (`src/config.rs`) | - | parse, validate | start-up |
| Types (`src/types`, `src/app_state.rs`) | - | error codes, XML models | everything |

What is hard in it, and what has to hold:

* **Asynchronous replication.** The answer precedes the copies; the copy of a
  PUT is made from what the primary holds *later*; tasks of different requests
  are unordered; tasks die with the process while calls already sent to a
  remote service do not. It must never copy anything that its primary did not
  store, a write must end up everywhere but where older requests still had
  copies to write, these must reach nothing else, least of all the primary,
  and the background work must end.
* **Synchronous replication.** A request succeeds only when every backend has
  reported success; there is no rollback, so failed requests leave objects on
  some backends; concurrent requests are not ordered. A success must be in force
  on every backend that no older request had still to write, whatever failures
  preceded it.
* **Broadcast.** Bounded channels, backends of different speed, backends that
  fail half way, bodies that break off, clients that leave. Success must mean
  whole objects everywhere, a broken body must be stored nowhere, a slow
  backend must hold back the others (that is what bounds memory), and a failed
  one must not block them.
* **The S3 backend's PUT.** Behind the channel of the broadcast stand a second
  bounded channel and a task that nobody awaits. It must not be left behind,
  must not block the PUT when the call to the service fails, and must not turn
  an error of the body into its end.
* **Reads.** Several calls per read, answered at different moments while
  writes go on, some of them failing. An acknowledged write must be reflected,
  disagreement must not be mistaken for agreement, and every read must end.
* **Listings.** Each backend filters, sorts and cuts its own listing; only the
  cuts are compared or returned. What is there must be listed up to the cut.
* **Start-up.** The list of backends and the primary are chosen once per run of
  the process. They must be those of the file, the same after a restart, and a
  benchmark must not be won by failing.
* **The way in.** Two clocks, a calendar day and the order of a query decide
  whether a signature fits; a client that signs as the server does must be
  served.

`PROJECT.json` lists the hazards at their lines, with the properties that
cover them.

## Modules and the code

| module | models | builds on |
|---|---|---|
| `StorageBackend` | the indexed list of backends and what kind each one is | |
| `AsyncReplication` | ASYNC_REPLICATION writes | `StorageBackend` |
| `AsyncReplicationProofs` | theorems about it | `AsyncReplication` |
| `MultiSync` | MULTI_SYNC writes, one whole object at a time | `StorageBackend` |
| `MultiSyncProofs` | theorems about it | `MultiSync` |
| `Broadcast` | one MULTI_SYNC PUT, chunk by chunk; implements `MultiSync` | `StorageBackend`, instance of `MultiSync` |
| `ReadPath` | all reads in the four read modes, over changing backends | `StorageBackend` |
| `SyncReads` | a MULTI_SYNC proxy: `MultiSync` and `ReadPath` on the same backends | both |
| `SyncReadsProofs` | theorems about it | `SyncReads`, `MultiSyncProofs` |
| `Register` | what the clients of one key may rely on: an atomic register | |
| `AsyncReads` | an ASYNC_REPLICATION proxy: `AsyncReplication` and `ReadPath`; implements `Register` where it can | both, instance of `Register` |
| `AsyncReadsProofs` | theorems about it, the refinement among them | `AsyncReads`, `AsyncReplicationProofs` |
| `S3Put` | `Broadcast` with the inner pipeline of `S3Backend::put_object`; implements `Broadcast` | `Broadcast` |
| `PutProofs` | theorems about `Broadcast` and `S3Put`; the proofs that `S3Put` implements `Broadcast`, and both implement `MultiSync` | `S3Put` |
| `StartUp` | `main()`, validation, the choice of the primary, restarts | |
| `StartUpProofs` | theorems about it | `StartUp`, `Ranks` |
| `Listings` | LIST over several keys in the four read modes, over changing objects | `StorageBackend` |
| `FrontEnd` | signature, clocks, routes, handlers and statuses around `Listings` | `Listings` |
| `FrontEndProofs` | theorems about both | `FrontEnd`, `Ranks` |
| `Ranks` | lemmas about positions in what is sorted | |
| `MCAsyncReplication`, `MCSyncReads`, `MCStartUp`, `MCFrontEnd` | symmetry sets and inputs of their instances | the module named |

**AsyncReplication.** `store[b]` is what backend `b` holds under the one key
that is followed. A request goes `idle -> primary -> applied -> acked`:
`Receive` (the call to the primary starts), `PrimaryExecutes` (the primary
stores or deletes), `Acknowledge` (its success reaches the handler, which
spawns the tasks and answers in one step, for there is no `await` between).
`PrimaryFails`, `BodyFails`, `ClientGone` and `Restart` end it early; a call
that was already on its way to a remote primary is kept in `doubt`, and
`LateExecution` lets the service execute it afterwards, or never.
`MaskDeleteError` is the S3 backend's habit of reporting a failed DELETE as a
success. A PUT's background task is in `fetching` until `Fetch` reads whatever
the primary holds by then into `fetched`; `pending[r]` is the set of backends
it, or the delete tasks, have still to write (`CopyApplies`, `CopyFails`).
`Restart` empties the in-memory backends, forgets handlers and tasks, keeps
what is under way at remote services, and may change the primary.
`held`, `reached`, `last` and `contested` are history variables: no guard reads
them. `contested` is the set of backends that older requests might still change
when the `last` one arrived (`MayWrite`): by a task that had a copy to write
there, a handler still to spawn one, or a call left in doubt.

**MultiSync.** `part[r][b]` is the task (PUT) or call (DELETE) of request `r`
at backend `b`. A PUT streams its body first (`BodyEnds`, `BodyFails`), then
`PartApplies`, `PartSucceeds` and `PartFails` happen per backend in any order,
and `Join` answers. `ClientGone` treats the two kinds of request as the code
does: the tasks of a PUT are spawned and go on, the calls of a DELETE live in
the handler and are dropped with it. A PUT whose handler disappears while it
still streams leaves some backends (`cut`) with an object that ends too early.

**Broadcast.** The caller reads a chunk, then sends it to each channel in list
order, waiting where a channel is full (`HasRoom`, `CanSend`); chunks are
numbered, so a channel is described by the counters `sent` and `taken` and by
whether an error item follows (`errSent`). A task takes items until the end
(channel drained and senders dropped) or the error item. A failed remote call
keeps its receiver until the forwarding task inside the S3 backend notices
(`DropReceiver`). `stored[b]` counts the chunks of the stored object. The
operator `Abstract` instantiates `MultiSync` with one PUT under a refinement
mapping, and `ImplementsMultiSync` is that module's `Spec`; `missed` is a
history variable that tells the mapping which backends `ClientGone` cut short.

**ReadPath, SyncReads.** A read in progress is a record: the operation, the
calls under way, the backends tried, the answers. `Answer` executes a call at
one backend at one moment, or fails it (remote backends only) the way
`S3Backend` reports failures; `PrimaryOnly`, `Fallback`, `Race` and `Verify`
are what the handler does with answers in the four modes. The read mode is a
variable that never changes, so that one run covers all four. `SyncReads`
interleaves reads with every step of `MultiSync` and remembers, per read, the
write it has to reflect (`basis`) and, in ALL_CONSISTENT, which objects every
backend has held since the read began (`shown`).

**AsyncReads, Register.** The same over `AsyncReplication`. `Settled` says when
a read may be held to the last write: once it is acknowledged, in the modes
that ask only the primary; once every backend has executed it, in the others;
and where no older request had a write to come, which leaves the background
tasks of older ones free to go on elsewhere.
`Register` is an abstract specification of one key: `Call`, `TakeEffect` and
`Succeed` or `Fail` of a write, `Inquire`, `Take` and `Tell` of a read. The
refinement mapping takes the primary's object for the value, a call that the
primary has not executed for a write that may still take effect, and the moment
of the primary's answer for that of the read.

**S3Put.** The variables of `Broadcast` keep their meaning: `taken[b]` is what
the forwarder of an S3 backend has taken from the first channel. `passed[b]`,
`errPassed` and `polled[b]` describe the second channel as the first one is,
`forwarder[b]` is where the forwarding task is in its loop (`ForwarderTakes`,
`ForwarderPasses`, `ForwarderStops`, `ForwarderEnds`), and `body[b]` the SDK's
end, polled by `PollsChunk`, `PollsError` and `PollsEnd`. `CallFails` ends the
call at any moment and drops the body with it; the forwarder finds out when its
next send fails. In-memory backends take from the first channel as in
`Broadcast`.

**StartUp.** `step` is where `main()` is: `load`, `create`, `bench`, `bind`,
`serving`, `exited`. `Valid` is `Config::validate`; `Create` goes through the
entries of the file one by one, `ByName`, `ByLatency` and `ChooseFastest`
choose the primary, and `HeadBucket` collects the times of the benchmark, which
succeed or fail one by one. `Restart` is possible at any moment and forgets
everything but the file; `former` remembers the last primary for the property.
`NewOutcomes` says that `S3Backend::new` has no error path; its mutant, in which
a backend may be unreachable at start-up, breaks `RestartKeepsPrimary`.

**Listings, FrontEnd.** `objects[b][k]` is what backend `b` holds under key
`k`; `Write` changes one key at one backend, as writes, copies and late
executions do, between any two steps of a LIST. `Pages` is what a backend
answers to a prefix and a `max_keys` of any sign; `ListOneByOne`, `ListRace` and
`ListAllConsistent` are `list_objects.rs`. `FrontEnd` puts one request before
it: `Send` signs it by the client's clock, `Tick` lets the server's clock go on,
`Arrive` checks it in the order of `auth_middleware` and `verify_signature`
(`Verdict`), routes it (`Operation`) and reads its parameters (`Readable`,
`Limit`); `ListAnswered` and `StorageAnswers` turn outcomes into statuses.

## Runs

| run | instance | properties |
|---|---|---|
| `AsyncSafety` | 3 backends (0 and 2 S3, 1 in memory), 2 PUTs, 1 DELETE, failures, disconnections, restarts that choose the primary anew | `TypeOK`, `ReplicasHoldOnlyPrimaryValues`, `UncontestedWriteHolds`, `AckedWriteSurvives`, `Inductive` |
| `AsyncLive` | 3 backends, one S3 replica that may fail, 2 PUTs, 1 DELETE | `AckedWriteDrains`, `EventuallyReplicated` |
| `AsyncReads` | S3 replica, in-memory primary, 2 PUTs, 1 DELETE, 1 read | `ReadsSeeSettledWrite`, `ReadsEnd`, `ImplementsRegister` |
| `SyncWrites` | 3 backends, 1 S3, 1 PUT, 1 DELETE, disconnections, restarts | `AckedWriteHolds`, `Inductive`, `JoinEnds` |
| `BroadcastPut` | 3 backends, 2 S3, 3 chunks, channels of capacity 1 | `AckedMeansWholeEverywhere`, `BrokenBodyStoresNothing`, `LockStep`, `Inductive`, `SendReturns`, `TasksEnd`, `ImplementsMultiSync` |
| `S3Put` | 3 backends, 2 S3, 5 chunks, two channels of capacity 1 per S3 backend | `BuffersBounded`, `PutInductive`, `ForwardersEnd`, `ImplementsBroadcast` |
| `ReadsSafety` | 2 S3 backends, 2 PUTs, 1 read | `ReadsSeeAckedPut`, `ConsistentReadsProveAgreement`, `ListFailsLast` |
| `StartUp` | every file of up to 3 backends with 3 names, 3 requests per backend, 2 durations | `TypeOK`, `ServesAsConfigured`, `RestartKeepsPrimary`, `LatencyPrimaryAnswers`, `FastestByMajority`, `Inductive` |
| `FrontEnd` | pairs of S3, in-memory and mixed backends, 2 keys, 2 objects, 2 writes, 33 requests | `FrontTypeOK`, `PagesProveAgreement`, `AgreementIsSeen`, `SteadyKeysAreListed`, `PunctualIsServed`, `ShortListingIsWhole`, `ListingIsBounded` |
| `AsyncResurrect`, `SyncDiverge`, `BroadcastTorn` | small | one each, violated: see [below](#where-code-and-documentation-disagree) |

What they show, in words:

* Whatever asynchronous replication does, a replica never shows an object that
  its primary did not store (`ReplicasHoldOnlyPrimaryValues`). An older request
  can undo a newer one, but only on a backend where it had a write to come when
  the newer one arrived; everywhere else the last request is in force wherever
  it got to (`UncontestedWriteHolds`; if the contested backend is the primary
  itself, a PUT's copies are excepted, which may then be copies of another
  object). In particular the tasks of older requests never get at the primary:
  the acknowledgement means that the remote primary has the object, restarts or
  not, unless an older call to that very backend was still in doubt or under way
  (`AckedWriteSurvives`). What a restart forgets, the copies, and what it may
  choose, another primary, are outside this property.
* An acknowledged asynchronous PUT reaches every backend that does not fail and
  where no older request had a write to come, if its primary was not contested,
  no other request follows and the process lives (`EventuallyReplicated`);
  background work always ends (`AckedWriteDrains`), it is never retried and
  never blocks.
* An acknowledged synchronous write is in force on every backend that can be held
  to it and where no older request had a write to come (`AckedWriteHolds`): for
  a DELETE that excludes the S3 backends that silently failed.
* Success of a PUT means a whole object on every backend although failed sends
  are only logged; an aborted body is stored nowhere although the tasks are not
  awaited; the fastest backend is at most one channel and a chunk ahead
  (`LockStep`); no failing backend blocks the others (`SendReturns`,
  `TasksEnd`). The chunk-level PUT implements the object-level one.
* The same holds with the real pipeline behind the S3 backends: it implements
  the single channel (`ImplementsBroadcast`), buffers at most two channels and
  two chunks (`BuffersBounded`; the comment at `s3.rs:27` counts one of them),
  and its forwarding task always ends (`ForwardersEnd`).
* A read after a settled asynchronous write returns what the write left, or
  nothing if a backend fails; if none that it depends on can fail, or it
  succeeds, what the write left (`ReadsSeeSettledWrite`). With an in-memory primary
  PRIMARY_ONLY and PRIMARY_FALLBACK make each key an atomic register, whatever
  the background tasks do (`ImplementsRegister`); a remote primary does not, for
  its failures look like a missing object. Every read is answered in
  every mode (`ReadsEnd`).
* A read after an acknowledged PUT returns that PUT if it succeeds, and no object
  if it fails, as long as no older request had a write to come where the read
  looks and no other request follows: a LIST that succeeds has the key
  (`ReadsSeeAckedPut`). With the fallback and in the race a LIST fails only if it
  failed on every backend (`ListFailsLast`). The object that a successful read in
  ALL_CONSISTENT returns was on every backend at some moment since the read
  began, whatever is written meanwhile and whatever failed writes left behind;
  so if nothing is written the backends agree (`ConsistentReadsProveAgreement`).
* A LIST has every key that all backends held throughout, up to its cut
  (`SteadyKeysAreListed`); pages that agree prove that backends agree up to the
  cut (`PagesProveAgreement`) and conversely, on backends of one kind
  (`AgreementIsSeen`); `KeyCount` below `MaxKeys` means that nothing was cut
  (`ShortListingIsWhole`); only a negative `max-keys` lifts the limit of 1000,
  and only in memory (`ListingIsBounded`).
* What serves is what the file says (`ServesAsConfigured`), and the primary stays
  the same after a restart unless it is chosen by latency, when it need not
  (`RestartKeepsPrimary`); the latency benchmark prefers no backend that never
  answered (`LatencyPrimaryAnswers`), and the upper median means what it should:
  more than half of the winner's answers came within a time that at least half
  of everyone's took (`FastestByMajority`). Failures count on neither side: a
  backend with few, fast answers may win.
* A client that signs the request the way the server does, with a secret, region
  and day of its own, and whose request arrives within fifteen minutes of its
  clock is not turned away, across midnight and whatever order the parameters
  arrive in (`PunctualIsServed`).

Every property has a mutant, an operator named `<Definition>_<Change>` beside
the definition it varies: replacing the definition by it makes TLC report the
property violated, so that each property is known to depend on the code.

## Bounds and abstractions

* **One key.** Only LIST looks at two keys; outside `Listings` a listing is
  seen through the key.
* **Requests are finite sets** and each is sent once. Two PUTs and a DELETE are
  enough for every pairwise overtaking and for a third request that meets what
  two others left behind. The system comes to rest when they are used up, which
  is why the configurations say `CHECK_DEADLOCK FALSE`.
* **Backends.** Two, or three where two replicas behave differently (one fails,
  one is slow; copies land in either order). In `AsyncSafety` backend 0 and 2
  are S3 and 1 is in memory, so each kind is at times the primary.
* **The body of a PUT is the request itself**, so equal objects come from equal
  requests. In `Broadcast` a body is three numbered chunks: with channels of
  capacity 1 (256 in the code) that is enough for a full channel to block the
  caller while another task is done with all it was sent; in `S3Put` it is five,
  one more than the pipeline of one backend holds, so that everything in it is
  full at once.
* **Start-up.** Three backends are the fewest of which one can be skipped before
  the primary and one after it; three requests give an odd and an even number
  of successes and none (`BENCHMARK_REQUESTS` is 10).
* **Listings.** Two keys, of which a prefix can select the second and a
  `max_keys` cut off the second; two writes, so that backends can differ and
  agree again in the course of a LIST. `PageLimit` is 1 for 1000, so that a page
  can be full; `MaxI32` is 8, and 9 does not fit.
* **Time** in `FrontEnd` is counted in five minutes, days last two of them, and
  the clock goes to four: enough for a request to be signed on one day and
  arrive on the next, and to arrive too late. A signature is the term it is
  computed from: who has another secret, region, day or request has another
  signature. Client and server see the parameters in the same encoding: that a
  client may encode them differently from what it signs, and the server sorts
  the raw text (`signature.rs:218-250`), is left out, as are the signed headers.
* **Failures.** A call to a remote backend may fail at any moment, and one that
  was under way may be executed after that. The SDK's own retries are part of
  one call. In-memory calls take a lock and always succeed.
* **Symmetry** (`RequestSymmetry`, `PutSymmetry`) only in runs of invariants:
  PUTs are interchangeable, and so are DELETEs.
* **ETags** are the backend's kind and the object: SHA-256 in memory, the
  service's own digest (MD5) on S3.

## Fairness

tokio polls every task that is ready, so steps that are a task's own are weakly
fair: fetching, copying, joining, answering. A call to a remote backend ends by
success or by failure (the SDK has timeouts), so "execute or fail" is fair
while neither outcome alone is. Nothing is assumed about clients: a body may never
end, so `Receive`, `BodyEnds` and `ReadChunk` are not fair; nor are failures,
disconnections and restarts. In `EventuallyReplicated` the copy to a backend
that does not fail is fair even beside a slow one, since the slow one's write
ends too. In `S3Put` the forwarding task is fair like every task, and a service
goes on polling the body and answers unless its call fails. `StartUp` and
`FrontEnd` state no liveness and assume no fairness.

## Proofs

The writing protocols are proved correct for every number of backends,
every set of requests, every length of a body and capacity of a channel, with
and without restarts and disconnections: every choice of the constants that
`BackendsAssumption` and the module's own `AsyncAssumption`,
`MultiSyncAssumption` or `BroadcastAssumption` allows. Reads beside synchronous writes
are proved correct for every number of reads, in all modes, as long as the
process lives (`SyncReadsAssumption`). Start-up is proved for every file,
whatever its length, and any times of the benchmark (`StartUpAssumption`).
Listings and the way in are proved for every finite set of keys, any number of
backends, writes and parameters of the query, and every length of a day
(`ListingsAssumption`, `FrontEndAssumption`). `FrontEndAssumption` asks of the
requests only that a client has a secret at all, and of the bound on the clock
that it leaves time for one day.

| module | theorem | statement |
|---|---|---|
| `AsyncReplicationProofs` | `InductiveInvariant` | `Spec => []Inductive` |
| | `TypeCorrect` | `Spec => []TypeOK` |
| | `ReplicasFollowPrimary` | `Spec => []ReplicasHoldOnlyPrimaryValues` |
| | `UncontestedWritesHold` | `Spec => []UncontestedWriteHolds` |
| | `AckedWritesSurvive` | `Spec => []AckedWriteSurvives` |
| `MultiSyncProofs` | `InductiveInvariant` | `Spec => []Inductive` |
| | `TypeCorrect` | `Spec => []TypeOK` |
| | `AckedWritesHold` | `Spec => []AckedWriteHolds` |
| `PutProofs` | `InductiveInvariant` | `Spec => []Inductive` |
| | `AckedIsWhole` | `Spec => []AckedMeansWholeEverywhere` |
| | `BrokenIsNotStored` | `Spec => []BrokenBodyStoresNothing` |
| | `TypeCorrect` | `Spec => []TypeOK` |
| | `SlowestSetsThePace` | `Spec => []LockStep` |
| `SyncReadsProofs` | `ReadInductiveInvariant` | `SyncSpec => []ReadInductive` |
| | `ReadsSeeAckedPuts` | `SyncSpec => []ReadsSeeAckedPut` |
| | `ConsistentReadsAgree` | `SyncSpec => []ConsistentReadsProveAgreement` |
| | `ListsFailLast` | `SyncSpec => []ListFailsLast` |
| `AsyncReadsProofs` | `AsyncReadsRefineRegister` | `AsyncReadsSpec => Reg!RegInit /\ [][Reg!RegNext]_(Reg!regVars)`, if the primary is in memory |
| | `SettledInvariant` | `AsyncReadsSpec => []SettledInductive` |
| | `ReadsSeeSettledWrites` | `AsyncReadsSpec => []ReadsSeeSettledWrite` |
| | `PutInductiveInvariant` | `PutSpec => []PutInductive` |
| | `PutRefinesBroadcast` | `PutSpec => Init /\ [][Next]_vars` |
| | `BuffersAreBounded` | `PutSpec => []BuffersBounded` |
| | `PutAckedIsWhole` | `PutSpec => []AckedMeansWholeEverywhere` |
| | `BroadcastRefinesMultiSync` | `Spec => Abstract!Init /\ [][Abstract!Next]_(Abstract!vars)` |
| | `PipelineRefinesMultiSync` | the same from `PutSpec` |
| `StartUpProofs` | `InductiveInvariant` | `Spec => []Inductive` |
| | `ServedAsConfigured` | `Spec => []ServesAsConfigured` |
| | `RestartsKeepPrimary` | `Spec => []RestartKeepsPrimary` |
| | `TypeCorrect` | `Spec => []TypeOK` |
| | `LatencyPrimaryAnswered` | `Spec => []LatencyPrimaryAnswers` |
| | `PrimaryIsFastest` | `Spec => []FastestByMajority` |
| `FrontEndProofs` | `FrontInductiveInvariant` | `FrontSpec => []FrontInductive` |
| | `FrontTypeCorrect` | `FrontSpec => []FrontTypeOK` |
| | `PagesAreProofs` | `FrontSpec => []PagesProveAgreement` |
| | `AgreementIsNotMissed` | `FrontSpec => []AgreementIsSeen` |
| | `SteadyKeysStay` | `FrontSpec => []SteadyKeysAreListed` |
| | `ShortListingsAreWhole` | `FrontSpec => []ShortListingIsWhole` |
| | `ListingsAreBounded` | `FrontSpec => []ListingIsBounded` |
| | `PunctualAreServed` | `FrontSpec => []PunctualIsServed` |

Most of these properties are not inductive by themselves; each module's `Inductive`
is, and TLC checks it too (`AsyncSafety`, `SyncWrites`, `BroadcastPut`, `S3Put`,
`StartUp`; `SyncReads`' `ReadInductive`, `AsyncReads`' `RegisterInductive` and
`SettledInductive`, and `FrontInductive` on the instances of `ReadsSafety`,
`AsyncReads` and `FrontEnd`, outside the runs). `MultiSync`'s, `Broadcast`'s and
`StartUp`'s contain their `TypeOK`. The proof modules have one lemma per
conjunct and in it one step per action, or one lemma per kind of step
where a step disturbs most of the invariant (`FrontEndProofs`).

*Asynchronous replication.* A state in which an idle request has tasks, or an
older one has a write to come for a backend that is not contested, satisfies
`UncontestedWriteHolds` and has a bad successor. `Inductive` rules these out: a
request that has not arrived has left no trace (`IdleIsUntouched`); whatever
follows the primary's execution comes with the primary in `reached`
(`HomeReached`); what older requests may write only shrinks, so it stays within
`contested` (`RivalsAreConfined`); the copies of a PUT whose primary is not
contested are copies of itself (`OwnCopies`). Durability follows from
`HomeReached` and `UncontestedWriteHolds`, with `reached[r]` pruned by `Restart`
to remote backends.

*Synchronous replication.* While a body streams, no backend has executed
anything (`StreamingIsUnstored`), so a client that disconnects can tear only
objects still to be stored, and only when the handler is gone (`OnlyGoneAreCut`),
never those of an acknowledged request. A success of a part means that the
backend executed it, unless `ErrorSeen` hid the failure of a remote DELETE or a
restart emptied it (`SuccessIsExecuted`); an acknowledged request has all
successes (`AckedBySuccess`); what the last request reached still has its result
where it is not contested (`UncontestedResultHolds`), because older requests
write only what is (`RivalsAreConfined`).

*Reads beside synchronous writes.* The writes do not see the reads, so
`MultiSync`'s `Inductive` holds with them. From `AckedWriteHolds` every backend
that a read may ask has the PUT that it has to reflect for as long as that is the
last write (`BasisInForce`), so every answer shows it or nothing
(`AnswersReflectBasis`). `shown` grows with every step of a write, so an answer
shows what its backend held at some moment of the read (`AnswersWereShown`), and
equal ETags (`SuccessIsConsistent`) are those of equal objects. A LIST gives a backend up only after its error (`LosersFailed`),
for LIST alone can see one (`KindsFitOperation`), and a backend is awaited only
once it is asked (`CallsFitPhase`). A step of a read is one of four kinds
(`Asks`, `Hears`, `Ends`, `Continues`): `ReadStepKinds` reduces the handlers of
all modes to them.

*Reads beside asynchronous writes.* With the primary in memory nothing is ever
in doubt (`PrimaryStays`) and a read that believes the primary waits for it
alone and is told what it holds (`PrimaryTells`). So the content of the register
is the primary's object, and each step is mapped: the arrival of a write, its
execution on the primary, its answer and its end to `Call`, `TakeEffect`,
`Succeed` and `Fail`, the three steps of a read to `Inquire`, `Take` and `Tell`;
background tasks write only replicas (`TypeOK`), so they stutter. For
`ReadsSeeSettledWrite` the primary may be anywhere and the mode any: from
`UncontestedWriteHolds` the settled write is in force on every backend that the read
asks, or may come to ask, so what it was told is still true or is a remote
failure (`Reflects`). A read for which only the primary is settled never goes on
to another backend (`FallbackStops`), and answers from memory agree
(`MemoryAgrees`).

*Broadcast.* The argument is about counters. The caller has sent each chunk it
read to every channel below `target`, and all but the last one to the others
(`SendsInOrder`); a channel holds at most its capacity (`ChannelsAreBounded`):
together they bound how far two backends can be apart. The error item goes to
every live channel before the caller returns and drops its senders
(`ErrorsReachAll`), so a drained channel without one, once the senders are
dropped, has given all that was sent: a task that stores has taken the whole
body, unless the handler was dropped (`ReceivesToTheEnd`).

*The S3 pipeline.* In every state of `PutInductive` a step of `S3Put` is a step
or a stutter of `Broadcast` (`StepRefines`), which is both the refinement and
the reason why `Broadcast`'s part of the invariant is preserved. The rest says
that what is polled, in the second channel and in the forwarder's hands is, in
this order, what was taken (`ForwardsInOrder`), and that the call to the service
can see the end of the body only after the stream has ended without an error
(`BodyFitsCall`).

*From the pipeline to the object.* `MultiSync` decides which objects will be torn
when the client leaves, `Broadcast` when the backends store. `CutsAreKnown` says
that they agree: a backend that stores has taken all of its channel, and that is
the whole body unless the backend lacked chunks when the handler was dropped.
With it each of `Broadcast`'s actions is one of `MultiSync`'s or a stutter
(`AbstractStep`), and with `PutRefinesBroadcast` so is each of `S3Put`'s.

*Start-up.* Only a validated file gets past loading (`RunsValid`); the backends
made so far are the first entries of the file, none skipped (`NoneSkipped`); so
the index that `main()` finds in its own list is the one the file determines,
for this run and the one before it (`PrimaryFromFile`). A primary that is chosen
by latency is the first of the stable sort by P50, over the times of all the
backends (`PrimaryFromTimes`). The comparison, with the index for equal
backends, orders them (`SpeedOrder`), so by `Ranks` there is a first one
(`FastestExists`), and a backend without answers comes after any that has one. The P50 of the winner is the time that
`FastestByMajority` asks for: an element at the upper middle of a sorted list
has more than half of the list up to it and at least half from it on
(`P50Halves`), by counting positions.

*Positions.* `Ranks` proves what sorting is used for: with an order on a finite
set, given as a set of pairs, the number of elements up to an element is its
position, every position from 1 to the size of the set is that of exactly one
element, and those with the first `n` positions are `n` or all.

*Listings.* Every answer is a page or the error of a remote backend, and a page,
however old, lists matching keys of its backend, as many as `max_keys` allows,
and misses no steady key up to its last one (`PageFits`); as long as nothing is
written it is what the backend would still answer (`AnswersFit`). What is steady
is held by everyone after any write (`SteadyIsHeld`), which is
why an old page keeps the keys that remain steady. The result is one of the
answers, or what the comparison of all of them says (`ResultFits`). For
`PagesProveAgreement` the cut has to be looked into: the first `n` keys of a set
have no gaps (`FirstIsPrefix`), so a key up to the last one of a page is in the
page or is not held; as all pages have the same keys and ETags the backends agree
there. Conversely, backends that hold the same cut the same (`SameHeldSamePage`),
and ETags of different kinds never agree.

*The way in.* The order of the parameters is the crux. The pair that `Canonical`
puts at a position is the one with fewer pairs before it than that and at least
as many not behind it (`CanonicalAt`), so the result depends only on how often
each pair occurs (`CanonicalByCounts`), and a permutation changes no such number (`PermutedCount`): so
the server's query and the client's are one (`CanonicalOfReordering`) and with
them the terms that are signed (`PunctualIsAccepted`). The rest of
`FrontInductive` says that the storage is busy with a LIST only between the
request and its answer (`ListFitsRequest`) and that the numbers in an answer are
those of the result (`AnswerFitsRequest`). `FrontTypeOK` contains the bound of
`max-keys` on which `ListingIsBounded` rests.

Only model-checked: the liveness properties (liveness under fairness is out of
the prover's reach) and with them the fairness part of the refinements.

## Where code and documentation disagree

Each is a run that TLC ends with a counterexample.

* `AsyncResurrect`: a client PUTs, is answered, DELETEs, is answered; the PUT's
  task, which had read the object from the primary, writes it to a replica
  after the DELETE's task: it stays there. `delete_object.rs:154-156` expects
  the object gone from both backends.
* `SyncDiverge`: two concurrent MULTI_SYNC PUTs, both successful, leave
  different objects; `docs/docs/read-write-modes.md:168` says "Strong".
* `BroadcastTorn`: the handler's senders are also dropped when the handler is;
  tasks take that for the end of the body (`put_object.rs:223-224`) and store a
  truncated object.

Seen while modelling, without a run of its own:
* `s3.rs:367-371` turns a failed DELETE into success, while
  `docs/docs/read-write-modes.md:275` says of MULTI_SYNC that any failure fails
  the operation. The models have it (`ErrorSeen`, `MaskDeleteError`), and
  `AckedWriteHolds` excepts such backends.
* `s3.rs:263-266, 305-308` report every failure as NoSuchKey, so a failing S3
  primary ends a PRIMARY_FALLBACK read instead of starting the fallback
  (`docs/docs/read-write-modes.md:59-60, 254`); `ReadPath` has it
  (`FailureSeen`), and `ReadsSeeSettledWrite` therefore allows "nothing" when a
  backend fails.
* A request dated only by a `Date` header passes the check of its time
  (`signature.rs:101-107, 159-166`), but its signing key is made for the first
  eight characters of that header (`signature.rs:295`), which are no day: it
  is refused with SignatureDoesNotMatch. `FrontEnd` has it (`DateKey`). The
  region of the key is fixed (`signature.rs:300`).
* `IsTruncated` is always false (`handlers/list_objects.rs:61`).
* Asynchronous PUTs overtake each other like the PUT and the DELETE of
  `AsyncResurrect`.
* The race of BEST_EFFORT ends with the first NoSuchKey, so a failing S3 backend
  hides an object that another one has (`utils.rs:99-103`, `config.rs:13`).
* ALL_CONSISTENT compares digests of different kinds on a mixed list of
  backends, and fails on equal objects (`in_memory.rs:34-38`,
  `utils.rs:175-188`); `AgreementIsSeen` states it for LIST.

## Not modelled

The grammar of configuration files and the command line; the text of HTTP
headers, answers and errors, and which headers a client signs; the digests of
authentication and of ETags; logging; metadata other than the ETag; failures of
the stream of a GET after its answer has started (the client sees a broken
body); panics of tasks, which the code turns into errors; the mutex inside
`StreamBody`, which has one user; the lock of `InMemoryStorage`, under which
nothing is awaited, so that each operation is one step. `FrontEnd` follows one
request into `Listings` only: what the storage does with the others is the
business of the modules above.

## Plan

What is left, in this order:

1. `AsyncReads` across restarts that change the primary, where only what a
   remote primary acknowledged can be read again.
2. An inductive invariant for it, from `AckedWriteSurvives`, and what reads
   may rely on then.
3. What the liveness properties rest on and can be proved: that in the pipeline of
   `S3Put` nobody waits in a circle, as an invariant which says, for every place
   where a task or the caller waits, who can go on.
