# TLA+ models of collections-service

The service keeps *collections*: named lists of DOIs of datasets that Pennsieve
has published. Users create, change, list and delete them, and publish them,
as datasets of their own, through the Discover service. It runs as an AWS
Lambda behind an API gateway, with a Postgres database, an S3 bucket for the
manifests of published collections, and Discover as its neighbours.

The modules here are translated from the Go source. `PROJECT.json` maps each
definition to the lines it stands for.

## 1. The system

Every HTTP request is one invocation of the Lambda. An invocation is a
sequential program, but any number of them run at the same time, on any number
of Lambda instances, and they share three stores that no transaction spans:

| store | what it keeps | who writes it |
|---|---|---|
| Postgres, schema `collections` | `collections`, `collection_user`, `dois`, and one row per collection in `publish_status` (status and type of the last process) | the handlers, through `store/collections` |
| S3 publish bucket | one object per collection, `manifest.json`, with object versions | publish writes and deletes versions, Discover removes all of them when it unpublishes |
| Discover | a dataset per collection with its published versions, one of which may be pending | publish opens and finalizes a version, unpublish takes the dataset down |

### Components

| component | source | state | operations | modelled in |
|---|---|---|---|---|
| publish handler | `routes/publish_collection.go` | its locals and the list of cleanups | read, StartPublish, lookups, publish to Discover, save the manifest, finalize, FinishPublish, cleanups in order | `PublishLifecycle` |
| unpublish handler | `routes/unpublish_collection.go` | the same | read, StartPublish, unpublish, FinishPublish, cleanup | `PublishLifecycle` |
| delete handler | `routes/delete_collection.go` | – | read, check the status, delete | `PublishLifecycle` |
| create handler | `routes/create_collection.go` | – | checks, one insert | `PublishLifecycle` (one step), `CollectionsList` (begun and committed), `Validation`, `Views` |
| patch handler | `routes/patch_collection.go` | the difference to what it read | read, difference, check of the DOIs, update | `CollectionUpdate`, refining `AtomicEdits`; one step in `PublishLifecycle`; `Validation`, `Views` |
| list handler | `routes/get_collections.go` | two pools of goroutines | page, dataset lookup in batches, status lookup | `CollectionsList`, `WorkerPool`, `Views`, `Lists` |
| collections store | `store/collections/collections.go` | the tables | SQL statements, one transaction | `CollectionsStore`, `CollectionUpdate`, `CollectionsList`, `Lists` |
| publishing vocabulary | `publishing/status.go`, `dto/collection.go` | – | translation of Discover's answers, checks on the status | `Publishing` |
| Discover client | `service/internal_discover.go` | – | publish, finalize, unpublish, status | `Discover` (external part: from how the handlers use it) |
| manifest store | `store/manifests/manifests.go` | object versions | save, delete a version | `ManifestStore` |
| manifest builder | `publishing/manifests.go` | – | a document that states its own size | `ManifestBuilder` |
| DOI, banner, contributor helpers | `routes/dois.go`, `banners.go`, `contributors.go` | – | pure | `Lists`, `Views` |
| get handlers, DTO mapping | `routes/get_collection.go`, `get_doi.go`, `mapping.go` | – | read one state, look up its datasets | `Views`, `Answers` |
| validation | `validate/validate.go`, the checks in the handlers | – | lengths, licenses, tags | `Validation` |
| public Discover and DOI clients | `service/discover.go`, `internal_doi.go`, `discover_models.go` | – | lookups, translation of errors, ids of contributors | `Views`, `Answers`, `ContributorID` |
| container | `container/container.go`, `config/ssm.go` | clients and a key, for the life of a Lambda instance | made or read on first use | `Container` |
| roles, configuration, migrations | `handler.go`, `config/`, `dbmigrate/` | – | see `PROJECT.json` | not modelled |

### What is hard

* *The status row is a lock.* `StartPublish` is an upsert that does nothing when
  the row says `InProgress`; `FinishPublish` gives the lock back. Nobody records
  who holds it, every cleanup writes to it, and no one breaks it when its
  holder is dead.
* *Three stores, no transaction.* A publish writes to Postgres, Discover, S3,
  Discover, Postgres, in this order. When a step fails its cleanups undo the
  earlier ones, with calls that may fail themselves; the status is released
  before the manifest and the pending version are cleaned up.
* *Stale reads.* All handlers check what `GetCollection` returned some time
  before they act on it: publish and unpublish before `StartPublish`, delete
  before its `DELETE`, patch before its transaction.
* *Crossing transactions.* Two updates write the same rows of `dois` at READ
  COMMITTED, in the orders of their requests, while the collection may be
  deleted.
* *Pages of a moving list.* `GET /` counts rows from the start for every page,
  reads a page with two statements outside of any transaction, and orders by ids
  that are taken before the rows are seen.
* *The same question, asked in several places.* What is a valid text or DOI is
  decided by create, patch, publish and the view, each with code of its own.
* *Bounded channels.* The list handler runs a producer, workers, a closer and a
  collector that leaves at the first error.

The hazards, at their lines, are in `PROJECT.json`.

## 2. The modules

```
Publishing           statuses, types, Discover's answers, checks on a status
CollectionsStore     rows and their statements           EXTENDS Publishing
Discover             versions of a dataset               EXTENDS Publishing
ManifestStore        object versions of the manifests    EXTENDS Publishing
PublishLifecycle     the handlers over the three stores  EXTENDS the three
PublishLock          abstract: a try-lock per collection
PublishLifecycleProofs  types, the lock, its refinement  EXTENDS PublishLifecycle
PublishOutcomeProofs    Discover and the manifests       EXTENDS PublishLifecycleProofs
PublishOwnerProofs      what is left behind              EXTENDS PublishLifecycleProofs
AtomicEdits          abstract: what PATCH promises
Lists                the pure functions on lists, CategorizeDOIs, a page, ...
ListsProofs          what its folds return               EXTENDS Lists
CollectionUpdate     PATCH and its transaction           EXTENDS Lists, refines AtomicEdits
CollectionUpdateProofs  its invariant and refinement     EXTENDS CollectionUpdate, ListsProofs
CollectionsList      GET / and its pages, while the list changes
CollectionsListProofs  their theorems                    EXTENDS CollectionsList
WorkerPool           the two pools of the list handler
WorkerPoolProofs     their theorems                      EXTENDS WorkerPool
ManifestBuilder      the manifest that states its size
Views                DOIs let in, published and shown    EXTENDS Lists
Validation           the checks on texts, and the tables
ContributorID        what the id of a contributor hashes
Container            the clients of one Lambda instance
Answers              the status codes of the get handlers
Algorithms           the pure functions, what they promise  EXTENDS Views, ManifestBuilder
AlgorithmsProofs        its theorems                     EXTENDS Algorithms, ListsProofs
MC*                  instances for TLC
```

Definitions named "Mutation" in their comment are variants of the definition
that follows them, each with a plausible mistake. They show that a property is
able to fail and are used by nothing else.

### PublishLifecycle

*State.* `row`, `publication` (the `publish_status` row), Discover's `pending`,
`live`, `versions`, the manifest's object versions, and for every invocation
slot `p` a label `pc[p]` and its locals. A slot is free (`idle`) between two
requests, so `Procs` bounds the requests that overlap and not their number.
The labels name the code that runs next:

| label | code that runs next |
|---|---|
| `startPublication`, `startRemoval` | `StartPublish` (publish_collection.go:60, unpublish_collection.go:58) |
| `prepare` | the lookups and checks before Discover is called (72-145) |
| `publish` | `PublishCollection` on Discover (146) |
| `save` | `SaveManifest` (163-202) |
| `finalize` | `FinalizeCollectionPublish` (204) |
| `finishPublication`, `finishRemoval` | `FinishPublish` (230, unpublish 109) |
| `unpublish` | `UnpublishCollection` on Discover (71) |
| `delete` | `DeleteCollection` (delete_collection.go:49) |
| `cleanup` | the next of the functions given to `cleanupOnError` (341-368) |

*Steps.* An action is a call that changes something outside of the invocation,
with the code up to the next call: reads and checks of one handler before its
first write are one step (`PublishRead`), and so are the lookups in the middle
(`Prepare`), since they change nothing and only the time of the next write
matters. `GetCollection` is one SQL statement.

*Failures.* A call may be `Refused` (it fails and has no effect) or `Lost` (it
has its effect and the caller gets an error): two sets of calls, parameters of
the module. `MayCrash` lets an invocation end at any point (the timeout of the
Lambda, `terraform/lambda.tf`).

*Data.* A collection's content is a member of `Contents`; those in
`Publishable` pass the checks of a publish. Roles are left out: a request that
is turned away has no effect (`Refuse`). A version of the object in S3 is named
by the Discover version it belongs to.

*External.* Discover is modelled by what the handlers rely on. A publish opens
a new version; finalize with success makes it live, or not, and answers with a
status; finalize with failure drops the pending version, and whether it takes
down a version that is already live is left open; unpublish takes the dataset
down and answers `UNPUBLISHED`, or leaves it and answers with another status, or
with 204 when no version is live, which the handler cleans up and turns into a conflict
(internal_discover.go:99, unpublish_collection.go:84). Which statuses it answers
to which request are two constants, `FinalizeReplies` and `RemovalReplies`: the
handlers translate any of the four for either (dto/collection.go:331), so that
what a status says depends on what Discover answers.

### CollectionUpdate

One collection, several PATCH requests and a DELETE. Name, description, license
and tags are one text. The transaction is run statement by statement at READ
COMMITTED: what it writes is private until `Commit`, a statement waits
(`Waits`) for a row another transaction has written, an `INSERT` takes its rows
one by one, in the order of the request, and Postgres ends a transaction of a
deadlock (`AbortDeadlock`). `DELETE FROM dois` takes its rows at once when all
are free; `DELETE` of the collection likewise, with the rows that go with it.
DOIs to add are trimmed (`CategorizeDOIs`), DOIs to remove are not: a removal
counts only when it is spelled as it is stored.

`AtomicEdits` says what PATCH promises: of a request that is answered with
success each change was true already at some moment, or was made, and those it
made were made at one moment; a request that fails made all or nothing. The
refinement maps what a request still asks for to what is left of the patch, of
the update, and of what its transaction has written but not committed
(`askedBar`), and the label and the answer of a request to whether it is open,
succeeded or failed (`statusBar`): success may be said only when nothing is asked
for any more. It
does *not* promise an order of the requests: since a request leaves out what
was true when it read the collection, two overlapping requests may end in a
state that neither order of them gives.

### WorkerPool

`fetchPennsieveDatasetsInBatches` and `fetchCollectionPublishStatuses` have the
same goroutines and channels; they differ in the capacity of the channel of
jobs (`numWorkers`, and all of them). Every goroutine is a few actions:
`Produce`, `CloseJobs`, `Take`, `RunOut`, `Check` of the context, `Call`,
`Send`, `CloseResults`, `Collect`, `ReturnError`, `ReturnMap`.

### CollectionsList

The tables as `GET /` sees them, and one client that pages through the list of
a user. A collection takes its id when its `INSERT` begins and is seen when it
is committed (`Insert`, `Commit`, `Abort`), so that ids may become visible out of
order; `Update` and `Delete` are one step each, being transactions. A request is
two actions, its two statements: `ReadPage`, then `ReadDOIs`, or `Recount` when the
page is empty; either may fail (`RequestFails`), and the client then asks
again. The walk ends with the first empty page.

A walk by offset cannot be exact. What is checked is *when* it is not: a
collection is missed only if one with a lower id was deleted on the way, and
shown twice only if one with a lower id became visible on the way. An entry mixes
two states of a collection only if it was changed between the statements.

### Pure functions

`Lists`, `ManifestBuilder`, `Views`, `Validation`, `ContributorID`, `Container` and
`Answers` are operators; loops are folds over the community modules.
`Algorithms` compares them with definitions that say directly what they
return, by positions and ranks instead of loops (`At`, `FirstPositions`, `Rank` of
`Lists`), and with each other where handlers have to agree. Its behaviours are
single inputs, so that an invariant speaks of every input; `Inputs` is a constant
whose types are assumed, one assumption for each kind, and `MCAlgorithms` gives
it small sets.

* `Views`: the DOIs that create and patch let in, that a publish accepts, and
  that the view of a collection and the list show. Optional fields of a
  contributor are pointers in Go; `Decoded` gives each an address of its own, and
  `Deduplicated` compares addresses, as Go does with structs.
* `Validation`: what create and patch store of a request, what a publish
  demands, what the tables accept. A text is its lengths in bytes and
  characters, without the blanks around it, and whether there are any.
* `ContributorID`: the bytes that the id of a contributor is a hash of. The hash
  is left out: 31 bits collide, which the code accepts.
* `Container`: a sequence of requests to one instance of the Lambda, which keeps
  the clients it has made and the key it has read.
* `Answers`: the status of `GET /{nodeId}` and `GET /{nodeId}/doi`, from what the
  stores and services answer.

## 3. The runs

| run | instance | shows |
|---|---|---|
| `overlap` | 3 slots, 1 collection, 2 contents, 1 version opened per reader; every call but `StartPublish` may be refused, every call but `FinishPublish` (and `StartPublish`) may be lost, invocations are killed; `PUBLISH_SUCCEEDED` is answered to a finalize only, `UNPUBLISHED` to a removal only | `TypeOK`; `Exclusive`: two processes never run for a collection; `RunningMeansInProgress`; `LockSpec`: the status rows implement `PublishLock`; `CompletedAgreesWithDiscover`: a completed publication is live, a completed removal is not; `CompletedHasManifest`: and its manifest is in the bucket; `SettledManifestStays`: nothing takes it away while the version is public; `PublishedIsPublishable`: nothing unchecked reaches Discover though updates go on |
| `answered` | 2 slots, with fairness, no killed invocation, any answer to any request | `EveryRequestAnswered`, `InProgressIsTemporary`; `InProgressIsOwned` and `PendingIsOwned`: no failed process leaves its status or its pending version behind |
| `pool` | 2 workers, 5 jobs, channels of 2, failures, a cancelled request | `Complete`: no map without a batch; `NoSendAfterClose`; `Answered` |
| `edits` | 2 requests out of 19 and a deletion, 4 DOIs, failing calls | `AtomicSpec`, `EveryPatchAnswered` in spite of crossing locks, `TypeOK` with what an open transaction may hold |
| `walk` | 3 ids, 2 users, 2 contents (one without DOIs, one with more than are shown), pages of 0, 1 and 2 | `NothingIsMissed`, `NothingIsRepeated`, `PageAgreesWithTotal`, `TornOnlyByAChange`, `TypeOK` |
| `algorithms` | all lists up to 4, tables up to 3 collections, manifest sizes within 12 of 10^2 to 10^6; a collection grown by two requests, all that Discover may know of 3 DOIs; texts around 255 bytes; three requests to one instance; all answers of the services | five functions against their definitions: `EachDOIOnce`, `BannersOfFirstFound`, `BatchesCoverTheList`, `PageIsExact`, `ManifestStatesItsSize` |
| | | between handlers: `AcceptedDOIsAreShown`, `ContributorsAreThoseShown`, `ListBannersArePrefixes`, `AcceptedFitsTheTables`, `AcceptedIsReadyWhenComplete`, `ContributorsAreToldApart`, `ClientsShareTheKey`, `LookupIsRetried`, `AnswersBlameTheRightSide` |
| `start_error`, `second_removal`, `killed_publish`, `delete_race`, `left_over`, `long_lookup` | the smallest instance that shows it | six findings, below |

What some of these properties do and do not say: `CompletedAgreesWithDiscover`
holds in `overlap` because of what Discover is taken to answer there (see
*Excluded failures*). `AcceptedDOIsAreShown` speaks of one state of Discover; a dataset that is taken
down after it was let in is refused by the next publish, and shown as
unpublished. `TornOnlyByAChange` allows the torn entry that its
hazard describes and says that a change between the statements is the only
cause. `ContributorsAreThoseShown` allows the repeated contributors of its hazard and
says what is kept: nobody is lost, and those without optional fields come once.
`ClientsShareTheKey` says that an
instance keeps its first key, which is why it does not see a rotation;
`LookupIsRetried` that a failure is not kept.

*Bounds.* One collection is enough for the lifecycle: no statement touches the
rows of two. Three slots let one invocation finish or clean up while a second
starts and a third competes, which is what a stale holder of the lock needs;
the proofs show that more make no difference. `MaxVersion` is looked at when a
publish begins, so that the readers that have passed it can still open a
version each. Five jobs with channels of two are more
than the channels and the workers hold together (2 + 2) plus one, so that all
of them block. Two editors suffice for every conflict of two transactions; a
deadlock of three is one of two with longer waits. Symmetry of the slots is used
where only safety is checked. Three ids are what a walk needs to lose or repeat
one: one that moves, one that is shown in between, one that is not the
user's; the proofs show that more make no difference. `MaxPerRequest` is 2, as
the batches of a list are: what matters is that a list of DOIs may be longer.

*Deadlock* is checked, but in `pool` and `left_over`: once the caller has
returned the goroutines may be stuck, which is the finding of `left_over`.

*Fairness.* `FairSpec` of `PublishLifecycle` has weak fairness for the steps of
each slot: a running Lambda makes progress, since each call returns or fails;
requests need not come. A call that hangs is a killed invocation.
`WorkerPool` has weak fairness per goroutine (Go's scheduler), with none for
the cancellation. `CollectionUpdate` has strong fairness of each request's
steps, since Postgres serves the transactions that wait for a row in turn, and
weak fairness of the deadlock detector.

*Excluded failures.* `overlap` excludes an error of `StartPublish` other than
the conflict, and a `FinishPublish` that takes effect and reports an error.
Both break `Exclusive` (`start_error` shows the first; the second is the same
with `cleanupStatus`, publish_collection.go:281, over the `InProgress` of the
process that came next).

It also excludes two answers of Discover: `PUBLISH_SUCCEEDED` to an unpublish and
`UNPUBLISHED` to a finalize. Each is the success of the other request, and both are
stored as `Completed`, since one function translates all answers
(dto/collection.go:331) and neither handler looks at what it asked for. With
`PUBLISH_SUCCEEDED` in `RemovalReplies`, and nothing failing, TLC finds
`CompletedAgreesWithDiscover` violated: a publish, then an unpublish with this
answer, leaves `Completed`/`Removal` on a public dataset, which can then not be
unpublished ("already unpublished", unpublish_collection.go:141) and may lose
its collection to a delete. `UNPUBLISHED` to a finalize breaks the property for
a publication, and `CompletedHasManifest` with it. Whether Discover gives these
answers is not in this repository, so this is an assumption and not a finding; all
other properties are proved, or checked in `answered`, for any answers.

`overlap` includes a finalize
whose answer is lost, and a `FinishPublish` that is refused, after the version has
become live: the cleanups then delete its manifest and tell Discover that it
failed. Such a collection says `Failed`, so `CompletedHasManifest` does not speak
of it; what Discover makes of it is not in this repository. `answered`
excludes killed invocations and failures of the calls the cleanups are made
of: each leaves something behind for good.

### Findings

1. `start_error`: an error of `StartPublish` runs `cleanupStatusIfExists`
   (publish_collection.go:68), which sets `Failed` whoever owns the status. A
   process that is running loses its lock.
2. `second_removal`: an unpublish that read the status before another one
   completed is let in, since `StartPublish` looks for `InProgress` only; Discover
   knows of nothing to remove, and `Failed` replaces the completed removal. The
   collection can then be neither deleted nor unpublished. A first publish that
   fails has the same effect on a collection that was never public, with content
   that does not pass the checks: `Failed` and type `Publication`, which delete
   refuses (delete_collection.go:57) though its comment allows what "has never
   been published".
3. `killed_publish`: a killed invocation leaves `InProgress`, "a temporary
   state" (status.go:8), for ever.
4. `delete_race`: delete checks a status it read earlier, and deletes a
   collection that has become live in the meantime.
5. `left_over`: after a failed batch the producer and the workers stay blocked.
6. `long_lookup`: the view of a collection and its publish name all of its DOIs
   in one URL, which the list of collections avoids because of "URL-to-long errors"
   (get_collections.go:131). A collection can grow beyond that by
   requests each of which is accepted.

Observations that have no run of their own:

* A DOI with Pennsieve's prefix that Discover does not know is let in by create
  and patch, accepted by a publish and shown as UNKNOWN (mapping.go:85).
* A contributor with an ORCID, a middle initial or a degree, who is named by two
  datasets, is listed twice in the view: `Deduplicated` compares pointers
  (contributors.go:16), and each dataset is decoded to pointers of its own.
  `contributors_test.go:29` reuses the pointers and does not see it.
* An update that adds DOIs to a collection deleted in the meantime is answered
  with an internal error, although the comment at collections.go:420 expects
  not found: the broken foreign key ends the transaction before the lookup.
* A publish sends the content that it read before it was started
  (publish_collection.go:39); one that read earlier than another may publish the
  older content as the newer version. No document says which one it has to send.
* A new process may run beside the last cleanups of a failed one, since these
  come after the release of the status.
* The key of the internal services is kept for the life of an instance
  (ssm.go:25); after a rotation its calls fail until it is replaced. Clients keep
  the logger of the request that first needed them (container.go:109), and log
  later requests under its id.
* When its request is cancelled the pool may return a map that misses batches,
  without an error (get_collections.go:166); `Complete` leaves this out, since
  the Lambda does not cancel a request it has not answered.

## 4. The proofs

The theorems hold for any sets of slots, collections and contents, any bound on
the versions and with killed invocations; for any number of workers and
jobs and any capacities of the channels; any number of ids, users and contents and
any sizes of a page; any number of overlapping updates, any DOIs and patches; and
for the functions, any inputs of their types, of any length.

| theorem | module | states |
|---|---|---|
| `TypeCorrect` | `PublishLifecycleProofs` | `Spec => []TypeOK`, whatever fails |
| `LockInvariant` | | the inductive invariant of the lock, below |
| `Exclusion` | | `Spec => []Exclusive` |
| `RunningSaysInProgress` | | `Spec => []RunningMeansInProgress` |
| `LockRefinement` | | `Spec => LockSpec`: the handlers implement `PublishLock` |
| `OnlyPublishableIsSent` | `PublishOutcomeProofs` | `Spec => []PublishedIsPublishable`, whatever fails |
| `CompletedIsTrue` | | `Spec => []CompletedAgreesWithDiscover`, under `LockCallsReliable` and `RepliesFit` |
| `SettledStays` | | `Spec => SettledManifestStays`, whatever fails |
| `PublishedHasManifest` | | `Spec => []CompletedHasManifest`, under the same |
| `InProgressHasAnOwner` | `PublishOwnerProofs` | `Spec => []InProgressIsOwned`, under `StatusIsWritten` |
| `PendingHasAnOwner` | | `Spec => []PendingIsOwned`, under `VersionsAreClosed` |
| `TypeCorrect` | `CollectionsListProofs` | `Spec => []TypeOK` |
| `WalkMissesNothing` | | `Spec => []NothingIsMissed` |
| `WalkRepeatsNothing` | | `Spec => []NothingIsRepeated` |
| `EntriesAreTrue` | | `Spec => []TornOnlyByAChange` |
| `CountFitsPage` | | `Spec => []PageAgreesWithTotal` |
| `TypeCorrect` | `WorkerPoolProofs` | `Spec => []TypeOK`: types and capacities of the channels |
| `PoolInvariant` | | the inductive invariant of the pool, below |
| `MapIsComplete` | | `Spec => []Complete` |
| `NoSendPanics` | | `Spec => []NoSendAfterClose` |
| `TypeCorrect` | `CollectionUpdateProofs` | `Spec => []TypeOK`: types, and what an open transaction may hold |
| `UpdateInvariant` | | the inductive invariant of the updates, below |
| `EditsAreAtomic` | | `Spec => AtomicSpec`: PATCH implements `AtomicEdits` |
| `CategorizesFirstOfEach`, `CollectsFirstBanners` | `AlgorithmsProofs` | `EachDOIOnce`, `BannersOfFirstFound`: the folds return the elements at the positions they should |
| `BatchesCoverAll`, `PagesAreExact` | | `BatchesCoverTheList`, `PageIsExact` |
| `ManifestStatesSize` | | `ManifestStatesItsSize`, up to ten digits |
| `AcceptedFits`, `AcceptedIsReady` | | `AcceptedFitsTheTables`, `AcceptedIsReadyWhenComplete` |
| `ContributorsDifferInId` | | `ContributorsAreToldApart` |
| `OneKeyForAll`, `LookupsAreRetried` | | `ClientsShareTheKey`, `LookupIsRetried`, for any sequence of requests |
| `AnswersBlame` | | `AnswersBlameTheRightSide` |
| `AcceptedShown` | | `AcceptedDOIsAreShown`, after any sequence of creates and patches |
| `ContributorsShown`, `ListBannersBegin` | | `ContributorsAreThoseShown`, `ListBannersArePrefixes` |

Those about the lock, `CompletedIsTrue` and `PublishedHasManifest` assume
`LockCallsReliable`: `StartPublish` is neither refused nor lost and `FinishPublish`
is not lost. The run `start_error` shows what happens without it.
`CompletedIsTrue` and `PublishedHasManifest` assume `RepliesFit` too: Discover does
not say `UNPUBLISHED` to a finalize nor `PUBLISH_SUCCEEDED` to a removal. The code
does not check this; *Excluded failures* says what happens without it. The
other theorems hold for any answers.
`StatusIsWritten` adds that `FinishPublish` is not refused and that no invocation
is killed; `VersionsAreClosed` says that no invocation is killed, that the answer
to a publish request is not lost and that a finalize takes effect. Each names
a failure after which something is left behind for good.

*The lock.* `Exclusive` alone is not inductive: nothing in it keeps a
second process from starting beside the first, or a cleanup from giving back a
lock it does not hold. The invariant adds that the collection of a running
process says `InProgress` or was deleted. Then `StartPublish` cannot let in a
second process (it finds `InProgress`, or no row); the only steps that take
`InProgress` away are the ends and the cleanups of running processes, which stop
being running with that step; and a deletion leaves nothing to start on, since
ids are not reused. For this it needs that a process whose cleanup of the status
is still to be run counts as running, that it holds exactly while the cleanup is
the first on the list, and that the remaining cleanups touch no status. The
proof that a step preserves it has one step per action; those of the calls that
leave the rows and the labels of running processes alone share a lemma.

For the refinement, a process holds the lock of its collection when it is
running; every action maps to acquiring the lock, letting it go, closing it (a
deletion) or a stutter. A killed holder leaves it orphaned.

*What Completed says.* That a completed publication is live must survive three
steps: Discover makes a version live, the process remembers the outcome, the
process writes it; and then it must stay true. The invariant `OutcomesInv` says
of each moment what is true already (`OutcomeInv`, `CompletedInv`), and of the
status that its type is the kind of the process that holds it (`TypeInv`), since
`FinishPublish` keeps the type that it finds. While a collection says
`Completed` nobody holds it, so no finalize and no unpublish is under way; but a
clean-up that has released the status may still tell Discover that its version
failed. It does no harm because no two processes have the same version
(`VersionsInv`), and the one that wrote `Completed` has returned. Each call is
first reduced to its effect on the version it holds, on what is live and on the
status (`VersionEffect`, `LiveEffect`, `StatusEffect`); the invariant is then
preserved by any step with these effects.

*What is sent.* A process between the checks and the request holds a snapshot
that passed them; nobody else writes it.

*The manifests.* A process that has saved its manifest keeps it while it runs
(`SavedInv`): the others delete manifests of other versions only, because no two
processes have the same version, and Discover empties the bucket only for a
process that holds the collection. When the process writes `Completed` its
version is the live one, and from then on nobody has that version to delete.

*What is left behind.* `InProgressIsOwned` needs of the invariant of the lock that
the owner is running, and that a process never writes `InProgress` when it
ends. `PendingIsOwned` needs that the list of cleanups is empty unless cleanups
are run, so that a process takes on its version with the request that opens it
and leaves it only with a finalize.

*A walk.* The place of a collection is the number of the user's visible ones
before it. A deletion before it makes the place smaller, a commit before it larger,
and nothing else moves it. A collection that was there from the beginning is
behind the offset or was shown (`MissInv`), as long as nothing before it was
deleted; a collection that was shown is before the offset (`RepeatInv`), as long
as nothing before it was committed. `CountFitsPage` needs what a page holds: the
rows at places from the offset to the limit, and all of them if it is not full,
which is an induction over places, done with least and greatest elements of
sets of ids instead of an induction over data.

*The pool.* A job that was produced is in the channel of jobs, held by a
worker, in the channel of results, or collected (`NothingLost`), while the
caller collects and nobody has cancelled. The channels are closed only behind their last
sender (`ClosedInv`), so a caller that has seen the results closed and empty
has collected every job.

*What the folds return.* The community modules define a left fold by a function on
sets of positions (`MapThenFoldSet`), chosen to satisfy a recursive equation.
`ListsProofs` shows that such a function exists (`FoldExists`), that the chosen one
takes the values of the loop, step by step (`FoldSteps`), and what each
loop has built after each step. The induction theorems of the library take an
operator as a parameter; each induction here is done with a set of positions
instead, its least counterexample (`Least`). Everything else follows from
two facts: a list is determined by the positions it takes its elements from,
through their ranks (`AtRanks`, `Ranked`), and lists of lists are joined part by
part (`FlattenSteps`), for the batches and for the fields of a contributor.

*The updates.* `UpdateInv` says of each request which of its three parts may be
non-empty at which label (`Consistent`): a patch until it has been read, an
update from then on, something written while the transaction is open, and that the
label is the one of the statement that what is left of the update comes to
next. Without the last part a commit might forget a statement. A deleted
collection has no DOIs, since the rows go with it. Every step of one request is
an assignment of its label, its parts and its answer (`Moves`), and `StepOfOne`
preserves the invariant if what it assigns is consistent.

For the refinement each step is one of `AtomicEdits`: what a read, a removal or an
addition drops from the request was true in the collection at that moment
(`LeavesOutWhatIsTrue`); the other steps move changes from one part to the next
and ask for the same; a commit makes all that is left, and nothing is left but
what the transaction has written, by the invariant; an answer with success comes
from a lookup after which nothing is left (`LookupEnds`). That what a
request adds, in the order of the request and without repetitions, is what it
asked for is the theorem about `CategorizeDOIs` (`CategorizedElements`).

*The functions.* A page is compared with ranks: the k-th row of the table that the
user may see has rank k, whatever lies between (`PartOfAt`). The manifest's size
is the length of the rest and of its own digits, and its builder goes up by one
digit at most (`Digits`). The bytes of a contributor are read back field by field:
a field ends at the first separator after it (`FieldsReadBack`), which the field
itself does not contain. The clients of an instance share a key because the
container never gives up a key it holds (`FirstKeyIsKept`). Texts and answers are
cases.

*The DOIs of a collection.* What create and patch let in is *open*: Pennsieve's,
and not among those that Discover calls unpublished (`GrownAreOpen`, an induction
over the requests). Hence a publish finds no objection, and the view's lookup
knows each DOI or tells nothing of it. Its contributors are a joined list without
repetitions (`FlattenElements`, `DeduplicatedElements`); decoding gives them
addresses and changes nobody's face (`DecodedFaces`), and without an address the
face is all there is (`FaceTells`). For the list, the batches together know of
each DOI what one lookup knows (`FetchFinds`), the DOIs found among the first
ones begin those found among all (`AtOfAt`, `AtOfBeginning`), and so do their
banners.

*Assumptions.* Beyond the types of the constants: that nothing is mistaken for a
missing value (`Nil`, `Failed`, `None`, `TextKey`, an address), that DOIs with Pennsieve's prefix
are DOIs, and that the byte that separates the fields of a contributor occurs in
none of them, since Postgres does not store it in a text. Each is named in the
module that declares the constant, and evaluated by TLC on the instances.

*Only model-checked.* Liveness (`EveryRequestAnswered`, `InProgressIsTemporary`,
`Answered`, `EveryPatchAnswered`, `EveryGoroutineEnds`): ENABLED and fairness are
out of the prover's reach. Every safety property and every action property of a
passing run is stated by a theorem.

## 5. Not modelled

* Roles: their order comes with `pennsieve-go-core`. A request that is turned
  away is `Refuse`, and a user's list holds what the user has created, since
  nothing in the service shares a collection.
* The configuration: values read once, from the environment, at the start.
* Bodies, headers and tokens of the HTTP requests, the hash of a contributor's
  id, dates, wording and logging.
* SSM, S3 and Postgres clients: a call that fails, with or without effect.
* Migrations and Terraform, but for the keys and lengths of the tables and the
  timeout.
* A create whose answer is lost and that is sent again makes a second
  collection: it takes a new node id each time, and promises nothing else.

## 6. Plan

1. *Done:* the lifecycle with its three stores, the lock and its refinement, the
   pool, the update with its abstract specification, the list with its walks, the
   checks and views of the handlers, the container and the answers; theorems for
   every safety property of the lifecycle, the list, the pool, the update and the
   functions.
2. *Next, the model:* the status that the get handlers show, which they read
   from Postgres and from Discover one after the other, while a process runs; a
   Discover that finalizes a failed version in each of the ways it might.
3. *Next, the proofs:* the invariants of what item 2 adds; bounds on a lookup
   under which the view cannot fail (`LookupFitsTheURL` with a limit on the size
   of a collection, which the code does not have).
