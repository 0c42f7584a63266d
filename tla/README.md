# oci-cache in TLA+

TLA+ models of the parts of oci-cache where concurrency, cancellation, crashes
and time make the code hard to test, the TLC runs that check them and proofs of
what they rest on. Sources are cited as `file:line` below `src/src/`.

## The system

oci-cache is a pull-through cache for OCI registries. A request handler
(`server/mod.rs`) resolves the upstream of a repository (`routing/`), answers a
manifest from the manifest cache (`cache/manifest.rs`) or a blob from the blob
cache (`cache/blob.rs`), and records resolved tags in the storage layout
(`storage/`). All of this runs as async tasks of one tokio runtime. Three facts
about that runtime shape every model here:

- tasks interleave at every `await` (and the runtime has several threads, so
  also between critical sections);
- a task may be *dropped* at an `await`: the HTTP server drops the handler of a
  client that disconnects, destructors run, the rest of the function does not;
- a `tokio::fs` operation runs on a blocking thread *to its end*, also after
  the task that awaited it was dropped.

| Component | State | Operations | Hard because of |
|---|---|---|---|
| Blob cache (`cache/blob.rs`) | blob files and temporary files; in-flight map with counters and a lock per digest | `get`, `store`, drop of a reservation | concurrent calls for one digest, leaders that fail or are dropped, late renames, power loss, three instances over one directory |
| Manifest cache (`cache/manifest.rs`) | tag states (digest, time of fetch); manifests as blobs | `get_filtered`, `force_refresh` | uncoalesced revalidations, time, Accept, stale answers |
| Routing (`routing/router.rs`, `memo.rs`) | memo: records, negative entries, order, generation | `Router::new`, `resolve` | routers of several configurations over one memo, time limits, silent upstreams |
| Tag index (`storage/tag_index.rs`) | `index.json` and `index.json.tmp` per upstream, the directory they are in | `put`, `remove` under `tag_write_lock`, `ensure_upstream_layout` | dropped handlers, crashes between the steps of a write, a directory completed by two at a time |
| Garbage collection (`storage/mod.rs`) | tag indexes, blob directory | `put_tag`, `remove_tag`, `collect_garbage` | handlers that store meanwhile, temporary files, dropped collections |
| Eviction (`storage/mod.rs`, `access_index.rs`) | sizes and order of use in redb, `next_seq` | `get_blob`, `store_blob`, `evict_if_needed`, `remove_blob` | concurrent evictions, restart, handlers that bypass it |
| Handlers (`server/mod.rs`) | none of their own | `handle_v2_request`, `serve_file` | they compose the others without a common lock; files go between look-up, fetch and open |
| Authentication (`registry_auth.rs`, `blob.rs:148-275`) | shape of authentication per upstream, tokens in the oci-client | `resolve_auth`, `client.auth` | shared between repositories, errors of different kinds, repositories withdrawn, outages |
| Probe (`routing/probe.rs`) | none | `probe` | token exchange, statuses that prove nothing |
| Web UI API (`ui/mod.rs`) | `CacheStats`, `RefreshGate` | catalog, stats, refresh | cooldown under concurrent refreshes, counts that follow the look-up |

Interactions: handlers call `resolve`, then one of the caches, then `put_tag`
(whose result they ignore, `server/mod.rs:218`). `ManifestCache` stores through
a `BlobCache` of its own, `Layout` has a third one; they share the directory
`blobs/sha256`, not their in-flight maps. `Layout` removes files there that the
caches put there. `post_refresh` enters the manifest cache by `force_refresh`.

What makes each component correct, in short: the blob cache fetches once and
shows whole blobs only; the memo holds what was established under its current
order, and an absence only if everybody confirmed it; no tag update is lost and
the index is always readable; a collection removes what is unreachable and
nothing else; recorded data fit the capacity in order of use; a fresh hit was
vouched for recently, suits the client, and a forced refresh sticks; what is
stored was public, and what is withdrawn is not served once the upstream has
said so; a request that found its blob gets the bytes it asked for.

## The modules

Constants are model values or small sets, one action per step between two
points at which another task can run. `\* history` variables are read by
properties only.

**BlobStore** — the promise of a blob cache, without locks, files and crashes
in between: blobs are there whole or not at all, and "ok" is answered only if
the blob was there between the question and the answer.

**BlobCache** — one call is `check` (first `exists`) -> `reserve`
(`acquire_in_flight`) -> `lock` -> `recheck` -> `create` -> `fetch` -> `sync` ->
`rename` -> `dirsync` -> `unlock` -> `release`, with `cleanup` after a failed
fetch. `get` and `store` differ only in where the bytes come from, so one
life cycle stands for both. `in_flight` maps keys to allocations (`Entries`,
reused addresses included, which is what `Arc::ptr_eq` at `blob.rs:476` is
about), `queue` is tokio's fair mutex. `Cancel` drops the call at any await;
the rename of a dropped call lands later (`LandOrphan`). `file` is what readers
see, `durable` what a power loss would leave; `Crash` keeps either per
directory entry. `Remove` is an eviction or a collection.

**Router** — one call of `resolve`, each memo operation (one critical section of
its mutex) a step. A probe is a first request, then perhaps a token and a
second request (`ans` says how far it is): `Answer` is an answer of the
upstream, of any status, `Token` what the token server does, `OutcomeFrom` what
`probe.rs:98` makes of a status. Either may never come; `Timeout` ends the
probe, `Tick` is time. `entries`, `negative`, `order`, `generation` are the
fields of `Inner` (`memo.rs:47`); `negative` counts the ticks an entry has left.
`denied` and `denial` are who has itself said "not found" in a walk. A
configuration may have no upstreams at all (`tests/ui.rs:223`): a walk is over
at once then, and absence is all there is to record.

**TagIndex** — the steps of `put` and `remove` under `tag_write_lock`. A write
is `Truncate` (open with `O_TRUNC`) and `Write`, then `Rename`. `detached`
tasks are those dropped in the middle of a file operation; `opened` follows the
inode a task has open through the renames of others, so an abandoned write may
land in `index.json` itself. `MakeDir` to `MakeLink` are the pieces of
`ensure_upstream_layout` (`mod.rs:157`), which a task goes through under the
lock and `Catalog` without it, so that the two may find each other's pieces
half-made; the collection, which completes the layouts of all upstreams, does
so under the lock.

**GarbageCollection** — handlers pull manifests and blobs (`Pull`, `Fetched`,
with temporary files in the same directory). `Lock` and `Rename` change the tags
under `tag_write_lock`, `Begin` starts the marking, `Trace` is one turn of the
work loop of `compute_live_set`, `Keep`/`Discard`/`RefuseEntry` one turn of the
loop over the directory (`mod.rs:249`), `Unlink` the `remove_file` of
`remove_blob`. A handler dropped in its rename or its unlink gives up the lock,
and `LateRename` or `LateUnlink` comes later, beside the collections of others.
Entries that appear while the directory is read may or may not
be returned. `Reachable` is the reference definition of what tags reach (a
least fixed point), independent of how the code computes it. Writing the
changed index to its temporary file, and the life of a blob, are single steps
here; TagIndex and BlobCache have them.

**Eviction** — `touch_and_evict` and `remove_blob` step by step: only single
redb transactions are atomic, and `Draw` (`fetch_add`) precedes the transaction
`Touch`. `Serve` is a request handler that stores through `BlobCache` only.
`Restart` is `AccessIndex::open` after the process ended anywhere.

**ManifestCache** — `get_by_tag` by requests and forced refreshes; `started[t]`
is how long ago the request fixed its `now` (`manifest.rs:352`), `age` how long
ago `fetched_at` is, so instants need no absolute clock. The upstream names one
manifest per media type (`offers`) and moves tags at any time. A forced refresh
comes through `RefreshGate` (`ui/mod.rs:93`): `Refresh` reads the clock,
`try_acquire` takes the lock later, so that requests may pass each other
between the two; `Sweep` is the `retain` of a request for some other image.
`last_refresh` is the map of the gate, `forced` the age of the upstream's
answer to the last remembered refresh.

**UpstreamAuth** — one request from `fetch_by_tag` to the decision between a
denial and a stale answer: `shape` (`auth_shapes`) -> `probe` (`GET /v2/`) ->
`token` (anonymous, always) -> `credentials` (if there are any) -> `register`
(`client.auth`) -> `pull` -> `store`, or `failed` with `err`, which
`is_authorization_denial` sorts. `registered` are the repositories that the
token the oci-client keeps for them opens (`manifest.rs:123-131`). A refused
pull is "pull denied" (401, or UNAUTHORIZED or DENIED in the answer, which
`is_unauthorized_or_denied` recognises) or "pull refused" (any other 403 or
404, which it does not). `public`, `Publish` and `Withdraw` are the world, and
any question to the upstream may fail for no reason (`Trouble`). `setup` ranges
over configurations of an upstream with the authentication it really asks for
and whether its issuer is *lenient*, that is, answers a request without
credentials for what is not public with a token that opens nothing; the code
only sees that a token came (`blob.rs:241`). Assumed of the world: content that
is not public is given for no token that was issued without credentials while
it was not; an upstream keeps its shape and realm. The operator's credentials
may open anything.

**DigestRequests** — `handle_v2_request` for blobs, and for manifests by digest:
`look` (is it a hit) -> `get` -> `lock` -> `fetch` -> `open` -> `serve`, or `read`
for a manifest. `BlobCache::get` is reduced to what its callers can tell apart,
the look at the file, the lock per `BlobCache` (blobs and manifests have one
each over one directory), the second look and the fetch. `serve_file` and
`resolve` compute the answer to a `ByteRange`; `Wanted`, the reference
definition, says position by position what a range asks for. `hits`, `misses`
are `CacheStats`. `Store` and `Remove` are what others do to the file.

**BlobCacheProofs**, **TagIndexProofs**, **RouterProofs**,
**GarbageCollectionProofs**, **EvictionProofs**, **ManifestCacheProofs**,
**UpstreamAuthProofs**, **DigestRequestsProofs** — theorems about the module
each is named for. **MC...** — the instances.

In the modules an operator right before an action, with the same parameters and
a name like `RemoveAlways` or `LockDropped`, is a faulty variant of that action
that no specification uses: each property of a passing run is violated when
such a variant takes the place of the action, which shows that the property
depends on that line of the code.

## The runs

| Run | Shows | Bounds |
|---|---|---|
| `blob_cache_safety` | `EntriesMatchReservations`, `OneFetchPerKey`, `FilesComplete`, `StoredOnce`, and `KeepsPromise` (BlobCache implements BlobStore) | 3 calls, 2 instances, 1 digest, 3 entries; 81k states |
| `blob_cache_live` | `CallsEnd` | 3 calls, 1 instance; 104k states |
| `router` | `MemoOfCurrentOrder` (REQ-0058), `NegativeConfirmed`, `MissingConfirmed` (REQ-0004), `ResolvesEnd` (REQ-0057) | 2 calls, 1 repository, 2 upstreams in three configurations, time limit 1 tick, validity 2 ticks, 2 generations; 270k states |
| `tag_index` | `IndexReadable`, `NoLostUpdateWhileAwaited`, `LayoutComplete` (REQ-0020) | 2 tasks, 1 listing, 2 references, 1 digest or none for each; 835k states |
| `tag_index_cancel` | violated: `NoLostUpdate` | 2 tasks, one of which is dropped |
| `garbage_collection` | `KeepsReached`, `ReplacedCollected` (REQ-0025) | 2 tasks, 1 tag, list -> manifest -> layer and a second version; 762k states |
| `garbage_collection_temporaries` | violated: `UnreferencedDeleted` (REQ-0025) | the same |
| `eviction` | `RecordedFits` (REQ-0023 for what is recorded), `OrderOfUse` | 2 tasks, blobs of 1, 2, 2 in a capacity of 3, 4 touches between restarts; 861k states |
| `manifest_cache` | `HitsAreRecent` (REQ-0011), `AnswersAcceptable` (REQ-0033), `RefreshSticks` (REQ-0017), `RefreshesApart` (REQ-0045) | 2 requests, 1 tag, one manifest of a type and one without, validity 1 tick, cooldown 2, requests of up to 1 tick; 1.3M states |
| `upstream_auth` | `StoredUnlessMisled` (REQ-0013, REQ-0019), `WithdrawnNotServed`, `RefusedForReason` (REQ-0014), `OutageLeavesNoTrace` | 2 requests, 2 repositories, 5 configurations; 694k states |
| `upstream_auth_tokens` | violated: `StoredWasPublic` (REQ-0019) | the same |
| `digest_requests` | `RangesServed` (REQ-0035), `BrokenOnlyIfRemoved`, `CountedAsLooked` (REQ-0042) | 2 requests, files of 0 and 2 bytes, range bounds 0 to 3 or absent, 3 requests counted; 3.0M states |

Why the bounds are enough to meet the interesting cases: three calls for one
blob give a leader, a waiter behind it and a newcomer that arrives while they
leave, and a third allocation address lets an entry be replaced while an old
one is still held. Two digests of one instance never share a key, so a second
digest would add products of states only. Two upstreams give a walk with a
failure before a success or an absence; the three configurations over one memo
(both upstreams, one, none) give a late call of an older generation and a walk
that is over before it begins. In TagIndex two tasks make every overlap of
an abandoned write with one that holds the lock; a third would wait. The
contents of GarbageCollection are the smallest with two levels below a tag, and
an update that shares nothing with what it replaces. In Eviction two of three
blobs never fit together. In ManifestCache a validity of one tick is shorter
than two requests that follow each other, and a cooldown of two longer than one
request, so that two requests for a refresh can pass each other inside it. Two
repositories let one request leave a token that the other must not use; the
five configurations of UpstreamAuth are no tokens, lenient tokens of the registry
itself, a realm on another port of it (not trusted), a separate lenient issuer
with credentials, and credentials over plain HTTP (not sent) with a strict
issuer. A lenient issuer may refuse a request as well. Two
tasks in GarbageCollection let the unlink or the rename that a dropped handler
has left behind land anywhere in the collection of another. In DigestRequests a
bound of 3 lies beyond the end of the file by more than one and a bound equals
its size, its last position, and 0. `MaxGeneration`, `MaxSeq`, `MaxRequests` and
`MaxDelay` are the bounds on counters; each is declared as one. Symmetry is
used where tasks, allocations or blobs of equal size are interchangeable, never
in a run with a liveness property. Deadlock is checked in all runs.

Fairness is assumed in three runs. `blob_cache_live`: the runtime polls woken
tasks and completes file operations (weak fairness of each call's next step),
tokio's mutex is first come first served (so weak fairness is enough), and the
upstream ends each transfer. The last is an assumption: `fetch_into` has no
time limit. `router`: weak fairness of each call's next step and strong
fairness of `Tick`, since a tick is disabled while a call has something to
compute; nothing is assumed of upstreams, the code's own `timeout` ends probes.
`upstream_auth`: weak fairness of each request's next step, where an unanswered
question to an upstream ends as an error (the clients' and the system's limits
on connections); nothing is assumed of when an outage comes and how long it lasts, of `Publish`
or `Withdraw`.

## What the violated runs show

1. `tag_index_cancel`: dropping a handler releases `tag_write_lock` while its
   `write` or `rename` still runs, on the one temporary name
   (`tag_index.rs:184`). The next update may be lost or `index.json` torn.
2. `garbage_collection_temporaries`: a temporary file in `blobs/sha256` is not a
   digest, `remove_blob` refuses it and the collection ends (`mod.rs:253`);
   one that is left over (a failed `finalize_tmp_file`, a dropped call) ends
   every later collection as well.
3. `upstream_auth_tokens`: that a token comes without credentials is taken for
   proof that a repository is public (`blob.rs:241`). Where an issuer gives one
   that opens nothing, the token for the operator's credentials opens the
   repository, and its content is stored although nobody else may pull it.

The statements of the passing runs are as strong as the code allows. Where it
falls short of a requirement, they except exactly the case:

- `MissingConfirmed` lets a call answer from the negative cache after it has
  discarded a record: a negative entry may be in force beside a record, since
  `put` does not clear it, and then there is no new walk, which REQ-0056 asks
  for (`router.rs:99`). It also is about routers of the memo's own order: one
  left over from the previous configuration reads the new one's entries
  (`memo.rs:108` does not look at the generation).
- `RefreshSticks` lets a revalidation that the upstream answered before a forced
  refresh, and that is remembered after it, put its older answer back:
  requests for one tag are not coalesced (`manifest.rs:400`, REQ-0017).
- `RefusedForReason` lets a token server that fails count as a denial, so the
  stored content is not served then, although REQ-0014 asks for it: both give
  `AuthenticationRequired` (`blob.rs:248`), or `UntrustedRealm` when it is the
  token for the credentials (`blob.rs:266`).
- `LayoutComplete` lets an `oci-layout` stay empty whose write failed or was cut
  short by a crash: later calls only test that the file is there
  (`mod.rs:162`, REQ-0020).
- `KeepsReached` lets the unlink of a dropped collection take a file that has
  been tagged again and marked by the next one (`mod.rs:147`: `remove_file` runs
  to its end without the lock), and then what was reached by that file alone.
  `ReplacedCollected` is stated for collections since whose beginning no such
  unlink has taken a reached file and no rename of a dropped handler has changed
  the tags (`disturbed`).
- `StoredUnlessMisled` and `WithdrawnNotServed` let content be stored and
  answered for a token that was given without credentials to no purpose
  (`misled`); REQ-0019 excludes it, and run `upstream_auth_tokens` shows it.
- `WithdrawnNotServed` lets stored content be served after a refusal that is
  neither 401 nor names one of the two codes: `is_unauthorized_or_denied` takes
  it for a failure like any other (`manifest.rs:496`), against what
  `manifest.rs:421` and `manifest.rs:471` say of 403.
- `CountedAsLooked` says that the counters follow the look-up. It is less than
  `ui/mod.rs:58` and `manifest.rs:61` say, where a hit was answered without
  asking the upstream and a miss had to ask: a request that finds the file only
  after it has waited for another's fetch, or that a pull by tag has overtaken,
  is a miss and never asked, and a hit whose file is removed between the look-up
  and `get` asks.
- `RecordedFits` is about what is recorded. The handlers store through
  `BlobCache`, which records and evicts nothing (`Serve`), so the capacity does
  not yet bound what the server stores (REQ-0023); `server/mod.rs:54-58` leaves
  that wiring to later work.

## What is proved

`BlobCacheProofs` proves, for all finite sets of callers and any instances,
digests and allocation addresses: `TypeCorrect`, `ReservationsCorrect`,
`MutualExclusion`, `Completeness`, `StoresOnce` and `Refinement`
(`Spec => Promise!Spec`). Assumptions: callers are finite (the counters are
cardinalities) and `NoEntry` is no allocation.

No property of a run is inductive by itself, so the invariant is built in
layers, each proved from those before:

- `Domains` types the variables, `waiters` only as integers;
- `Reservations` ties map, counters and holders together: a holder's entry is
  what the map has for its key, no entry serves two keys, no entry is without a
  holder, and `waiters` is the number of holders. Hence `waiters >= 0`
  (`TypeOK`), and the last holder is the one that sees 1;
- `LockOrder`: the calls between `recheck` and `unlock` are in the queue of
  their entry, and a call in the section is at its head. Two calls in the
  section with one key hold one entry, whose queue has one head:
  `OneFetchPerKey`;
- `Disk`: what waits for its rename has been synced, also when its call was
  dropped: `FilesComplete`;
- `NotStoredYet`: between the second existence check and the rename the
  instance has not stored what is there, since nobody else of it is in the
  section: `StoredOnce`;
- `Settled`: a call has a result exactly once it has left the section. With
  that each step maps to one of BlobStore or to a stutter: `KeepsPromise`.

`TagIndexProofs` proves, for all sets of tasks, references and digests:
`TypeCorrect`, `AlwaysReadable`, `NoUpdateLost` and `LayoutAlwaysComplete`.
Assumptions: the markers of unreadable files are no index, `Nobody` is no task,
and a listing is none. `TypeOK` says too that `tag_write_lock` is held by exactly
the task between `Lock` and `Unlock`, dropped ones excepted (`Owner`). The invariant `IInv` is
`TypeOK` and, while `~interrupted`, `Orderly`: nobody is detached; the lock is
held by exactly the task between `Lock` and `Unlock`; what that task has read
is what `index.json` still holds; a task in `write` has opened the temporary
file, which is empty; and before the rename that file is the index with the
task's own change. `Cancel` and `Crash` are steps of it: a task dropped between
file operations, and a crash anywhere, leave `Orderly` in place. A task dropped
inside one sets `interrupted`, and the run `tag_index_cancel` shows that
`NoLostUpdate` then fails. `LayoutAlwaysComplete` rests on `LInv`: nobody is
past a piece that is not there (`Passed`), what is there stays (`PiecesStay`),
`index.json` is empty until a task that has been through all pieces writes it
(`UseComplete`), and an empty `oci-layout` has a writer or is left for good
(`EmptyExplained`); `StagedInside` says that a writer does nothing else.

`RouterProofs` proves, for all sets of calls, repositories and upstreams, all
orders, durations and numbers of reconfigurations: `TypeCorrect`, `MemoCurrent`,
`NegativesConfirmed` and `MissingHasWalk`. Assumptions: orders are lists of
upstreams, empty or not, and there is a repository. The invariant adds to
the properties `RoutersCurrent` (a router of the memo's generation has the
memo's order, which is what makes comparing generations enough) and
`CallsProgress`: on a walk every upstream before the call's position has denied
the repository, or `unreachable` says that one has not; and a call about to
record a denial has all of them behind it. An action property needs the state
before the step: `MissingConfirmed` follows from the invariant at `CheckNegative`
and `Negate`, the two steps that answer "not found".

`GarbageCollectionProofs` proves, for all tasks, tags and digests, and manifests
nested to any depth: `TypeCorrect`, `NothingReachedRemoved` and
`ReplacedAreCollected`. Assumptions: the contents of digests are digests, a leaf
names nothing, markers are fresh. The work loop of `compute_live_set` is held
against the least fixed point from both sides. `Covers`: among the files that
were reached when the collection began and are still there, what is marked and
not queued names only what is marked, so with an empty queue the marked set is
closed and contains all that was reached: `KeepsReached`. A late unlink takes
its file out of that set, and out of what it can reach (`LateUnlinkKeeps`).
`Justified`: unless something late has changed the tags or taken a file they
reach (`disturbed`), what is marked is reached by way of marked files, so nothing
unreachable is spared: `ReplacedCollected`. A late unlink of an unreachable file
does no harm to that, since what is reached does not need it (`ReachedWithout`). `SweepPending` says that what is unreachable is still in
the list that the second loop goes through, and `OneCollection` that there is one
loop at a time.

`EvictionProofs` proves, for all tasks and blobs, all sizes, every capacity and
any number of touches: `TypeCorrect`, `OrderIsKept` and `RecordedTotalFits`.
Assumptions: there is a blob, and sizes are positive. `Drawn`: a number that has
been drawn and is not committed is with one call only and in no record. For the
capacity: `Attended`. While the total is too large and touches were committed in
the order of their numbers, the call that touched last (`Last`) is still
evicting. Other calls may give up before, at their own blob; the last one gives
up only if its own blob, which has the greatest number, also has the least, and
then it is the only one. The proof needs that the fold over the recorded blobs
is a sum, whatever order it takes them in: `SumCounts` shows that it is the
number of their bytes (`Bytes`), by a minimal counterexample among the subsets
(`MinimalSubset`, from the library's well-founded order of finite subsets), so
`TotalShrinks` is a matter of cardinalities.

`ManifestCacheProofs` proves, for all requests, tags and digests, all validity
periods, cooldowns and lengths of requests: `TypeCorrect`, `HitsAreFresh`,
`AnswersSuit`, `RefreshesStick` and `RefreshesKeptApart`. Assumptions: there is
a tag, durations are as their types say. Ages are compared, never known:
`AgeHonest` (what is kept was named upstream as recently as its age says),
`Fetched` (what a request brings was named when the upstream answered it, and
that was after its start), `GateRemembers` (the gate forgets a refresh only when
it has cooled down).

`UpstreamAuthProofs` proves, for all requests, repositories, realms and setups:
`TypeCorrect`, `StoresPublicUnlessMisled`, `WithdrawnIsNotServed` and
`RefusalsHaveReasons`. Assumptions: setups and realms are records of the fields
used, markers are fresh; the assumptions about the world named above are the
model's. `ShapeLearnt`: a known shape is the upstream's own. `Vouched`: behind
the anonymous token, which is always asked for first, the repository has been
public or the request is `misled`, so neither credentials nor a token that another
request left in the client opens anything else. `Blamed`: each error has one kind of cause, and each end
follows from its error; `Excused` is what a stale answer may follow from.

`DigestRequestsProofs` proves, for all requests, sizes of blobs and bounds of
ranges: `TypeCorrect`, `RangesAreServed`, `BrokenByRemoval` and
`CountersFollowLooks`. Assumptions: sizes and bounds are naturals, markers are
fresh. `Resolves` is the arithmetic of `ByteRange::resolve`: the interval it
gives is what the reference definition `Wanted` asks for, or both are empty;
`ServeFile` carries that to the whole answer. `Traced` is about the file: what a
request has seen of it is still so, or `landed`, `removed`, `lost` say what has
changed it. With it each step that counts does so once and for a reason, and a
step that finds no file has been preceded by its removal.

Every invariant named here was checked by TLC on the instance of its run before
it was proved. Every safety property of a passing run is now a theorem.

Only model-checked: the liveness properties `CallsEnd`, `ResolvesEnd` and
`OutageLeavesNoTrace`, since TLAPS does not prove liveness under fairness; and
the violated properties, which are refuted by TLC's counterexamples.

## Not modelled, and why

- Digest verification and the registry protocol are in the `oci-client` crate;
  a transfer succeeds or fails here.
- What `Layout::catalog` answers, `blobs_disk_usage`, the metrics, TLS, the browser
  page and the requirement tools have no state that the models' properties
  depend on.
- `main.rs` does not start the server yet (`main.rs:3`, `main.rs:27`): the models
  are of the server that `AppState` and its router make up, as the tests run it.
- Parsing without state (`split_v2_path`, `is_digest`, Accept, challenges):
  choices of the models' actions stand for what may come of it. The `stale` flag of a
  manifest has no counterpart in the HTTP answer, so no client sees it.
- The rounding of remaining cooldowns to seconds (`ui/mod.rs:216`, and
  `Retry-After`) only changes what is displayed.
- I/O errors of files that are there, except where a module has them as a
  failing step.
- Power loss for `index.json`: without a sync in `TagIndex::write` nothing
  holds; TagIndex models the death of the process.
- Upstreams that ignore Accept or change their authentication while the process
  runs, and content in which a layer is also a manifest: excluded by
  assumptions named in ManifestCache, UpstreamAuth and GarbageCollection.

## Plan

1. A composition of a pull: resolution, manifest, tag, layers, with the
   collector and a client that follows the manifest (REQ-0025 with REQ-0028):
   what a tag names can always be fetched again.
2. Abstract specifications: a map of tags for TagIndex (each call one atomic
   update or none), a memo per order for Router; refinement checked, then
   proved on the invariants above.
3. `ResolvesEnd` and `CallsEnd` rest on steps that are ordered (a walk never goes
   back, a call never returns to an earlier phase): prove that order as an
   action property, and leave to TLC only that fairness drives it on.
