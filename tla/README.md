# Scalpel in TLA+

Scalpel is a MangaDex@Home client: an HTTPS server that answers requests for
images out of a local cache, proxies and stores what it does not have, and tells
an API every minute that it is alive. This directory holds TLA+ modules of its
core, the configurations TLC checks them with, and theorems TLAPS checks. Paths
are relative to the root of the repository (`src/main.rs`, ...).

## The system

| Part | State | Operations | Talks to |
|---|---|---|---|
| Main thread, `src/main.rs` | certificate in use, `KILL_FLAG`, times of the last ping and shrink | `run`, `ping_backend`, `try_shrink_db`, `shutdown` | backend, server, cache, verifier |
| Backend client, `src/backend.rs` | `ping_info`: TLS payload, token key, two URLs | `ping`, `update_from_response`, `stop` | the API over HTTPS |
| HTTP server lifecycle, `src/http/mod.rs` | the running actix server | `new`, `respawn_with_new_cert`, `shutdown` | actix, OpenSSL |
| Request path, `src/http/mod.rs`, `src/http/handler.rs` | request counter, metrics | `md_service`, `response_from_cache`, hit and miss handlers, retry of upstream polls | verifier, cache, upstream |
| Stream of a MISS, `src/http/chunked.rs` | `BytesAgg`: stable, taken or poisoned | `poll_next`, `Drop` and the save task it spawns | upstream, client, cache |
| RocksDB engine, `src/cache/rocks.rs` | two column families, `db_size`, `last_fetch` | `save`, `load`, `report`, `shrink`, the scan on opening | RocksDB, tokio's blocking pool |
| Filesystem engine, `src/cache/fs.rs` | `total`, `last_fetch` | the same four | forceps |
| Token verifier, `src/tokens.rs` | one precomputed key | `push_key_b64`, `verify_url_token` | libsodium |
| SNI check and TLS setup, `src/http/mod.rs` | none of its own | `check_sni`, `create_openssl_acceptor` | OpenSSL, `ping_info` |
| Configuration, metrics registry, utilities | constants, counters | parsing, encoding, timing | |

Interaction. The workers of the server share `GlobalState`: the cache, the
verifier (an `ArcSwap` the main thread replaces), `ping_info` (another), the
request counter and the metrics. Handlers and streams are futures: actix may drop
them at every await, because the client leaves or because the server is stopped.
A finished or dropped stream spawns a task that saves what was streamed. The
cache engine runs puts and gets on blocking threads, while the main thread scans
and evicts in the same database. The main thread stops and spawns the server to
change its certificate.

What is hard: interleavings of saves, loads, scans and evictions on two column
families without a transaction; a size counter that is both added to and
overwritten; streams dropped at any moment; lost pings and answers; state stored
before the step that may fail; a shutdown that watches arrivals only. The list
with lines is `hazards` in `PROJECT.json`.

What makes each part correct:

- RocksDB engine: a hit is one image with its own checksum; the counter never
  says less than is stored; evictions take the oldest first and end.
- Request path and streams: only whole images are cached; each request is counted
  once; each ends.
- Main thread and backend: verifier, certificate and last ping stay in step; the
  client announces itself only while it serves; it ends when told to, and says so.

## Modules

| Module | Models |
|---|---|
| `ImageCache` | the `ImageCache` trait: what an engine promises its callers |
| `RocksCache` | `src/cache/rocks.rs` and `try_shrink_db` |
| `RocksRefinement` | `RocksCache` as an implementation of `ImageCache` |
| `FsCache` | `src/cache/fs.rs` and `try_shrink_db`, as an implementation of `ImageCache` |
| `ImageKeys` | `ImageKey::as_bkey` |
| `ImageRequests` | `md_service`, `src/http/handler.rs`, `src/http/chunked.rs`, over `ImageCache` |
| `Admission` | `check_sni`, `src/tokens.rs`, `md_service`, the choice of upstream |
| `Lifecycle` | `run`, `ping_backend`, `shutdown`, `src/backend.rs`, `HttpServerLifecycle` |
| `MC...` | small instances for TLC |
| `...Proofs` | theorems and proofs, those of `ImageKeys` in `ImageCacheProofs` |
| `SumTheorems` | lemmas about `SumFunction`, with which both engines weigh what they store |

How they compose. `ImageCache` stands between the engines and the requests:
`RocksCache` and `FsCache` implement it (property `ImplementsImageCache`, checked
and proved), and each step of `ImageRequests` that touches the cache is a step of
an instance of it (theorem `CallsCorrect`). So what holds of the requests holds
over either engine. `Lifecycle` and `Admission` meet the requests in the verdict on
a token, the address of upstream and the forced stop, which `ImageRequests` leaves
open: any verdict, any upstream, a disconnect at any moment.

Definitions that begin with `\* Mutant:` are plausible bugs. They take part in
nothing; each, put in the place of the definition it varies, makes a property fail
(`mutants` in `PROJECT.json`).

### ImageCache

`held[k]` is the set of images a load of `k` may find, the parts of one included.
`Save` adds its image when it begins; `Saved` returns true, and if no other save of
the key met it (`lone`), only its image is left to be found. `Fail` is a save that
met an error and may have effects as long as its call is under way. A load finds
bytes and checksum one by one (`Find`) and answers. `Forget` is `shrink` and
whatever else an engine loses, `Crash` the end of the process. `errors` counts
failures: a step that lets a save off its promise raises it, as an engine raises
its own count of failures; without it every save could claim to have failed, and
the promise of `Saved` would be empty.

### RocksCache

`images` and `meta` are the column families; a metadata record is represented by
the content its checksum and length were computed from and its save time, or
`Garbled` if bincode rejects it. `saves[s]` is a task inside `save_entry`:
`SaveBegin` raises `dbSize`, then two `Put`s (or `PutFails`) run in any order on
blocking threads. `loads[l]` is a handler inside `load_entry` with two `Get`s in
any order. The main thread is a program counter `mpc` with the locals of the
functions it is in: `fetch_real_size` is `OpenFetch`, `ScanEntry`, `StoreSize`;
`find_top_entries` is `OpenGather`, `GatherEntry`, `SortQueue`;
`evict_entries_fifo` is `ShrinkLoad`, `EvictNext`, `CountDown`, `FinishShrink`;
`drop_entry` is `DropImages`, `DropMeta`, each able to fail (`DropFails`); an
iterator that meets an error ends the scan as if it were over (`IteratorFails`).
None of these await, but each interleaves with the blocking threads. The clock is
read by `get_db_size`, in `report` and in `evict_entries_fifo`; either read may
find the hour over (`HourPasses`, `StoreSize`). `Crash` ends
the process anywhere and keeps the column families; `Reopen` is `RocksCache::new`.
Counters are modulo `U64`, as in a release build.

Assumed of RocksDB: a put, a delete and a read of one column family are atomic, an
iterator sees the snapshot of its opening and yields keys in order. Not modelled:
torn writes, which are RocksDB's concern, and the metrics. History variables say
which keys were disturbed by an overlap, a failure or a kill (`disturbed`), whether
a save overlapped the computation of a size (`raced`, `racing`), which keys a
failed iterator did not reach (`skipped`) and which saves have met no other of
their key (`lone`); no action's guard reads them. The fields `alone` of a save and
`clean` of a load are history of the same kind: whether anything overlapped that
save, and whether that load began, and stayed, free of overlap.

`RocksRefinement` maps it to `ImageCache`: a load may find what either family has,
and what a save under way is about to put there; `faults` are the `errors`.

### FsCache

`files` is what forceps has stored, one file per image, which holds bytes and
checksum together. A save writes (`Write`), then adds to `total` (`Count`); a task
that is dropped between the two loses its count (`Lose`). `Report` and the hourly
`update_real_size` are `BeginScan`, `ScanEntry`, `StoreSize`; `shrink` is
`EvictNext`, `EvictDone`, `EvictFails`.

forceps is external. Assumed: a file is read and written atomically, its memory
LRU, which may answer a read, is in step with the files, its metadata say its
length, an iterator walks the live metadata and sees a key at most once,
and the evictor removes files it listed at its start until what it listed is down
to its target. Its order of removal, which needs access times, is left open.

### ImageKeys

The text `as_bkey` hashes; SHA-256 is taken to be injective.

### ImageRequests

Each request has a `stage`; the verdict on its token is a choice between `Reject`
and `Accept`. The cache is an instance of `ImageCache` in which every request is
its own loader and its own saver: `Accept` calls load, `Find` is the engine,
`LoadHit` and `LoadMiss` take what was found; `SaveBegins`, `SaveEnds` and
`SaveFails` are the task that `Drop` spawns, `SaveLost` a task that never ran, and
`Shrink` whatever removes images. An image is `Chunks` chunks long and what is
stored of it is a length, so that two streams of one image that were cut at
different places are two images to the cache. Upstream may end a body at any length
(`StreamEnd`): `poll_next` compares none. HTTP makes a body shorter than its
announced length an error (`StreamError`), but nothing in the code asks for one to
be announced. `agg` is `BytesAgg`, `body` what
`poll_next` said last. `Disconnect` drops the handler's future or the stream at any
moment; `DropStream` is `Drop`. `served` is the answer to a HIT: its body, if it
has one, and the checksum in its ETag, which the engine may have read at another
time. Histories: `pulled`, `answer`, `served`. A kill of the process is not an
action here: nothing of the requests survives it, and of the cache some of it
does, as after `Shrink`.

### Admission

Two cells, `info` and `verifier`, which the main thread stores one after the other,
and connections that read them: at the handshake (`Connect`), when a request comes
(`Asks` loads the verifier, `Verify` uses what was loaded and reads the clock),
and at every poll of upstream (`Poll`). A token is what became of it: not base64,
too short, or sealed with a key around a payload that may not parse. The clock is
any of `Times` at any moment. `checks_sni` is `reject_invalid_sni` where TLS is on.
The numbers of pings in the cells and in `seen` and `polled` are histories. A
connection may be kept alive or left at any moment.

### Lifecycle

`pc` is where the main thread is; a ping is `Tick` (the request is sent, with the
`created_at` of the last ping), `ApiAnswers` and `PingOk`, or `PingFails` whatever
was answered, or `PingPanics` on a malformed URL; `NewKey` and `TakeCert` follow.
`Spawn`, `ForceStop`, `Respawn` and their failures are `HttpServerLifecycle`;
`TellApi`, `Look`, `Halt`, `Drained` are `shutdown`. A certificate is the number of
its renewal. The API is external: it renews certificate and key when it likes,
sends a certificate only to who does not have it, and its first key is well formed.
`try_shrink_db` touches none of this state and ends (`MainThreadReturns`), so it
has no action here.

## Runs

| Run | Property | What it shows |
|---|---|---|
| `rocks_store` | `TypeOK`, `ColumnsAgree`, `SizeIsUpperBound`, `ScansPurgeGarbage`, `MainThreadAdvances` | two savers, scans, evictions, a fault on two keys |
| `rocks_load` | `CleanLoadCoherent`, `ImplementsImageCache` | a load between two saves, evictions and a fault |
| `rocks_shrink` | `QueueHeadIsOldest`, `MainThreadReturns` | more entries, with any save times, than the queue of two holds; a save and a failing iterator go on meanwhile, and the counter may wrap |
| `fs_size` | `TypeOK`, `TotalCoversFiles`, `TotalHeals`, `ImplementsImageCache` | two savers and a loader against scans, evictions and a fault |
| `requests_store` | `TypeOK`, `WholeUnlessCut`, `BrokenNeverSaved`, `EachCountedOnce`, `BytesBalance`, `RequestsSettle`, `RequestsAdvance` | two concurrent requests for two keys over a cache that takes time, fails and forgets |
| `admission` | `TypeOK`, `NeverUnset`, `UpstreamNotOlder`, `VerdictFits` | a connection against pings that change host, key and upstream, every kind of token, any clock |
| `life_cycle` | `TypeOK`, `VerifierInSync`, `CertInSync`, `AliveMeansServing`, `ToldBeforeEnd`, `GraceOverrun`, `KillEnds`, `CatchesUp`, `KillAdvances` | the main thread from the first ping to its end |
| `rocks_report_viol` | `ReportCoversDatabase` | violated, see below |
| `rocks_checksum_viol` | `HitMatchesChecksum` | violated |
| `rocks_best_viol` | `QueueIsBest` | violated |
| `requests_whole_viol` | `SavedIsWhole` | violated |
| `life_cert_viol` | `NewCertServed` | violated |

The pairs are meant to be read together: what the code's comments promise is
violated, and a passing property says what holds instead.

- `report` does not always cover the database: a save that raises the counter
  before a computed size is stored over it, and puts its metadata after the
  snapshot that size came from, is lost to the counter until the next scan. It may
  have been announced before the scan, as in the run, or during it, or during an
  eviction. `SizeIsUpperBound`: without such an overlap the counter errs on the
  safe side, whatever else fails. The filesystem engine counts a save after it is
  written, so that its `report`, which returns `total` alone, may say less than is
  stored by what is written and about to be counted. More is missing only if a save
  was counted during the scan that `total` comes from, a task ended between its
  write and its count, or the iterator failed (`TotalCoversFiles`); the hourly scan
  brings all of that back (`TotalHeals`).
- A hit may pair the bytes of one save with the checksum of another.
  `ColumnsAgree`, `CleanLoadCoherent`: only where two saves of a key overlapped,
  one failed or was cut short, or the load overlapped a save. What a caller may
  rely on regardless is `ImplementsImageCache`: both parts are of images saved
  under the key, and nothing older than the last lone save is found.
- The eviction queue is not the best choice of entries. `QueueHeadIsOldest`: its
  first entry is.
- A truncated image is cached when the client leaves in the middle of a MISS.
  `WholeUnlessCut`: only then, or when upstream ends a body early and does not
  call it an error; never after an upstream error (`BrokenNeverSaved`). As two
  streams of one image bring the same bytes unless one was cut short, this also
  says that only such a stream can give a HIT the ETag of other bytes, and a 304
  to a browser that has a part.
- `MainThreadReturns`, `RequestsSettle` and `KillEnds` say that a call, a request
  and the program come to an end; `MainThreadAdvances`, `RequestsAdvance` and
  `KillAdvances` say why: by a number, or a triple of numbers, that each step of
  the actor decreases and no step of another increases. The former need fairness
  and are checked on small instances, the latter need none and are proved.
- A certificate that comes with a malformed token key is never served.
  `CertInSync`, `VerifierInSync`, `CatchesUp`: apart from that, ping, verifier and
  server stay together however many pings are lost.
- `AliveMeansServing` and `ToldBeforeEnd`: the client pings on only while it has a
  server, and the API is told before the end. The second leaves out the ends by a
  panic while a response is processed (no certificate in a first one, a malformed
  URL) or in a respawn: the API is not told then, and nothing in the repository
  says that it is.

Read, not run: `settings.sample.yaml` calls `max_grace_period` a maximum, but the
wait may exceed it by less than five seconds (`GraceOverrun`) and a graceful stop
of the server follows, which the doc of `shutdown` denies; `bytes_down_total` leaves
out the chunks of streams that upstream broke (`BytesBalance` has the inequality);
`check_sni` accepts the name "scalpel", which its doc does not mention; `as_bkey`
calls its key unique, which needs chapters of one length (`KeysDiffer`).

### Bounds

- `rocks_*`: two keys (one for loads, three for the queue), payloads of sizes 2 and
  1 (equal ones for loads), two saves, one fault. Two saves are what an overlap takes; two sizes make a
  re-save change the counter; one fault separates each failure from the others.
  `QueueCap` is 1, or 2 where replacement matters; the code's 256 differs only in
  how many entries it takes to fill it. `U64 = 32` lets the counter wrap but by no
  legal sum reach the wrap from below. Trigger and target are small so that a
  shrink starts and takes several evictions.
- `fs_size`: two keys, two payloads, two savers, a loader and one fault, for the
  same reasons; a file may be garbled, or left by an earlier run.
- `requests_*`: two requests, which is what an overlap of saves, or of a save and
  a load, takes; the invariants are proved for any number of them, and
  `RequestsSettle` speaks of one. Two chunks, so that a stream can be cut at
  nothing, half and all of an image; one failure of the cache; `Retry` is the 3 of
  the code.
- `admission`: one connection, as connections share only the cells, which they do
  not write; three pings, so that two replace what a connection has read; two hosts
  and three keys of which one malformed; three instants, so that a date can be
  past, present and future.
- `life_cycle`: three keys of which one malformed, two renewals (a malformed key
  and a return to the one before), two requests in flight, no grace period, one
  without limit, and 12 seconds in sleeps of 5.

Deadlock is looked for in the runs of the engines. The others may stop: all requests
may be over, the API may have nothing new, and the program may have ended.

### Fairness

- `RocksCache`: the main thread runs on (weak fairness of what it does of itself);
  the blocking pool runs what was spawned. Nobody has to save, load, fail or
  restart.
- `FsCache`: the main thread runs on and calls `try_shrink_db` every minute, and
  hours pass. That is all `TotalHeals` needs: nobody has to save, load or restart.
- `ImageRequests`: a handler or stream that can go on does. Upstream may stay
  silent, but the client that polls it has a timeout of 300 seconds
  (`HTTP_CLIENT`), so that a chunk, an end or an error comes. That actix polls the
  body on assumes a client that reads or leaves; one that does neither keeps its
  stream open, as in the code. A call of the cache returns, and a spawned task
  runs or is lost.
- `Admission`: none, as it has safety properties only.
- `Lifecycle`: the main thread runs on, since every request it makes has a timeout
  of 60 seconds, and minutes pass. An API that is pinged for ever is assumed to get
  an answer through in the end (strong fairness of `ApiAnswers` and `PingOk`);
  without that nothing could catch up. Nobody has to press CTRL+C, to renew
  anything or to send a request.

## Theorems

For every value of the constants, under the assumptions the modules state. The
keys and savers of the engines are finite sets, or a sum over them would mean
nothing, and so are the requests. `CapacityAssumption` of `RocksCache` says that
the counter does not overflow upwards: the largest entry times the keys and saves
there are is below `U64`, which is 2^64 bytes in the code. It may still wrap below
zero, and the theorems but `SizeBoundCorrect` do not need the assumption.

| Theorem | Property |
|---|---|
| `RocksCacheProofs` `TypeCorrect`, `ColumnsAgreeCorrect`, `CleanLoadCorrect`, `ScansPurgeCorrect`, `QueueHeadCorrect`, `SizeBoundCorrect`, `MainAdvancesCorrect` | `TypeOK`, `ColumnsAgree`, `CleanLoadCoherent`, `ScansPurgeGarbage`, `QueueHeadIsOldest`, `SizeIsUpperBound`, `MainThreadAdvances` |
| `RocksRefinementProofs` `ImplementsCorrect` | `ImplementsImageCache` |
| `FsCacheProofs` `TypeCorrect`, `CoverCorrect`, `ImplementsCorrect` | `TypeOK`, `TotalCoversFiles`, `ImplementsImageCache` |
| `FsCacheProofs` `QuietScanHeals` | from a scan that begins when saves and faults are over, `total` is exact whenever `report` reads it |
| `ImageCacheProofs` `TypeCorrect`, `LoadStaysPureCorrect` | a load that can find one image, and meets no save of its key, answers with that image or nothing |
| `ImageRequestsProofs` `TypeCorrect`, `BrokenCorrect`, `WholeCorrect`, `CountedCorrect`, `BalanceCorrect`, `RequestsAdvanceCorrect` | `TypeOK`, `BrokenNeverSaved`, `WholeUnlessCut`, `EachCountedOnce`, `BytesBalance`, `RequestsAdvance` |
| `ImageRequestsProofs` `CallsCorrect` | the requests use the cache as `ImageCache` has it |
| `AdmissionProofs` `TypeCorrect`, `NeverUnsetCorrect`, `UpstreamCorrect`, `VerdictCorrect` | the four invariants of `admission` |
| `LifecycleProofs` `TypeCorrect`, `VerifierCorrect`, `CertCorrect`, `AliveCorrect`, `ToldCorrect`, `GraceCorrect`, `KillAdvancesCorrect` | the six invariants of `life_cycle`, `KillAdvances` |
| `ImageCacheProofs` `KeysDiffer`, `KeysMayMeet` | images whose chapters have names of one length have different keys; without that two may meet |

How they go. Hardly any of the invariants is inductive as it stands.

- `ColumnsAgree` needs what each save in progress has already written: on a key
  with a lone save, the family whose put is done holds the saved content, and the
  other may be anything; with two savers on a key neither is `alone`. A half-done
  drop has emptied the images. `CleanLoadCoherent` adds that what a clean load has
  read of one family is what that family held with the other, as only a drop can
  have touched the key since, and a drop removes both.
- `ScansPurgeGarbage` follows the scan: an undecodable record that is still in
  `meta` is ahead of the iterator, was not reached by a failed one, or is the one
  being dropped.
- `QueueHeadIsOldest` needs that some entry of the accumulator is as old as every
  entry the iterator has passed, which replacing the first newer entry preserves
  because the new one is older still.
- `SizeIsUpperBound` compares a counter with a sum over keys while a scan or an
  eviction is half way through it, so its invariant (`SizeInv`) says what each
  number covers at each place. `dbSize` covers the records and the puts still
  announced. The sum of a scan is that of its snapshot up to the iterator, and
  while no save interferes all that is stored is in the snapshot. The running size
  of an eviction covers what is stored and, besides, each queued record that a
  re-save has replaced, for the eviction subtracts the weight it has listed. That
  nothing wraps upwards follows from a bound on what savers may still add.
- `TotalCoversFiles` is the same argument with one difference: the iterator of
  forceps sees live files, so a write behind it is owed by the saver that made it
  (`Pending`) and one before it is met by the scan. `QuietScanHeals` needs that
  without saves the sum of a scan is exactly that of the files it has passed.
- Both rest on `SumTheorems`: the library's induction over finite sets takes a
  predicate as a parameter, so that sums are reasoned about by way of a smallest
  counterexample among the subsets instead.
- `MainThreadAdvances` decreases a triple: the records and saves there may be yet,
  the calls the thread has still to make, and its place in a scan or in
  `drop_entry`. An eviction that returns to the head of its loop has gone back, so
  the first component must have gone down: every key in the queue, ahead of a
  purge or being dropped still has a record (`RecordsInv`), so each drop deletes
  one. Savers only move what they have announced into the records.
- `RequestsAdvance` needs that a handler that polls has failures left, and that a
  task exists only for a request that is done. `KillAdvances` needs that the
  seconds waited are below the grace period while the wait goes on.
- The refinements need that a save that has met no other is alone on its key, and
  that what it has written is there or was evicted (`LoneInv`). Then each action is
  a step of `ImageCache` or a stutter: a put adds nothing to what may be found,
  because the save has announced it; the return of a lone save leaves only its own
  image; scans and evictions forget.
- `WholeUnlessCut` needs the stage of a stream to determine its aggregator and
  body (one that failed is poisoned), that a body that has ended grows no more,
  that a load of a key without a cut or short stream has found whole images only,
  and that a key with such a stream stays one.
- `EachCountedOnce` is proved one counter at a time: a step adds one request to
  one of the outcome sets exactly when it raises that counter.
- `BytesBalance` compares sums. A chunk is a pair of a request and a number, so
  that what came and what was counted are sizes of two sets of pairs, the second
  included in the first; a stream adds its pairs one by one to the former and all
  at once to the latter.
- `Admission` needs that while the server is up both cells are set, that the
  verifier is never newer than `ping_info`, and that a connection has read neither
  before the server was up; `VerdictFits` is a lemma about `Verdict`, for every
  key, request and instant.
- The invariant of `Lifecycle` says, by `pc`, what the response under way
  determines: while it is processed `pingInfo` is already ahead of verifier and
  certificate, and exactly by what the response brought.

Only model-checked: the liveness properties (`MainThreadReturns`, `TotalHeals`,
`RequestsSettle`, `KillEnds`, `CatchesUp`), which TLAPS does not prove under
fairness. Of the first four the part that needs no fairness is proved: the
variants above, and `QuietScanHeals`. What is left to TLC of these is that a step
is enabled as long as one is left to do. `CatchesUp` depends on answers that come
through in the end and has no such part. The violated properties need no proof.

## Not modelled

Left out for good: the parsing of the configuration (its values are CONSTANTS), the
registry and encoding of the metrics (the counters are variables of
`ImageRequests`), headers and logging, cipher lists and certificate chains, the 404
service, packaging: they have no state that anything here depends on. The
cryptography of tokens and TLS, base64 and JSON, actix, tokio, RocksDB, forceps and
reqwest are taken as they are used.

## Plan

Done: the request path over the promise of the cache, that promise kept by both
engines, admission, the life cycle, and proofs of every invariant and action
property the runs check.

Next:

1. `Admission` and `Lifecycle` share the main thread; a common refinement would let
   the theorems of the one be used in the other.
2. A composition of respawn, streams and saves: what a forced stop for a new
   certificate does to the save tasks of all workers at once.
