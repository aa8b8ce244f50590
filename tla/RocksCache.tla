----------------------------- MODULE RocksCache -----------------------------
(***************************************************************************)
(* The RocksDB cache engine (src/cache/rocks.rs) with the threads that     *)
(* share it:                                                               *)
(*   - Savers: tasks spawned by finished MISS streams, each running        *)
(*     save_entry on a worker thread; its two puts run on two threads of   *)
(*     the blocking pool, in any order;                                    *)
(*   - Loaders: request handlers running load_entry, again two blocking    *)
(*     reads in any order;                                                 *)
(*   - the main thread, whose try_shrink_db (src/main.rs) calls report and *)
(*     then shrink: fetch_real_size, find_top_entries, drop_entry.         *)
(*                                                                         *)
(* An image is stored in two column families: its bytes in "images" and an *)
(* ImageEntry without bytes (checksum, length, save time) in "meta".  The  *)
(* checksum and the length of a metadata record are those of its content,  *)
(* so a record keeps the content it was computed from and the save time.   *)
(* A read of one column family, a put, a delete and the opening of an      *)
(* iterator (a consistent snapshot) are atomic; nothing else is.           *)
(***************************************************************************)
EXTENDS Integers, Sequences, FiniteSets, Functions

CONSTANTS
  Keys,          \* numbers: as_bkey hashes, in the iteration order of RocksDB
  Contents,      \* image payloads
  Size,          \* Size[c]: bytes_len of payload c
  Times,         \* values of save_time (the wall clock is not monotonic)
  Savers,        \* tasks that may be inside save_entry at the same time
  Loaders,       \* handlers that may be inside load_entry at the same time
  QueueCap,      \* the `n` of find_top_entries (256 in the code)
  ShrinkTrigger, \* MAX_MULT * cache_size: above it try_shrink_db shrinks
  ShrinkTarget,  \* SHRINK_MULT * cache_size: the `until_size` of the eviction
  U64,           \* number of values of a u64 counter (2^64 in the code)
  Prior,         \* metadata records an earlier run may have left behind
  MaxSaves,      \* bound: saves begun in a behaviour
  MaxFaults,     \* bound: failed RocksDB calls and process kills
  None,          \* absence of a value
  Garbled        \* a metadata record that bincode cannot deserialize

ColumnFamily == {"images", "meta"}
Entry == [content : Contents, time : Times]
Queued == [key : Keys, entry : Entry]
SaveOp == [key : Keys, entry : Entry, todo : SUBSET ColumnFamily,
           alone : BOOLEAN]
LoadOp == [key : Keys, todo : SUBSET ColumnFamily,
           bytes : Contents \cup {None}, entry : Entry \cup {Garbled, None},
           clean : BOOLEAN]

ASSUME KeysAssumption == Keys \subseteq Nat
ASSUME FiniteAssumption == IsFiniteSet(Keys) /\ IsFiniteSet(Savers)
ASSUME TimesAssumption == Times \subseteq Nat
ASSUME SizeAssumption == Size \in [Contents -> Nat]
ASSUME BoundsAssumption ==
  /\ QueueCap \in Nat \ {0}
  /\ U64 \in Nat \ {0}
  /\ ShrinkTrigger \in Nat /\ ShrinkTarget \in Nat
  /\ MaxSaves \in Nat /\ MaxFaults \in Nat
\* The bytes of a full database and of every save begun are counted in a u64
\* without overflow: 2^64 bytes are more than a cache saves in a lifetime.
ASSUME CapacityAssumption ==
  \E m \in 0 .. U64 : /\ \A c \in Contents : Size[c] <= m
                      /\ m * (Cardinality(Keys) + MaxSaves) < U64
ASSUME MarkersAssumption ==
  /\ None \notin Keys \cup Contents \cup Entry \cup SaveOp \cup LoadOp
  /\ Garbled \notin Entry \cup {None}
ASSUME PriorAssumption == Prior \subseteq Entry \cup {Garbled, None}

VARIABLES
  images,    \* column family "data": Keys -> payload or None
  meta,      \* column family "meta": Keys -> Entry, Garbled or None
  dbSize,    \* AtomicU64 db_size
  due,       \* more than MIN_TIME (1h) since last_fetch
  saves,     \* save_entry in progress per saver
  loads,     \* load_entry in progress per loader
  mpc,       \* where the main thread is
  ctx,       \* whose call it serves: "new", "report" or "shrink"
  snap,      \* the iterator's snapshot of meta
  rest,      \* keys the iterator has yet to yield
  skipped,   \* history: keys the last scan of fetch_real_size did not get past
  sz,        \* the local `sz` of fetch_real_size / evict_entries_fifo
  acc,       \* find_top_entries: accumulator, then the queue being evicted
  victim,    \* the key inside drop_entry, or None
  half,      \* drop_entry has deleted the image, not yet the metadata
  nsaves, faults,
  lone,      \* history: savers whose save met no other save of its key, and
             \* no error
  \* history: what the properties need to know about the past
  disturbed, \* keys on which operations overlapped, failed or were cut short
             \* and no lone save has completed since
  raced,     \* a save overlapped the computation of the value in db_size, or its
             \* iterator failed
  racing     \* the same for the computation in progress

dbVars   == <<images, meta>>
iterVars == <<snap, rest, skipped>>
dropVars == <<victim, half>>
saveLog  == <<nsaves, lone>>
history  == <<disturbed, raced, racing>>
vars == <<images, meta, dbSize, due, saves, loads, mpc, ctx, snap, rest,
          skipped, sz, acc, victim, half, nsaves, lone, faults, disturbed,
          raced, racing>>

-----------------------------------------------------------------------------
Stored(f) == {k \in Keys : f[k] # None}
NoSnap == [k \in Keys |-> None]
Saving(k) == {s \in Savers : saves[s] # None /\ saves[s].key = k}
Up == ctx # "new"

\* A new operation on k makes every save of k under way a contended one.
Contend(k) ==
  [s \in Savers |-> IF s \in Saving(k) THEN [saves[s] EXCEPT !.alone = FALSE]
                                       ELSE saves[s]]

\* The order of the eviction comparator: x is evicted in preference to y.
Older(x, y) == x.entry.time < y.entry.time

\* Mutant: the comparator's arguments swapped.
DisplaceableSwapped(x) == {i \in DOMAIN acc : Older(acc[i], x)}

\* The indices of the accumulator that entry x may displace.
Displaceable(x) == {i \in DOMAIN acc : Older(x, acc[i])}

\* The outcomes of sorting q by save time, oldest first; the sort is unstable.
Sortings(q) ==
  {r \in Bijection(DOMAIN q, Range(q)) :
     \A i, j \in DOMAIN q : i < j => ~Older(r[j], r[i])}

Init ==
  /\ meta \in [Keys -> Prior]
  /\ images \in [Keys -> Contents \cup {None}]
  /\ \A k \in Keys : /\ (images[k] = None) <=> (meta[k] = None)
                     /\ meta[k] \in Entry => images[k] = meta[k].content
  /\ dbSize = 0 /\ due = FALSE
  /\ saves = [s \in Savers |-> None]
  /\ loads = [l \in Loaders |-> None]
  /\ mpc = "fetch" /\ ctx = "new"
  /\ snap = NoSnap /\ rest = {} /\ skipped = {} /\ sz = 0 /\ acc = <<>>
  /\ victim = None /\ half = FALSE
  /\ nsaves = 0 /\ lone = {} /\ faults = 0
  /\ disturbed = {} /\ raced = FALSE /\ racing = FALSE

-----------------------------------------------------------------------------
(***************************************************************************)
(* save_entry: db_size is raised before either put is even started.        *)
(***************************************************************************)
SaveBegin(s, k, e) ==
  LET overlap == Saving(k) # {} \/ victim = k IN
  /\ Up /\ saves[s] = None /\ nsaves < MaxSaves
  /\ nsaves' = nsaves + 1
  /\ lone' = (lone \ Saving(k)) \cup (IF Saving(k) = {} THEN {s} ELSE {})
  /\ dbSize' = (dbSize + Size[e.content]) % U64
  /\ saves' = [Contend(k) EXCEPT ![s] =
                 [key |-> k, entry |-> e, todo |-> ColumnFamily,
                  alone |-> ~overlap]]
  /\ disturbed' = IF overlap THEN disturbed \cup {k} ELSE disturbed
  /\ racing' = (racing \/ mpc \in {"scan", "open", "gather", "evict", "finish"})
  /\ loads' = [l \in Loaders |->
                 IF loads[l] # None /\ loads[l].key = k
                   THEN [loads[l] EXCEPT !.clean = FALSE] ELSE loads[l]]
  /\ UNCHANGED <<dbVars, due, mpc, ctx, iterVars, sz, acc, dropVars, faults,
                 raced>>

\* What is left of save s once its put to cf is over; None when that was all.
AfterPut(s, cf, alone) ==
  LET left == saves[s].todo \ {cf} IN
  IF left = {} THEN None
  ELSE [saves[s] EXCEPT !.todo = left, !.alone = alone]

\* Mutant: a metadata record that exists is not written again.
PutKeepsMeta(s, cf) ==
  /\ saves[s] # None /\ cf \in saves[s].todo
  /\ images' = IF cf = "images"
                 THEN [images EXCEPT ![saves[s].key] = saves[s].entry.content]
                 ELSE images
  /\ meta' = IF cf = "meta" /\ meta[saves[s].key] = None
               THEN [meta EXCEPT ![saves[s].key] = saves[s].entry] ELSE meta
  /\ saves' = [saves EXCEPT ![s] = AfterPut(s, cf, saves[s].alone)]
  /\ lone' = IF saves[s].todo = {cf} THEN lone \ {s} ELSE lone
  /\ disturbed' = IF saves[s].todo = {cf} /\ saves[s].alone
                    THEN disturbed \ {saves[s].key} ELSE disturbed
  /\ UNCHANGED <<dbSize, due, loads, mpc, ctx, iterVars, sz, acc, dropVars,
                 nsaves, faults, raced, racing>>

\* put_cf_async on one of the two column families.
Put(s, cf) ==
  /\ saves[s] # None /\ cf \in saves[s].todo
  /\ IF cf = "images"
       THEN /\ images' = [images EXCEPT ![saves[s].key] =
                                          saves[s].entry.content]
            /\ UNCHANGED meta
       ELSE /\ meta' = [meta EXCEPT ![saves[s].key] = saves[s].entry]
            /\ UNCHANGED images
  /\ saves' = [saves EXCEPT ![s] = AfterPut(s, cf, saves[s].alone)]
  /\ lone' = IF saves[s].todo = {cf} THEN lone \ {s} ELSE lone
  /\ disturbed' = IF saves[s].todo = {cf} /\ saves[s].alone
                    THEN disturbed \ {saves[s].key} ELSE disturbed
  /\ UNCHANGED <<dbSize, due, loads, mpc, ctx, iterVars, sz, acc, dropVars,
                 nsaves, faults, raced, racing>>

\* Mutant: a failed put takes back what the save added to db_size.
PutFailsRollback(s, cf) ==
  /\ saves[s] # None /\ cf \in saves[s].todo /\ faults < MaxFaults
  /\ faults' = faults + 1
  /\ dbSize' = (dbSize + U64 - Size[saves[s].entry.content]) % U64
  /\ saves' = [saves EXCEPT ![s] = AfterPut(s, cf, FALSE)]
  /\ lone' = lone \ {s}
  /\ disturbed' = disturbed \cup {saves[s].key}
  /\ UNCHANGED <<dbVars, due, loads, mpc, ctx, iterVars, sz, acc,
                 dropVars, nsaves, raced, racing>>

\* A put fails: save_entry returns the error, the other put still runs on its
\* blocking thread, and what was added to db_size stays there.
PutFails(s, cf) ==
  /\ saves[s] # None /\ cf \in saves[s].todo /\ faults < MaxFaults
  /\ faults' = faults + 1
  /\ saves' = [saves EXCEPT ![s] = AfterPut(s, cf, FALSE)]
  /\ lone' = lone \ {s}
  /\ disturbed' = disturbed \cup {saves[s].key}
  /\ UNCHANGED <<dbVars, dbSize, due, loads, mpc, ctx, iterVars, sz, acc,
                 dropVars, nsaves, raced, racing>>

(***************************************************************************)
(* load_entry: a HIT needs both column families; an undecodable metadata   *)
(* record or a failed read makes it a MISS.                                *)
(***************************************************************************)
LoadBegin(l, k) ==
  /\ Up /\ loads[l] = None
  /\ loads' = [loads EXCEPT ![l] =
                 [key |-> k, todo |-> ColumnFamily, bytes |-> None,
                  entry |-> None, clean |-> Saving(k) = {} /\ k \notin disturbed]]
  /\ UNCHANGED <<dbVars, dbSize, due, saves, mpc, ctx, iterVars, sz, acc,
                 dropVars, saveLog, faults, history>>

\* What read cf makes of load op.
AfterGet(op, cf) ==
  [op EXCEPT !.todo = op.todo \ {cf},
             !.bytes = IF cf = "images" THEN images[op.key] ELSE op.bytes,
             !.entry = IF cf = "meta" THEN meta[op.key] ELSE op.entry]

Get(l, cf) ==
  /\ loads[l] # None /\ cf \in loads[l].todo
  /\ loads' = [loads EXCEPT ![l] = AfterGet(loads[l], cf)]
  /\ UNCHANGED <<dbVars, dbSize, due, saves, mpc, ctx, iterVars, sz, acc,
                 dropVars, saveLog, faults, history>>

\* The load's result, once it has both reads, is a HIT.
Hit(op) == op.todo = {} /\ op.bytes # None /\ op.entry \in Entry

LoadReturns(l) ==
  /\ loads[l] # None
  /\ \/ loads[l].todo = {} /\ UNCHANGED faults
     \/ loads[l].todo # {} /\ faults < MaxFaults /\ faults' = faults + 1
  /\ loads' = [loads EXCEPT ![l] = None]
  /\ UNCHANGED <<dbVars, dbSize, due, saves, mpc, ctx, iterVars, sz, acc,
                 dropVars, saveLog, history>>

-----------------------------------------------------------------------------
(***************************************************************************)
(* The main thread.  No step of it awaits, but every one of them           *)
(* interleaves with the blocking threads that execute puts and gets.       *)
(***************************************************************************)
\* The frame of a main-thread step that drops nothing.
NoDrop == UNCHANGED <<dbVars, saves, loads, dropVars, saveLog, disturbed>>

\* try_shrink_db is over: the locals of the call die with it.
Return == /\ mpc' = "idle" /\ ctx' = "report"
          /\ snap' = NoSnap /\ rest' = {} /\ sz' = 0 /\ acc' = <<>>
          /\ racing' = FALSE

\* drop_entry(k) is entered.
BeginDrop(k) ==
  /\ victim' = k /\ half' = FALSE
  /\ saves' = Contend(k)
  /\ disturbed' = IF Saving(k) # {} THEN disturbed \cup {k} ELSE disturbed

\* try_shrink_db calls report, which calls get_db_size.
StartReport ==
  /\ mpc = "idle" /\ mpc' = "getsize"
  /\ NoDrop /\ UNCHANGED <<dbSize, due, ctx, iterVars, sz, acc, faults, raced,
                           racing>>

\* More than an hour since last_fetch, when report reads the clock; the other
\* read, in evict_entries_fifo, follows a scan and is in StoreSize.
HourPasses ==
  /\ mpc = "idle" /\ ~due /\ due' = TRUE
  /\ NoDrop /\ UNCHANGED <<dbSize, mpc, ctx, iterVars, sz, acc, faults, raced,
                           racing>>

RefreshSize ==
  /\ mpc = "getsize" /\ due /\ mpc' = "fetch"
  /\ NoDrop /\ UNCHANGED <<dbSize, due, ctx, iterVars, sz, acc, faults, raced,
                           racing>>

\* The reported size is compared with the maximum; shrink starts by fetching.
ReportAndCompare ==
  /\ mpc = "getsize" /\ ~due /\ ctx = "report"
  /\ IF dbSize > ShrinkTrigger
       THEN /\ mpc' = "fetch" /\ ctx' = "shrink"
            /\ UNCHANGED <<iterVars, sz, acc, racing>>
       ELSE Return /\ UNCHANGED skipped
  /\ NoDrop /\ UNCHANGED <<dbSize, due, faults, raced>>

\* evict_entries_fifo takes its running size from get_db_size.
ShrinkLoad ==
  /\ mpc = "getsize" /\ ~due /\ ctx = "shrink"
  /\ sz' = dbSize /\ racing' = raced /\ mpc' = "open"
  /\ NoDrop /\ UNCHANGED <<dbSize, due, ctx, iterVars, acc, faults, raced>>

-----------------------------------------------------------------------------
\* fetch_real_size opens its iterator.
OpenFetch ==
  /\ mpc = "fetch" /\ mpc' = "scan"
  /\ snap' = meta /\ rest' = Stored(meta) /\ skipped' = {} /\ sz' = 0
  /\ racing' = \E s \in Savers : saves[s] # None /\ "meta" \in saves[s].todo
  /\ NoDrop /\ UNCHANGED <<dbSize, due, ctx, acc, faults, raced>>

\* The iterators yield keys in order.
Yields(k) == victim = None /\ k \in rest /\ \A j \in rest : k <= j

\* Mutant: an undecodable record is passed over.
SkipGarbled(k) ==
  /\ snap[k] = Garbled /\ NoDrop
  /\ UNCHANGED <<dbSize, due, mpc, ctx, sz, acc, faults, raced, racing>>

\* An undecodable record makes the scan in progress drop the entry.
DropGarbled(k) ==
  /\ snap[k] = Garbled /\ BeginDrop(k)
  /\ UNCHANGED <<dbVars, dbSize, due, loads, mpc, ctx, sz, acc, saveLog, faults,
                 raced, racing>>

ScanEntry ==
  /\ mpc = "scan"
  /\ \E k \in rest :
       /\ Yields(k) /\ rest' = rest \ {k} /\ UNCHANGED <<snap, skipped>>
       /\ \/ DropGarbled(k)
          \/ /\ snap[k] # Garbled
             /\ sz' = (sz + Size[snap[k].content]) % U64
             /\ NoDrop
             /\ UNCHANGED <<dbSize, due, mpc, ctx, acc, faults, raced, racing>>

\* The scan's sum replaces db_size, whatever savers added to it meanwhile.  After
\* the scan it began with, evict_entries_fifo reads the clock once more, in
\* get_db_size, and may find the hour over again.
StoreSize ==
  /\ mpc = "scan" /\ rest = {} /\ victim = None
  /\ dbSize' = sz /\ raced' = racing
  /\ due' \in IF ctx = "shrink" /\ ~due THEN BOOLEAN ELSE {FALSE}
  /\ IF Up THEN /\ mpc' = "getsize" /\ snap' = NoSnap /\ sz' = 0
                /\ racing' = FALSE /\ UNCHANGED <<ctx, rest, acc>>
           ELSE Return
  /\ NoDrop /\ UNCHANGED <<skipped, faults>>

\* The iterator of either scan meets an error: the library's iterator hides it
\* and just ends, so that what it has yielded so far passes for everything.
IteratorFails ==
  /\ mpc \in {"scan", "gather"} /\ rest # {} /\ victim = None
  /\ faults < MaxFaults /\ faults' = faults + 1
  /\ rest' = {} /\ snap' = [k \in Keys |-> IF k \in rest THEN None ELSE snap[k]]
  /\ IF mpc = "scan" THEN skipped' = skipped \cup rest /\ racing' = TRUE
                     ELSE UNCHANGED <<skipped, racing>>
  /\ NoDrop /\ UNCHANGED <<dbSize, due, mpc, ctx, sz, acc, raced>>

-----------------------------------------------------------------------------
\* find_top_entries opens its iterator.
OpenGather ==
  /\ mpc = "open" /\ mpc' = "gather"
  /\ snap' = meta /\ rest' = Stored(meta) /\ acc' = <<>>
  /\ NoDrop /\ UNCHANGED <<dbSize, due, ctx, skipped, sz, faults, raced, racing>>

\* The accumulator is offered entry x: room is left, the first entry x may
\* displace is replaced, or x is passed over.
Offer(x) ==
  \/ Len(acc) < QueueCap /\ acc' = Append(acc, x)
  \/ /\ Len(acc) >= QueueCap
     /\ \E i \in Displaceable(x) : /\ \A j \in Displaceable(x) : i <= j
                                   /\ acc' = [acc EXCEPT ![i] = x]
  \/ Len(acc) >= QueueCap /\ Displaceable(x) = {} /\ UNCHANGED acc

GatherEntry ==
  /\ mpc = "gather"
  /\ \E k \in rest :
       /\ Yields(k) /\ rest' = rest \ {k} /\ UNCHANGED <<snap, skipped>>
       /\ \/ DropGarbled(k)
          \/ /\ snap[k] # Garbled
             /\ Offer([key |-> k, entry |-> snap[k]])
             /\ NoDrop
             /\ UNCHANGED <<dbSize, due, mpc, ctx, sz, faults, raced, racing>>

\* Mutant: the eviction does not stop at an empty queue.
SortQueueUnchecked ==
  /\ mpc = "gather" /\ rest = {} /\ victim = None
  /\ acc' \in Sortings(acc)
  /\ mpc' = IF acc = <<>> THEN "open" ELSE "evict"
  /\ snap' = NoSnap
  /\ NoDrop /\ UNCHANGED <<dbSize, due, ctx, rest, skipped, sz, faults, raced,
                          racing>>

SortQueue ==
  /\ mpc = "gather" /\ rest = {} /\ victim = None
  /\ acc' \in Sortings(acc)
  /\ mpc' = IF acc = <<>> THEN "finish" ELSE "evict"
  /\ snap' = NoSnap
  /\ NoDrop /\ UNCHANGED <<dbSize, due, ctx, rest, skipped, sz, faults, raced,
                          racing>>

EvictNext ==
  /\ mpc = "evict" /\ victim = None
  /\ BeginDrop(Head(acc).key)
  /\ UNCHANGED <<dbVars, dbSize, due, loads, mpc, ctx, iterVars, sz, acc,
                 saveLog, faults, raced, racing>>

\* evict_entries_fifo stores the size it has counted down to.
FinishShrink ==
  /\ mpc = "finish"
  /\ dbSize' = sz /\ raced' = racing
  /\ Return
  /\ NoDrop /\ UNCHANGED <<due, skipped, faults>>

-----------------------------------------------------------------------------
\* drop_entry: the image goes first, the metadata second.
DropImages ==
  /\ victim # None /\ ~half
  /\ images' = [images EXCEPT ![victim] = None] /\ half' = TRUE
  /\ UNCHANGED <<meta, dbSize, due, saves, loads, mpc, ctx, iterVars, sz, acc,
                 victim, saveLog, faults, history>>

\* Mutant: the counter is taken below zero.
CountDownUnwrapped ==
  /\ sz' = sz - Size[Head(acc).entry.content]
  /\ acc' = Tail(acc)
  /\ mpc' = IF sz' <= ShrinkTarget THEN "finish"
            ELSE IF Len(acc) = 1 THEN "open" ELSE "evict"

\* The eviction loop after drop_entry returned: the counter goes down, and the
\* target, the end of the queue or the next entry follows.
CountDown ==
  /\ sz' = (sz + U64 - Size[Head(acc).entry.content]) % U64
  /\ acc' = Tail(acc)
  /\ mpc' = IF sz' <= ShrinkTarget THEN "finish"
            ELSE IF Len(acc) = 1 THEN "open" ELSE "evict"

\* Mutant: the second delete goes to the images again.
DropMetaMissed ==
  /\ victim # None /\ half
  /\ victim' = None /\ half' = FALSE
  /\ IF mpc = "evict" THEN CountDown ELSE UNCHANGED <<mpc, sz, acc>>
  /\ UNCHANGED <<images, meta, dbSize, due, saves, loads, ctx, iterVars, saveLog,
                 faults, history>>

DropMeta ==
  /\ victim # None /\ half
  /\ meta' = [meta EXCEPT ![victim] = None]
  /\ victim' = None /\ half' = FALSE
  /\ IF mpc = "evict" THEN CountDown ELSE UNCHANGED <<mpc, sz, acc>>
  /\ UNCHANGED <<images, dbSize, due, saves, loads, ctx, iterVars, saveLog,
                 faults, history>>

\* A delete fails: the error leaves try_shrink_db, db_size keeps its old value.
\* In RocksCache::new it ends the program instead.
DropFails ==
  /\ victim # None /\ faults < MaxFaults /\ faults' = faults + 1
  /\ disturbed' = IF half THEN disturbed \cup {victim} ELSE disturbed
  /\ skipped' = IF mpc = "scan" THEN skipped \cup rest \cup {victim}
                                   ELSE skipped
  /\ victim' = None /\ half' = FALSE
  /\ IF Up THEN Return
     ELSE /\ mpc' = "down" /\ snap' = NoSnap /\ rest' = {} /\ sz' = 0
          /\ racing' = FALSE /\ UNCHANGED <<ctx, acc>>
  /\ UNCHANGED <<dbVars, dbSize, due, saves, loads, saveLog, raced>>

-----------------------------------------------------------------------------
\* The process ends: on a kill at any moment, or by returning from main while
\* saves are still under way.  What the column families hold survives.
Crash ==
  /\ mpc # "down" /\ faults < MaxFaults /\ faults' = faults + 1
  /\ disturbed' = disturbed
                    \cup {saves[s].key : s \in {r \in Savers : saves[r] # None}}
                    \cup (IF half THEN {victim} ELSE {})
  /\ saves' = [s \in Savers |-> None] /\ lone' = {}
  /\ loads' = [l \in Loaders |-> None]
  /\ mpc' = "down" /\ ctx' = "new"
  /\ dbSize' = 0 /\ due' = FALSE
  /\ snap' = NoSnap /\ rest' = {} /\ skipped' = {} /\ sz' = 0 /\ acc' = <<>>
  /\ victim' = None /\ half' = FALSE /\ raced' = FALSE /\ racing' = FALSE
  /\ UNCHANGED <<dbVars, nsaves>>

Reopen ==
  /\ mpc = "down" /\ mpc' = "fetch"
  /\ NoDrop /\ UNCHANGED <<dbSize, due, ctx, iterVars, sz, acc, faults, raced,
                           racing>>

-----------------------------------------------------------------------------
SaveStep(s) == \/ \E k \in Keys, e \in Entry : SaveBegin(s, k, e)
               \/ \E cf \in ColumnFamily : Put(s, cf) \/ PutFails(s, cf)

LoadStep(l) == \/ \E k \in Keys : LoadBegin(l, k)
               \/ \E cf \in ColumnFamily : Get(l, cf)
               \/ LoadReturns(l)

ScanStep == OpenFetch \/ ScanEntry \/ StoreSize

EvictStep == OpenGather \/ GatherEntry \/ SortQueue \/ EvictNext \/ FinishShrink

\* What the main thread does of itself once try_shrink_db has been entered.
MainStep == \/ RefreshSize \/ ReportAndCompare \/ ShrinkLoad
            \/ ScanStep \/ EvictStep \/ DropImages \/ DropMeta

Next == \/ \E s \in Savers : SaveStep(s)
        \/ \E l \in Loaders : LoadStep(l)
        \/ StartReport \/ HourPasses \/ MainStep
        \/ DropFails \/ IteratorFails \/ Crash \/ Reopen

\* The main thread is not starved, and the blocking pool runs what was spawned
\* on it.  Nobody has to save, load, call report, fail or restart.
Fairness == /\ WF_vars(MainStep)
            /\ \A s \in Savers, cf \in ColumnFamily : WF_vars(Put(s, cf))

Spec == Init /\ [][Next]_vars /\ Fairness

-----------------------------------------------------------------------------
(***************************************************************************)
(* Properties.                                                             *)
(***************************************************************************)
MidLoop == {"open", "gather", "evict", "finish"}

\* Type correctness of the column families, the counters and the operations in
\* progress in rocks.rs.
TypeOK ==
  /\ images \in [Keys -> Contents \cup {None}]
  /\ meta \in [Keys -> Entry \cup {Garbled, None}]
  /\ dbSize \in 0 .. U64 - 1 /\ due \in BOOLEAN
  /\ saves \in [Savers -> SaveOp \cup {None}]
  /\ loads \in [Loaders -> LoadOp \cup {None}]
  /\ mpc \in {"down", "idle", "getsize", "fetch", "scan"} \cup MidLoop
  /\ ctx \in {"new", "report", "shrink"}
  /\ snap \in [Keys -> Entry \cup {Garbled, None}]
  /\ rest \in SUBSET Keys /\ skipped \in SUBSET Keys
  /\ sz \in 0 .. U64 - 1 /\ acc \in Seq(Queued)
  /\ victim \in Keys \cup {None} /\ half \in BOOLEAN
  /\ nsaves \in 0 .. MaxSaves /\ faults \in 0 .. MaxFaults
  /\ lone \in SUBSET Savers
  /\ disturbed \in SUBSET Keys /\ raced \in BOOLEAN /\ racing \in BOOLEAN

\* What the two column families hold under one key: both nothing, or both
\* something, and then the metadata are those of the bytes.
Agree(k) == /\ (images[k] = None) <=> (meta[k] = None)
            /\ meta[k] \in Entry => images[k] = meta[k].content

\* The two column families of save_entry and drop_entry agree on every key on
\* which no operation is in progress and none overlapped, failed or was cut
\* short since the last save that had the key to itself: restarts, evictions,
\* size scans and saves that do not meet on a key never tear an image.
ColumnsAgree ==
  \A k \in Keys :
    (k \notin disturbed /\ Saving(k) = {} /\ ~(half /\ victim = k)) => Agree(k)

\* load_entry, which reads the column families in two blocking tasks: a hit on
\* a key that was undisturbed when it began, and that nobody began to save
\* before it ended, returns the bytes its checksum was computed from, whatever
\* the eviction does to the key between the two reads.
CleanLoadCoherent ==
  \A l \in Loaders :
    (loads[l] # None /\ loads[l].clean /\ Hit(loads[l]))
      => loads[l].bytes = loads[l].entry.content

\* The bytes the metadata account for: what a scan of an undisturbed database
\* would compute.
Weigh(record) == IF record \in Entry THEN Size[record.content] ELSE 0
RealSize == SumFunction([k \in Keys |-> Weigh(meta[k])])

\* db_size and the running size of evict_entries_fifo never fall below what is
\* stored unless the iterator of their computation failed or a save overlapped it,
\* one announced before the scan and not put when its iterator opened included:
\* failed saves, re-saves of a stored key, dropped garbage and failed evictions err
\* on the safe side only, and otherwise the eviction reaches its target.
SizeIsUpperBound ==
  /\ Up /\ ~raced => dbSize >= RealSize
  /\ mpc \in MidLoop /\ ~racing => sz >= RealSize

\* Once the cache is open, undecodable records are left only under keys that the
\* last scan of fetch_real_size did not get past, because its iterator failed or
\* a delete did: the first scan purges all others, whatever savers and evictions
\* do meanwhile, no record ever becomes one, and the next scan heals the rest.
ScansPurgeGarbage ==
  Up /\ mpc # "scan" => \A k \in Keys : meta[k] = Garbled => k \in skipped

\* find_top_entries: the head of the queue it returns, the next entry to be
\* evicted, is as old as any entry of its snapshot, although the accumulator
\* replaces the first newer entry it finds and not the newest.
QueueHeadIsOldest ==
  [][SortQueue /\ acc # <<>> =>
       \A k \in Keys : snap[k] \in Entry =>
         acc'[1].entry.time <= snap[k].time]_vars

\* How far the main thread is from the end of its call: the saves and records
\* there may be yet, the calls it still has to make, its position in a scan or in
\* drop_entry.
Announced == {s \in Savers : saves[s] # None /\ "meta" \in saves[s].todo}
Budget == MaxSaves - nsaves + Cardinality(Announced) + Cardinality(Stored(meta))
Stage ==
  LET Shrinking == ctx = "shrink" IN
  CASE mpc \in {"idle", "down"} -> 0
    [] mpc = "finish" -> 1
    [] mpc = "evict" -> 2
    [] mpc = "gather" -> 3
    [] mpc = "open" -> 4
    [] mpc = "getsize" -> (IF Shrinking THEN 5 ELSE 11) + (IF due THEN 3 ELSE 0)
    [] mpc = "scan" -> IF ~Shrinking THEN 12 ELSE IF due THEN 6 ELSE 9
    [] mpc = "fetch" -> IF ~Shrinking THEN 13 ELSE IF due THEN 7 ELSE 10
ToVisit == IF mpc # "evict" THEN Cardinality(rest)
           ELSE IF victim = None THEN 1 ELSE 0
DropLeft == IF victim = None THEN 0 ELSE IF half THEN 1 ELSE 2
Position == 3 * ToVisit + DropLeft

Closer == \/ Budget' < Budget
          \/ Budget' = Budget /\ Stage' < Stage
          \/ Budget' = Budget /\ Stage' = Stage /\ Position' < Position

\* Why try_shrink_db and RocksCache::new come to an end: every step of the main
\* thread brings it closer, as no record is dropped twice and each pass of
\* 'evictor drops one, and what others do meanwhile takes it no farther.
MainThreadAdvances ==
  [][/\ MainStep => Closer
     /\ mpc \notin {"idle", "down"} =>
          Closer \/ UNCHANGED <<Budget, Stage, Position>>]_vars

\* Every call of try_shrink_db, and RocksCache::new, come to an end while savers
\* keep adding entries: each pass of 'evictor ends at the target or drops one.
MainThreadReturns == mpc \notin {"idle", "down"} ~> mpc \in {"idle", "down"}

\* What the doc of report (src/cache/mod.rs:229) promises: the total size.
ReportCoversDatabase == Up => dbSize >= RealSize

\* What the doc of ImageEntry (src/cache/mod.rs:101) promises of a hit: the
\* checksum, served as the ETag, is that of the bytes.
HitMatchesChecksum ==
  \A l \in Loaders : (loads[l] # None /\ Hit(loads[l]))
                       => loads[l].bytes = loads[l].entry.content

\* What the comment of find_top_entries promises of the queue: no entry that
\* was left out is older than one that was chosen.
QueueIsBest ==
  [][SortQueue =>
       \A k \in Keys, i \in DOMAIN acc' :
         (snap[k] \in Entry /\ \A j \in DOMAIN acc' : acc'[j].key # k)
           => acc'[i].entry.time <= snap[k].time]_vars

=============================================================================
