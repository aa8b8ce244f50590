------------------------------- MODULE FsCache -------------------------------
(***************************************************************************)
(* The filesystem cache engine (src/cache/fs.rs) with those who share it:  *)
(* tasks that save, handlers that load, and the main thread, whose         *)
(* try_shrink_db (src/main.rs) calls report and shrink.                    *)
(*                                                                         *)
(* The storage below, the library forceps, is external and modelled from   *)
(* its use: it reads and writes one file at a time, atomically, iterates   *)
(* over the metadata of the files while they change, and its FifoEvictor   *)
(* removes files until what it found at its start is down to `min`.  Its   *)
(* memory LRU, which may answer a read, is assumed to be in step with the  *)
(* files: a read finds what the file holds.                                *)
(*                                                                         *)
(* Unlike the RocksDB engine this one counts a save after it has been      *)
(* written, counts what is written and not the image alone, and never      *)
(* counts down: only a scan of the metadata lowers `total`.                *)
(***************************************************************************)
EXTENDS Integers, FiniteSets, Functions

CONSTANTS
  Keys,          \* ImageKey
  Contents,      \* image payloads
  Garbled,       \* a file that bincode cannot deserialize
  Size,          \* Size[b]: bytes of a file that holds b
  Savers,        \* tasks that may be inside save_to_db at the same time
  Loaders,       \* handlers that may be inside read_from_db at the same time
  ShrinkTrigger, \* MAX_MULT * cache_size: above it try_shrink_db shrinks
  ShrinkTarget,  \* SHRINK_MULT * cache_size: the `min` of shrink
  Prior,         \* what an earlier run may have left in a file
  MaxSaves,      \* bound: saves begun in a behaviour
  MaxFaults,     \* bound: failed calls of forceps, lost tasks, process kills
  None           \* absence of a value

Blobs == Contents \cup {Garbled}
SaveOp == [key : Keys, content : Contents, written : BOOLEAN]
LoadOp == [key : Keys, found : Contents \cup {None}]

ASSUME FiniteAssumption == IsFiniteSet(Keys) /\ IsFiniteSet(Savers)
ASSUME SizeAssumption == Size \in [Blobs -> Nat]
ASSUME BoundsAssumption == /\ ShrinkTrigger \in Nat /\ ShrinkTarget \in Nat
                           /\ MaxSaves \in Nat /\ MaxFaults \in Nat
ASSUME PriorAssumption == Prior \subseteq Blobs \cup {None}
ASSUME MarkersAssumption ==
  /\ None \notin Blobs \cup SaveOp \cup LoadOp
  /\ Garbled \notin Contents

VARIABLES
  files,     \* forceps: Keys -> what the file holds, or None
  total,     \* AtomicU64 total
  due,       \* an hour has passed since last_fetch
  saves,     \* save_to_db in progress per saver
  loads,     \* read_from_db in progress per loader
  mpc,       \* where the main thread is
  goal,      \* whose call it serves: "new", "report" or "shrink"
  rest,      \* update_real_size: keys the metadata iterator has yet to yield
  sum,       \* its accumulator
  listing,   \* the files the evictor found at its start and has not removed
  nsaves, faults,
  lone,      \* history: savers whose save met no other save of its key
  missed,    \* history: the counter may lack a file: a save was counted during
             \* the scan that produced it, was written and never counted, or the
             \* iterator met an error
  missing    \* the same for the scan in progress

mainVars == <<mpc, goal, rest, sum, listing>>
callVars == <<saves, loads, nsaves, lone>>
missVars == <<missed, missing>>
vars == <<files, total, due, saves, loads, mpc, goal, rest, sum, listing, nsaves,
          faults, lone, missed, missing>>

-----------------------------------------------------------------------------
Up == goal # "new"
Saving(k) == {s \in Savers : saves[s] # None /\ saves[s].key = k}
Stored(f) == {k \in Keys : f[k] # None}
Weight(blob) == IF blob = None THEN 0 ELSE Size[blob]
Bytes(f) == SumFunction([k \in Keys |-> Weight(f[k])])
NoFiles == [k \in Keys |-> None]

\* What has been written and will be counted.
Pending ==
  SumFunction([s \in Savers |->
                 IF saves[s] # None /\ saves[s].written
                   THEN Size[saves[s].content] ELSE 0])

Init ==
  /\ files \in [Keys -> Prior]
  /\ total = 0 /\ due = FALSE
  /\ saves = [s \in Savers |-> None] /\ loads = [l \in Loaders |-> None]
  /\ mpc = "scan" /\ goal = "new" /\ rest = Keys /\ sum = 0
  /\ listing = NoFiles
  /\ nsaves = 0 /\ faults = 0 /\ lone = {}
  /\ missed = FALSE /\ missing = FALSE

Fault == faults < MaxFaults /\ faults' = faults + 1

-----------------------------------------------------------------------------
(***************************************************************************)
(* save_to_db: the file is written, then counted.                          *)
(***************************************************************************)
SaveBegin(s, k, c) ==
  /\ Up /\ saves[s] = None /\ nsaves < MaxSaves
  /\ nsaves' = nsaves + 1
  /\ lone' = (lone \ Saving(k)) \cup (IF Saving(k) = {} THEN {s} ELSE {})
  /\ saves' = [saves EXCEPT ![s] = [key |-> k, content |-> c, written |-> FALSE]]
  /\ UNCHANGED <<files, total, due, loads, mainVars, faults, missVars>>

\* Mutant: a file that exists is not written again.
WriteKeepsFile(s) ==
  /\ saves[s] # None /\ ~saves[s].written
  /\ files' = IF files[saves[s].key] = None
                THEN [files EXCEPT ![saves[s].key] = saves[s].content] ELSE files
  /\ saves' = [saves EXCEPT ![s].written = TRUE]
  /\ UNCHANGED <<total, due, loads, mainVars, nsaves, faults, lone, missVars>>

Write(s) ==
  /\ saves[s] # None /\ ~saves[s].written
  /\ files' = [files EXCEPT ![saves[s].key] = saves[s].content]
  /\ saves' = [saves EXCEPT ![s].written = TRUE]
  /\ UNCHANGED <<total, due, loads, mainVars, nsaves, faults, lone, missVars>>

\* fetch_add, also when the write has replaced a file; save returns true.
Count(s) ==
  /\ saves[s] # None /\ saves[s].written
  /\ total' = total + Size[saves[s].content]
  /\ saves' = [saves EXCEPT ![s] = None]
  /\ lone' = lone \ {s}
  /\ missing' = (missing \/ mpc = "scan")
  /\ UNCHANGED <<files, due, loads, mainVars, nsaves, faults, missed>>

\* The write fails, or the worker that runs the task has been stopped while it
\* awaited the write: the file may be written all the same, but is not counted.
Lose(s) ==
  /\ saves[s] # None /\ ~saves[s].written /\ Fault
  /\ saves' = [saves EXCEPT ![s] = None]
  /\ lone' = lone \ {s}
  /\ \/ UNCHANGED <<files, missVars>>
     \/ /\ files' = [files EXCEPT ![saves[s].key] = saves[s].content]
        /\ missed' = TRUE /\ missing' = (mpc = "scan")
  /\ UNCHANGED <<total, due, loads, mainVars, nsaves>>

(***************************************************************************)
(* read_from_db: a file that is not there, cannot be read or does not      *)
(* decode is a MISS.                                                       *)
(***************************************************************************)
LoadBegin(l, k) ==
  /\ Up /\ loads[l] = None
  /\ loads' = [loads EXCEPT ![l] = [key |-> k, found |-> None]]
  /\ UNCHANGED <<files, total, due, saves, mainVars, nsaves, faults, lone,
                 missVars>>

Read(l) ==
  /\ loads[l] # None /\ loads[l].found = None
  /\ files[loads[l].key] \in Contents
  /\ loads' = [loads EXCEPT ![l].found = files[loads[l].key]]
  /\ UNCHANGED <<files, total, due, saves, mainVars, nsaves, faults, lone,
                 missVars>>

LoadReturns(l) ==
  /\ loads[l] # None
  /\ \/ /\ loads[l].found # None \/ files[loads[l].key] \notin Contents
        /\ UNCHANGED faults
     \/ loads[l].found = None /\ Fault
  /\ loads' = [loads EXCEPT ![l] = None]
  /\ UNCHANGED <<files, total, due, saves, mainVars, nsaves, lone, missVars>>

-----------------------------------------------------------------------------
(***************************************************************************)
(* update_real_size: the metadata are read one by one, and the sum is      *)
(* stored over whatever savers have added to total meanwhile.              *)
(***************************************************************************)
BeginScan(g) ==
  /\ mpc' = "scan" /\ goal' = g
  /\ rest' = Keys /\ sum' = 0 /\ listing' = NoFiles /\ missing' = FALSE

ScanEntry ==
  /\ mpc = "scan"
  /\ \E k \in rest :
       /\ rest' = rest \ {k}
       /\ \/ /\ sum' = sum + Weight(files[k])
             /\ UNCHANGED <<faults, missing>>
          \/ Fault /\ missing' = TRUE /\ UNCHANGED sum
  /\ UNCHANGED <<files, total, due, callVars, mpc, goal, listing, missed>>

\* Of its callers only find_size sets last_fetch.
StoreSize ==
  /\ mpc = "scan" /\ rest = {}
  /\ total' = sum /\ missed' = missing
  /\ due' = IF goal = "report" THEN FALSE ELSE due
  /\ mpc' = IF goal = "report" THEN "compare" ELSE "idle"
  /\ goal' = "report" /\ sum' = 0 /\ missing' = FALSE
  /\ UNCHANGED <<files, callVars, rest, listing, faults>>

(***************************************************************************)
(* try_shrink_db: report, which is find_size, and shrink.                  *)
(***************************************************************************)
HourPasses ==
  /\ mpc # "down" /\ ~due /\ due' = TRUE
  /\ UNCHANGED <<files, total, callVars, mainVars, faults, missVars>>

\* Mutant: last_fetch is set when total is read, and nothing is fetched.
ReportNoFetch ==
  /\ mpc = "idle" /\ mpc' = "compare" /\ due' = FALSE
  /\ UNCHANGED <<files, total, callVars, goal, rest, sum, listing, faults,
                 missVars>>

Report ==
  /\ mpc = "idle"
  /\ IF due THEN BeginScan("report")
            ELSE mpc' = "compare" /\ UNCHANGED <<goal, rest, sum, listing, missing>>
  /\ UNCHANGED <<files, total, due, callVars, faults, missed>>

\* The size reported is compared; above the trigger the evictor lists the files.
Compare ==
  /\ mpc = "compare"
  /\ IF total > ShrinkTrigger
       THEN mpc' = "evict" /\ goal' = "shrink" /\ listing' = files
       ELSE mpc' = "idle" /\ UNCHANGED <<goal, listing>>
  /\ UNCHANGED <<files, total, due, callVars, rest, sum, faults, missVars>>

\* Mutant: total is counted down with every file that is removed.
EvictNextCountsDown ==
  /\ mpc = "evict" /\ Bytes(listing) > ShrinkTarget
  /\ \E k \in Stored(listing) :
       /\ files' = [files EXCEPT ![k] = None]
       /\ listing' = [listing EXCEPT ![k] = None]
       /\ total' = total - Size[listing[k]]
  /\ UNCHANGED <<due, callVars, mpc, goal, rest, sum, faults, missVars>>

\* The evictor removes one of the files it has listed, whatever they hold now.
EvictNext ==
  /\ mpc = "evict" /\ Bytes(listing) > ShrinkTarget
  /\ \E k \in Stored(listing) :
       /\ files' = [files EXCEPT ![k] = None]
       /\ listing' = [listing EXCEPT ![k] = None]
  /\ UNCHANGED <<total, due, callVars, mpc, goal, rest, sum, faults, missVars>>

EvictDone ==
  /\ mpc = "evict" /\ Bytes(listing) <= ShrinkTarget
  /\ BeginScan("shrink")
  /\ UNCHANGED <<files, total, due, callVars, faults, missed>>

\* Mutant: total is set to `min` although evict_with has failed.
EvictFailsAssumed ==
  /\ mpc = "evict" /\ Fault
  /\ mpc' = "idle" /\ goal' = "report" /\ listing' = NoFiles
  /\ total' = ShrinkTarget
  /\ UNCHANGED <<files, due, callVars, rest, sum, missVars>>

\* evict_with fails half way: shrink returns an error and total stays as it was.
EvictFails ==
  /\ mpc = "evict" /\ Fault
  /\ mpc' = "idle" /\ goal' = "report" /\ listing' = NoFiles
  /\ UNCHANGED <<files, total, due, callVars, rest, sum, missVars>>

-----------------------------------------------------------------------------
\* The process ends at any moment; the files survive.
Crash ==
  /\ mpc # "down" /\ Fault
  /\ mpc' = "down" /\ goal' = "new" /\ total' = 0 /\ due' = FALSE
  /\ saves' = [s \in Savers |-> None] /\ loads' = [l \in Loaders |-> None]
  /\ lone' = {} /\ rest' = {} /\ sum' = 0 /\ listing' = NoFiles
  /\ missed' = FALSE /\ missing' = FALSE
  /\ UNCHANGED <<files, nsaves>>

\* FileSystemCache::new.
Reopen == /\ mpc = "down" /\ BeginScan("new")
          /\ UNCHANGED <<files, total, due, callVars, faults, missed>>

-----------------------------------------------------------------------------
SaveStep(s) == \/ \E k \in Keys, c \in Contents : SaveBegin(s, k, c)
               \/ Write(s) \/ Count(s) \/ Lose(s)

LoadStep(l) == \/ \E k \in Keys : LoadBegin(l, k)
               \/ Read(l) \/ LoadReturns(l)

ShrinkStep == Report \/ Compare \/ EvictNext \/ EvictDone

MainStep == ScanEntry \/ StoreSize \/ ShrinkStep

Next == \/ \E s \in Savers : SaveStep(s)
        \/ \E l \in Loaders : LoadStep(l)
        \/ MainStep \/ HourPasses \/ EvictFails \/ Crash \/ Reopen

\* The main thread runs on and calls try_shrink_db every so often, and hours
\* pass.  Nobody has to save, load, fail or restart.
Fairness == WF_vars(MainStep) /\ WF_vars(HourPasses)

Spec == Init /\ [][Next]_vars /\ Fairness

-----------------------------------------------------------------------------
(***************************************************************************)
(* Properties.                                                             *)
(***************************************************************************)
\* Type correctness of the files, the counter and the operations in progress in
\* fs.rs.
TypeOK ==
  /\ files \in [Keys -> Blobs \cup {None}]
  /\ total \in Nat /\ due \in BOOLEAN
  /\ saves \in [Savers -> SaveOp \cup {None}]
  /\ loads \in [Loaders -> LoadOp \cup {None}]
  /\ mpc \in {"down", "idle", "compare", "scan", "evict"}
  /\ goal \in {"new", "report", "shrink"}
  /\ rest \in SUBSET Keys /\ sum \in Nat
  /\ listing \in [Keys -> Blobs \cup {None}]
  /\ nsaves \in 0 .. MaxSaves /\ faults \in 0 .. MaxFaults
  /\ lone \in SUBSET Savers
  /\ missed \in BOOLEAN /\ missing \in BOOLEAN

\* What report says, which is total alone, falls short of the files at most by the
\* saves that have written theirs and are about to add it (Pending; by nothing
\* while there is none), unless a save was counted during the scan that produced
\* total, was written but never counted, or the iterator met an error: re-saves,
\* saves written during a scan and counted after it, failed saves and evictions
\* that fail half way add nothing to what is missing.
TotalCoversFiles == Up /\ ~missed => total + Pending >= Bytes(files)

\* Whatever was lost to total, the hourly scan brings it back: once saves and
\* faults are over total is, and stays, what the files weigh.
TotalHeals == <>[](mpc = "down" \/ total = Bytes(files))

-----------------------------------------------------------------------------
(***************************************************************************)
(* FsCache implements ImageCache.  What a load of a key may find is what   *)
(* its file holds, and what a save under way is about to write there.      *)
(***************************************************************************)
Held(k) == ({files[k]} \cap Contents) \cup {saves[s].content : s \in Saving(k)}

held == [k \in Keys |-> Held(k)]

\* The calls under way, as their callers see them.
SaveCalls == [s \in Savers |->
                IF saves[s] = None THEN None
                ELSE [key |-> saves[s].key, content |-> saves[s].content,
                      lone |-> s \in lone]]

LoadCalls == [l \in Loaders |->
                IF loads[l] = None THEN None
                ELSE [key |-> loads[l].key, bytes |-> loads[l].found,
                      sum |-> loads[l].found]]

ASSUME CallsAssumption ==
  None \notin [key : Keys, content : Contents, lone : BOOLEAN]
            \cup [key : Keys, bytes : Contents \cup {None},
                  sum : Contents \cup {None}]

Trait == INSTANCE ImageCache WITH saves <- SaveCalls, loads <- LoadCalls,
                                  errors <- faults

\* save_to_db and read_from_db keep the promise of the ImageCache trait against
\* the evictor, lost tasks, failures and kills: a hit is an image saved under its
\* key, and once a save that met no other save of its key returns true nothing
\* older is found again.
ImplementsImageCache == Trait!Spec

=============================================================================
