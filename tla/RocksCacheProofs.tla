--------------------------- MODULE RocksCacheProofs ---------------------------
(***************************************************************************)
(* Theorems about RocksCache, for every set of keys, payloads, savers and  *)
(* loaders and every bound.                                                *)
(***************************************************************************)
EXTENDS RocksCache, SequenceTheorems, SumTheorems, TLAPS

\* What the iterators, the queue and drop_entry promise beyond their types: the
\* keys yet to be yielded are stored in the snapshot, 'evictor never takes the
\* head of an empty queue, and only a drop can be half done.
IterOK == /\ \A k \in rest : snap[k] # None
          /\ mpc = "evict" => acc # <<>>
          /\ half => victim # None

TypeInv == TypeOK /\ IterOK

USE DEF ColumnFamily, saveLog

\* Counters stay within the u64: every result of % U64 is in range.
LEMMA ModType ==
  ASSUME NEW x \in Int
  PROVE  x % U64 \in 0 .. U64 - 1
  BY BoundsAssumption

\* An image has a size (bytes_len).
LEMMA SizeType ==
  ASSUME NEW e \in Entry
  PROVE  Size[e.content] \in Nat
  BY SizeAssumption DEF Entry

\* Marking the saves of a key as contended keeps them saves in progress.
LEMMA ContendType ==
  ASSUME TypeOK, NEW k \in Keys
  PROVE  /\ Contend(k) \in [Savers -> SaveOp \cup {None}]
         /\ \A s \in Savers : (Contend(k)[s] = None) <=> (saves[s] = None)
  <1>1. ASSUME NEW s \in Savers, s \in Saving(k)
        PROVE  [saves[s] EXCEPT !.alone = FALSE] \in SaveOp
    BY <1>1 DEF Saving, TypeOK, SaveOp
  <1> QED BY <1>1, MarkersAssumption DEF Contend, Saving, TypeOK

\* An opened database has the types.
LEMMA InitType == Init => TypeInv
  <1> SUFFICES ASSUME Init PROVE TypeInv
    OBVIOUS
  <1>1. meta \in [Keys -> Entry \cup {Garbled, None}]
    BY PriorAssumption DEF Init
  <1>2. /\ 0 \in 0 .. U64 - 1 /\ 0 \in 0 .. MaxSaves /\ 0 \in 0 .. MaxFaults
        /\ <<>> \in Seq(Queued)
    BY BoundsAssumption
  <1> QED BY <1>1, <1>2 DEF Init, TypeInv, TypeOK, IterOK, NoSnap

\* save_entry, up to its two puts, keeps the types.
LEMMA SaveBeginType ==
  ASSUME TypeInv, NEW s \in Savers, NEW k \in Keys, NEW e \in Entry,
         SaveBegin(s, k, e)
  PROVE  TypeInv'
  <1> USE DEF TypeInv
  <1>1. dbSize' \in 0 .. U64 - 1
    <2>1. dbSize + Size[e.content] \in Int
      BY SizeType, BoundsAssumption DEF TypeOK
    <2> QED BY <2>1, ModType DEF SaveBegin
  <1>2. saves' \in [Savers -> SaveOp \cup {None}]
    BY ContendType DEF SaveBegin, SaveOp
  <1>3. loads' \in [Loaders -> LoadOp \cup {None}]
    <2>1. ASSUME NEW l \in Loaders, loads[l] # None
          PROVE  [loads[l] EXCEPT !.clean = FALSE] \in LoadOp
      BY <2>1 DEF TypeOK, LoadOp
    <2> QED BY <2>1 DEF SaveBegin, TypeOK
  <1> QED BY <1>1, <1>2, <1>3, BoundsAssumption
          DEF SaveBegin, TypeOK, IterOK, dbVars, iterVars, dropVars

\* A put of save_entry, done or failed, keeps the types.
LEMMA PutType ==
  ASSUME TypeInv, NEW s \in Savers, NEW cf \in ColumnFamily,
         Put(s, cf) \/ PutFails(s, cf)
  PROVE  TypeInv'
  <1> USE DEF TypeInv
  <1>1. saves[s] \in SaveOp
    BY DEF Put, PutFails, TypeOK
  <1>2. ASSUME NEW alone \in BOOLEAN
        PROVE  AfterPut(s, cf, alone) \in SaveOp \cup {None}
    BY <1>1 DEF AfterPut, SaveOp
  <1>3. CASE Put(s, cf)
    <2>1. AfterPut(s, cf, saves[s].alone) \in SaveOp \cup {None}
      BY <1>1, <1>2 DEF SaveOp
    <2>2. /\ images' \in [Keys -> Contents \cup {None}]
          /\ meta' \in [Keys -> Entry \cup {Garbled, None}]
      BY <1>1, <1>3 DEF Put, TypeOK, SaveOp, Entry
    <2> QED BY <1>1, <1>3, <2>1, <2>2 DEF Put, TypeOK, IterOK, iterVars, dropVars
  <1>4. CASE PutFails(s, cf)
    <2>1. AfterPut(s, cf, FALSE) \in SaveOp \cup {None}
      BY <1>2
    <2>2. faults' \in 0 .. MaxFaults
      BY <1>4, BoundsAssumption DEF PutFails, TypeOK
    <2> QED BY <1>1, <1>4, <2>1, <2>2
            DEF PutFails, TypeOK, IterOK, SaveOp, dbVars, iterVars, dropVars
  <1> QED BY <1>3, <1>4

\* The steps of load_entry keep the types.
LEMMA LoadType ==
  ASSUME TypeInv, NEW l \in Loaders, LoadStep(l)
  PROVE  TypeInv'
  <1> USE DEF TypeInv, TypeOK, IterOK, dbVars, iterVars, dropVars, history
  <1>1. ASSUME NEW k \in Keys, LoadBegin(l, k)  PROVE TypeInv'
    BY <1>1 DEF LoadBegin, LoadOp
  <1>2. ASSUME NEW cf \in ColumnFamily, Get(l, cf)  PROVE TypeInv'
    <2>1. loads[l] \in LoadOp
      BY <1>2 DEF Get
    <2>2. AfterGet(loads[l], cf) \in LoadOp
      BY <2>1 DEF LoadOp, AfterGet
    <2>3. loads' \in [Loaders -> LoadOp \cup {None}]
      BY <1>2, <2>2 DEF Get
    <2> QED BY <1>2, <2>3 DEF Get
  <1>3. CASE LoadReturns(l)
    BY <1>3, BoundsAssumption DEF LoadReturns
  <1> QED BY <1>1, <1>2, <1>3 DEF LoadStep

\* Entering drop_entry keeps the types.
LEMMA BeginDropType ==
  ASSUME TypeInv, NEW k \in Keys, BeginDrop(k)
  PROVE  /\ saves' \in [Savers -> SaveOp \cup {None}]
         /\ victim' \in Keys \cup {None} /\ half' = FALSE
         /\ disturbed' \in SUBSET Keys
  BY ContendType DEF TypeInv, TypeOK, BeginDrop

\* The steps of try_shrink_db that neither scan, queue nor drop.
LEMMA CallType ==
  ASSUME TypeInv,
         \/ StartReport \/ HourPasses \/ RefreshSize \/ ReportAndCompare
         \/ ShrinkLoad \/ Reopen \/ FinishShrink \/ StoreSize
  PROVE  TypeInv'
  <1> USE DEF TypeInv, TypeOK, IterOK, dbVars, iterVars, dropVars, NoDrop,
              Return, NoSnap, MidLoop
  <1>1. 0 \in 0 .. U64 - 1 /\ <<>> \in Seq(Queued)
    BY BoundsAssumption
  <1>2. CASE StartReport
    BY <1>2 DEF StartReport
  <1>8. CASE HourPasses
    BY <1>8 DEF HourPasses
  <1>7. CASE RefreshSize \/ Reopen
    BY <1>7 DEF RefreshSize, Reopen
  <1>3. CASE ReportAndCompare
    BY <1>1, <1>3 DEF ReportAndCompare
  <1>4. CASE ShrinkLoad
    BY <1>4 DEF ShrinkLoad
  <1>5. CASE FinishShrink
    BY <1>1, <1>5 DEF FinishShrink
  <1>6. CASE StoreSize
    BY <1>1, <1>6 DEF StoreSize
  <1> QED BY <1>2, <1>3, <1>4, <1>5, <1>6, <1>7, <1>8

\* Opening an iterator keeps the types.
LEMMA OpenType ==
  ASSUME TypeInv, OpenFetch \/ OpenGather
  PROVE  TypeInv'
  <1> USE DEF TypeInv, TypeOK, IterOK, dbVars, iterVars, dropVars, NoDrop,
              Stored, MidLoop
  <1>1. 0 \in 0 .. U64 - 1 /\ <<>> \in Seq(Queued)
    BY BoundsAssumption
  <1>2. CASE OpenFetch
    BY <1>1, <1>2 DEF OpenFetch
  <1>3. CASE OpenGather
    BY <1>1, <1>3 DEF OpenGather
  <1> QED BY <1>2, <1>3

\* A step of the loop of fetch_real_size keeps the types.
LEMMA ScanEntryType ==
  ASSUME TypeInv, ScanEntry
  PROVE  TypeInv'
  <1> USE DEF TypeInv, iterVars, dropVars, dbVars
  <1>1. PICK k \in rest :
          /\ rest' = rest \ {k} /\ UNCHANGED <<snap, skipped>>
          /\ \/ DropGarbled(k)
             \/ /\ snap[k] # Garbled
                /\ sz' = (sz + Size[snap[k].content]) % U64
                /\ NoDrop
                /\ UNCHANGED <<dbSize, due, mpc, ctx, acc, faults, raced, racing>>
    BY DEF ScanEntry
  <1>2. k \in Keys
    BY DEF TypeOK
  <1>3. mpc = "scan"
    BY DEF ScanEntry
  <1>4. CASE DropGarbled(k)
    BY <1>1, <1>2, <1>3, <1>4, BeginDropType DEF DropGarbled, TypeOK, IterOK
  <1>5. CASE /\ snap[k] # Garbled
             /\ sz' = (sz + Size[snap[k].content]) % U64
             /\ NoDrop
             /\ UNCHANGED <<dbSize, due, mpc, ctx, acc, faults, raced, racing>>
    <2>1. snap[k] \in Entry
      BY <1>1, <1>2, <1>5 DEF TypeOK, IterOK
    <2>2. sz + Size[snap[k].content] \in Int
      BY <2>1, SizeType, BoundsAssumption DEF TypeOK
    <2>3. sz' \in 0 .. U64 - 1
      BY <1>5, <2>2, ModType
    <2> QED BY <1>1, <1>3, <1>5, <2>3 DEF TypeOK, IterOK, NoDrop
  <1> QED BY <1>1, <1>4, <1>5

\* An iterator that ends on an error keeps the types.
LEMMA IteratorFailsType ==
  ASSUME TypeInv, IteratorFails
  PROVE  TypeInv'
  <1>1. faults' \in 0 .. MaxFaults
    BY BoundsAssumption DEF IteratorFails, TypeInv, TypeOK
  <1>2. /\ snap' \in [Keys -> Entry \cup {Garbled, None}]
        /\ skipped' \in SUBSET Keys /\ racing' \in BOOLEAN
    BY DEF IteratorFails, TypeInv, TypeOK
  <1> QED BY <1>1, <1>2
          DEF IteratorFails, NoDrop, dbVars, dropVars, TypeInv, TypeOK, IterOK

\* What the accumulator of find_top_entries may become keeps its type.
LEMMA OfferType ==
  ASSUME acc \in Seq(Queued), NEW x \in Queued, Offer(x)
  PROVE  acc' \in Seq(Queued)
  <1>1. CASE acc' = Append(acc, x)
    BY <1>1
  <1>2. CASE UNCHANGED acc
    BY <1>2
  <1>3. ASSUME NEW i \in Displaceable(x), acc' = [acc EXCEPT ![i] = x]
        PROVE  acc' \in Seq(Queued)
    BY <1>3 DEF Displaceable
  <1> QED BY <1>1, <1>2, <1>3 DEF Offer

\* A sorting of a queue is a queue of the same length.
LEMMA SortingsType ==
  ASSUME NEW q \in Seq(Queued), NEW r \in Sortings(q)
  PROVE  r \in Seq(Queued) /\ Len(r) = Len(q) /\ Range(r) = Range(q)
  <1>1. /\ r \in [1 .. Len(q) -> Range(q)]
        /\ \A t \in Range(q) : \E i \in 1 .. Len(q) : r[i] = t
    BY DEF Sortings, Bijection, Injection, Surjection
  <1>2. Range(q) \subseteq Queued
    BY DEF Range
  <1> QED BY <1>1, <1>2 DEF Range

\* A step of the loop of find_top_entries keeps the types.
LEMMA GatherType ==
  ASSUME TypeInv, GatherEntry
  PROVE  TypeInv'
  <1> USE DEF TypeInv, iterVars, dropVars, dbVars
  <1>1. PICK k \in rest :
          /\ rest' = rest \ {k} /\ UNCHANGED <<snap, skipped>>
          /\ \/ DropGarbled(k)
             \/ /\ snap[k] # Garbled
                /\ Offer([key |-> k, entry |-> snap[k]])
                /\ NoDrop
                /\ UNCHANGED <<dbSize, due, mpc, ctx, sz, faults, raced, racing>>
    BY DEF GatherEntry
  <1>2. k \in Keys /\ mpc = "gather"
    BY DEF TypeOK, GatherEntry
  <1>3. CASE DropGarbled(k)
    BY <1>1, <1>2, <1>3, BeginDropType DEF DropGarbled, TypeOK, IterOK
  <1>4. CASE /\ snap[k] # Garbled
             /\ Offer([key |-> k, entry |-> snap[k]])
             /\ NoDrop
             /\ UNCHANGED <<dbSize, due, mpc, ctx, sz, faults, raced, racing>>
    <2>1. [key |-> k, entry |-> snap[k]] \in Queued
      BY <1>1, <1>2, <1>4 DEF TypeOK, IterOK, Queued
    <2>2. acc' \in Seq(Queued)
      BY <1>4, <2>1, OfferType DEF TypeOK
    <2> QED BY <1>1, <1>2, <1>4, <2>2 DEF TypeOK, IterOK, NoDrop
  <1> QED BY <1>1, <1>3, <1>4

\* Sorting the queue and entering the eviction loop keep the types.
LEMMA SortType ==
  ASSUME TypeInv, SortQueue
  PROVE  TypeInv'
  <1> USE DEF TypeInv, TypeOK
  <1>1. acc' \in Seq(Queued) /\ Len(acc') = Len(acc)
    BY SortingsType DEF SortQueue
  <1>2. acc # <<>> => acc' # <<>>
    BY <1>1
  <1> QED BY <1>1, <1>2
          DEF SortQueue, NoDrop, NoSnap, MidLoop, IterOK, dbVars, dropVars

\* The two deletes of drop_entry, and its failure, keep the types.
LEMMA DropType ==
  ASSUME TypeInv, EvictNext \/ DropImages \/ DropMeta \/ DropFails
  PROVE  TypeInv'
  <1> USE DEF TypeInv, TypeOK
  <1>1. CASE EvictNext
    <2>1. Head(acc) \in Queued
      BY <1>1 DEF EvictNext, IterOK
    <2>2. Head(acc).key \in Keys
      BY <2>1 DEF Queued
    <2> QED BY <1>1, <2>2, BeginDropType DEF EvictNext, IterOK, dbVars, iterVars
  <1>2. CASE DropImages
    BY <1>2 DEF DropImages, IterOK, iterVars, history
  <1>3. CASE DropMeta
    <2>1. /\ meta' \in [Keys -> Entry \cup {Garbled, None}]
          /\ victim' = None /\ half' = FALSE
      BY <1>3 DEF DropMeta
    <2>2. ASSUME mpc = "evict", CountDown
          PROVE  /\ sz' \in 0 .. U64 - 1 /\ acc' \in Seq(Queued)
                 /\ mpc' \in {"finish", "open", "evict"}
                 /\ mpc' = "evict" => acc' # <<>>
      <3>1. Head(acc) \in Queued /\ Len(acc) \in Nat \ {0}
        BY <2>2 DEF IterOK
      <3>2. Head(acc).entry \in Entry
        BY <3>1 DEF Queued
      <3>3. sz + U64 - Size[Head(acc).entry.content] \in Int
        BY <3>2, SizeType, BoundsAssumption
      <3>4. sz' \in 0 .. U64 - 1
        BY <2>2, <3>3, ModType DEF CountDown
      <3>5. acc' \in Seq(Queued) /\ Len(acc') = Len(acc) - 1
        BY <2>2, <3>1 DEF CountDown, IterOK
      <3>6. Len(acc) # 1 => acc' # <<>>
        BY <3>1, <3>5
      <3> QED BY <2>2, <3>4, <3>5, <3>6 DEF CountDown
    <2> QED BY <1>3, <2>1, <2>2 DEF DropMeta, IterOK, MidLoop, iterVars, history
  <1>4. CASE DropFails
    <2>1. /\ 0 \in 0 .. U64 - 1 /\ <<>> \in Seq(Queued)
          /\ faults' \in 0 .. MaxFaults
      BY <1>4, BoundsAssumption DEF DropFails
    <2> QED BY <1>4, <2>1 DEF DropFails, IterOK, Return, NoSnap, dbVars
  <1> QED BY <1>1, <1>2, <1>3, <1>4

\* The end of the process and its restart keep the types.
LEMMA CrashType ==
  ASSUME TypeInv, Crash
  PROVE  TypeInv'
  <1> USE DEF TypeInv, TypeOK
  <1>1. /\ 0 \in 0 .. U64 - 1 /\ <<>> \in Seq(Queued)
        /\ faults' \in 0 .. MaxFaults
    BY BoundsAssumption DEF Crash
  <1>2. ASSUME NEW s \in Savers, saves[s] # None  PROVE saves[s].key \in Keys
    BY <1>2 DEF SaveOp
  <1>3. half => victim \in Keys
    BY DEF IterOK
  <1>4. disturbed' \in SUBSET Keys
    BY <1>2, <1>3 DEF Crash
  <1> QED BY <1>1, <1>4 DEF Crash, IterOK, NoSnap, dbVars

\* Every step keeps the types.
LEMMA NextType == TypeInv /\ [Next]_vars => TypeInv'
  <1> SUFFICES ASSUME TypeInv, [Next]_vars  PROVE TypeInv'
    OBVIOUS
  <1>1. ASSUME NEW s \in Savers, SaveStep(s)  PROVE TypeInv'
    <2>1. ASSUME NEW k \in Keys, NEW e \in Entry, SaveBegin(s, k, e)
          PROVE  TypeInv'
      BY <2>1, SaveBeginType
    <2>2. ASSUME NEW cf \in ColumnFamily, Put(s, cf) \/ PutFails(s, cf)
          PROVE  TypeInv'
      BY <2>2, PutType
    <2> QED BY <1>1, <2>1, <2>2 DEF SaveStep
  <1>2. ASSUME NEW l \in Loaders, LoadStep(l)  PROVE TypeInv'
    BY <1>2, LoadType
  <1>3. CASE MainStep
    BY <1>3, CallType, OpenType, ScanEntryType, GatherType, SortType, DropType
    DEF MainStep, ScanStep, EvictStep
  <1>4. CASE StartReport \/ HourPasses \/ DropFails \/ IteratorFails \/ Reopen
    BY <1>4, CallType, DropType, IteratorFailsType
  <1>5. CASE Crash
    BY <1>5, CrashType
  <1>6. CASE UNCHANGED vars
    BY <1>6 DEF vars, TypeInv, TypeOK, IterOK
  <1> QED BY <1>1, <1>2, <1>3, <1>4, <1>5, <1>6 DEF Next

\* The column families, counters and operations in progress of rocks.rs are
\* well typed in every reachable state.
THEOREM TypeCorrect == Spec => []TypeOK
  <1>1. TypeInv => TypeOK
    BY DEF TypeInv
  <1> QED BY <1>1, InitType, NextType, PTL DEF Spec

-----------------------------------------------------------------------------
(***************************************************************************)
(* The column families agree.  ColumnsAgree says nothing of a key while a  *)
(* save or a drop is at work on it, so the inductive invariant also says   *)
(* what each of them has already done: a save that has had its key to      *)
(* itself since it began, a save that has not, and a drop.                 *)
(***************************************************************************)
Active(s, k) == saves[s] # None /\ saves[s].key = k

\* A save that met no other operation on its key has the key to itself, and
\* what it has put is still there.
LoneSaves ==
  \A s \in Savers : (saves[s] # None /\ saves[s].alone) =>
    /\ \A t \in Savers : Active(t, saves[s].key) => t = s
    /\ victim # saves[s].key
    /\ "images" \notin saves[s].todo
         => images[saves[s].key] = saves[s].entry.content
    /\ "meta" \notin saves[s].todo => meta[saves[s].key] = saves[s].entry

\* Any other save has disturbed its key.
ContendedSaves ==
  \A s \in Savers : (saves[s] # None /\ ~saves[s].alone)
                      => saves[s].key \in disturbed

\* drop_entry on an undisturbed key is alone there.
DropAlone ==
  (victim # None /\ victim \notin disturbed) =>
    /\ \A s \in Savers : ~Active(s, victim)
    /\ half => images[victim] = None

AgreeInv == LoneSaves /\ ContendedSaves /\ DropAlone /\ ColumnsAgree

\* A save of a key is one under way.
LEMMA SavingActive ==
  \A k : Saving(k) = {s \in Savers : Active(s, k)}
  BY DEF Saving, Active

\* A step outside the column families, the saves and drop_entry keeps AgreeInv.
LEMMA AgreeFrame ==
  ASSUME AgreeInv, UNCHANGED <<images, meta, saves, victim, half, disturbed>>
  PROVE  AgreeInv'
  BY DEF AgreeInv, LoneSaves, ContendedSaves, DropAlone, ColumnsAgree, Agree,
         Active, Saving

\* A save that begins keeps AgreeInv: it is contended, or alone on its key.
LEMMA SaveBeginAgree ==
  ASSUME TypeInv, AgreeInv, NEW s \in Savers, NEW k \in Keys, NEW e \in Entry,
         SaveBegin(s, k, e)
  PROVE  AgreeInv'
  <1> DEFINE overlap == Saving(k) # {} \/ victim = k
             new == [key |-> k, entry |-> e, todo |-> ColumnFamily,
                     alone |-> ~overlap]
  <1>1. /\ saves[s] = None
        /\ saves' = [Contend(k) EXCEPT ![s] = new]
        /\ disturbed' = IF overlap THEN disturbed \cup {k} ELSE disturbed
        /\ UNCHANGED <<images, meta, victim, half>>
    BY DEF SaveBegin, dbVars, dropVars
  <1>0. /\ new \in SaveOp /\ new.key = k /\ new.todo = ColumnFamily
        /\ new.alone <=> ~overlap
    BY DEF SaveOp
  <1> HIDE DEF new, overlap
  <1>2. saves'[s] = new /\ new # None
    BY <1>0, <1>1, MarkersAssumption DEF Contend
  <1>3. ASSUME NEW t \in Savers, t # s
        PROVE  /\ (saves'[t] = None) <=> (saves[t] = None)
               /\ ~Active(t, k) => saves'[t] = saves[t]
               /\ Active(t, k) => /\ saves'[t] # None
                                  /\ ~saves'[t].alone
                                  /\ saves'[t].key = k
    <2>1. saves'[t] = Contend(k)[t]
      BY <1>1, <1>3 DEF Contend
    <2>2. Active(t, k) => saves[t] \in SaveOp
      BY DEF Active, TypeInv, TypeOK
    <2> QED BY <2>1, <2>2, ContendType DEF Contend, Saving, Active, SaveOp, TypeInv
  <1>4. ~overlap => victim # k /\ \A t \in Savers : ~Active(t, k)
    BY SavingActive DEF overlap
  <1>5. overlap => k \in disturbed'
    BY <1>1
  <1>6. disturbed \subseteq disturbed'
    BY <1>1
  <1>7. ASSUME NEW t \in Savers, t # s
        PROVE  Active(t, k)' => Active(t, k)
    <2>1. CASE ~Active(t, k)
      <3>1. saves'[t] = saves[t]
        BY <1>3, <1>7, <2>1
      <3> QED BY <2>1, <3>1 DEF Active
    <2> QED BY <2>1
  <1>8. LoneSaves'
    <2> SUFFICES ASSUME NEW t \in Savers, saves'[t] # None, saves'[t].alone
                 PROVE  (/\ \A u \in Savers : Active(u, saves[t].key) => u = t
                         /\ victim # saves[t].key
                         /\ "images" \notin saves[t].todo
                              => images[saves[t].key] = saves[t].entry.content
                         /\ "meta" \notin saves[t].todo
                              => meta[saves[t].key] = saves[t].entry)'
      BY DEF LoneSaves
    <2>1. CASE t = s
      <3>1. ~overlap
        BY <1>0, <1>2, <2>1
      <3>2. \A u \in Savers : Active(u, k)' => u = s
        BY <1>4, <1>7, <3>1
      <3> QED BY <1>0, <1>1, <1>2, <1>4, <2>1, <3>1, <3>2
    <2>2. CASE t # s
      <3>1. saves'[t] = saves[t] /\ ~Active(t, k)
        BY <1>3, <2>2
      <3>2. saves[t].key # k
        BY <3>1 DEF Active
      <3>3. ASSUME NEW u \in Savers, Active(u, saves[t].key)'
            PROVE  u = t
        <4>1. u # s
          BY <1>0, <1>2, <3>1, <3>2, <3>3 DEF Active
        <4>2. Active(u, saves[t].key)
          BY <1>3, <3>1, <3>2, <3>3, <4>1 DEF Active
        <4> QED BY <3>1, <4>2 DEF AgreeInv, LoneSaves
      <3> QED BY <1>1, <3>1, <3>3 DEF AgreeInv, LoneSaves
    <2> QED BY <2>1, <2>2
  <1>9. ContendedSaves'
    <2> SUFFICES ASSUME NEW t \in Savers, saves'[t] # None, ~saves'[t].alone
                 PROVE  saves'[t].key \in disturbed'
      BY DEF ContendedSaves
    <2>1. CASE t = s
      BY <1>0, <1>2, <1>5, <2>1
    <2>2. CASE t # s /\ Active(t, k)
      <3>1. overlap
        BY <2>2, <1>4
      <3> QED BY <1>3, <1>5, <2>2, <3>1
    <2>3. CASE t # s /\ ~Active(t, k)
      BY <1>3, <1>6, <2>3 DEF AgreeInv, ContendedSaves
    <2> QED BY <2>1, <2>2, <2>3
  <1>10. DropAlone'
    <2> SUFFICES ASSUME victim # None, victim \notin disturbed'
                 PROVE  /\ \A t \in Savers : ~Active(t, victim)'
                        /\ half => images[victim] = None
      BY <1>1 DEF DropAlone, Active
    <2>1. victim # k
      BY <1>1 DEF overlap
    <2>2. \A t \in Savers : ~Active(t, victim)
      BY <1>6 DEF AgreeInv, DropAlone
    <2>3. ASSUME NEW t \in Savers PROVE ~Active(t, victim)'
      BY <1>0, <1>1, <1>2, <1>3, <2>1, <2>2 DEF Active
    <2> QED BY <1>6, <2>3 DEF AgreeInv, DropAlone
  <1>11. ColumnsAgree'
    <2> SUFFICES ASSUME NEW j \in Keys, j \notin disturbed', Saving(j)' = {},
                        ~(half /\ victim = j)
                 PROVE  Agree(j)
      BY <1>1 DEF ColumnsAgree, Agree
    <2>1. j # k
      BY <1>0, <1>2 DEF Saving
    <2>2. \A t \in Savers : ~Active(t, j)
      BY <1>1, <1>3 DEF Saving, Active
    <2> QED BY <1>6, <2>2, SavingActive DEF AgreeInv, ColumnsAgree
  <1> QED BY <1>8, <1>9, <1>10, <1>11 DEF AgreeInv

\* What a put, successful or not, does to the save it belongs to.
LEMMA PutOp ==
  ASSUME TypeInv, NEW s \in Savers, NEW cf \in ColumnFamily,
         NEW alone \in BOOLEAN, cf \in saves[s].todo, saves[s] # None,
         saves' = [saves EXCEPT ![s] = AfterPut(s, cf, alone)]
  PROVE  /\ \A t \in Savers \ {s} : saves'[t] = saves[t]
         /\ saves'[s] = None <=> saves[s].todo = {cf}
         /\ saves'[s] # None =>
              /\ saves'[s].key = saves[s].key
              /\ saves'[s].entry = saves[s].entry
              /\ saves'[s].todo = saves[s].todo \ {cf}
              /\ saves'[s].alone <=> alone
         /\ \A t \in Savers, k \in Keys : Active(t, k)' => Active(t, k)
  <1>1. saves[s] \in SaveOp
    BY DEF TypeInv, TypeOK
  <1> DEFINE left == saves[s].todo \ {cf}
             new == [saves[s] EXCEPT !.todo = left, !.alone = alone]
  <1>2. /\ new \in SaveOp /\ new.key = saves[s].key
        /\ new.entry = saves[s].entry /\ new.todo = left
        /\ new.alone <=> alone
    BY <1>1 DEF SaveOp
  <1>3. saves'[s] = IF left = {} THEN None ELSE new
    BY DEF AfterPut, TypeInv, TypeOK
  <1>4. \A t \in Savers \ {s} : saves'[t] = saves[t]
    BY DEF TypeInv, TypeOK
  <1> HIDE DEF new
  <1>5. left = {} <=> saves[s].todo = {cf}
    OBVIOUS
  <1>6. new # None
    BY <1>2, MarkersAssumption
  <1>7. ASSUME NEW t \in Savers, NEW k \in Keys, Active(t, k)'
        PROVE  Active(t, k)
    <2>1. CASE t = s
      BY <1>2, <1>3, <1>7, <2>1 DEF Active
    <2>2. CASE t # s
      BY <1>4, <1>7, <2>2 DEF Active
    <2> QED BY <2>1, <2>2
  <1> QED BY <1>2, <1>3, <1>4, <1>5, <1>6, <1>7

\* A put keeps AgreeInv: the second put of a lone save makes the key agree.
LEMMA PutAgree ==
  ASSUME TypeInv, AgreeInv, NEW s \in Savers, NEW cf \in ColumnFamily,
         Put(s, cf)
  PROVE  AgreeInv'
  <1> DEFINE last == saves[s].todo = {cf}
  <1>0. PICK k \in Keys, e \in Entry : k = saves[s].key /\ e = saves[s].entry
    BY DEF Put, TypeInv, TypeOK, SaveOp
  <1>1. /\ saves[s] # None /\ cf \in saves[s].todo
        /\ saves' = [saves EXCEPT ![s] = AfterPut(s, cf, saves[s].alone)]
        /\ disturbed' = IF last /\ saves[s].alone
                          THEN disturbed \ {k} ELSE disturbed
        /\ UNCHANGED <<victim, half>>
    BY <1>0 DEF Put, dropVars
  <1>2. /\ saves[s] \in SaveOp
        /\ saves[s].alone \in BOOLEAN /\ saves[s].todo \subseteq ColumnFamily
    BY <1>1 DEF TypeInv, TypeOK, SaveOp
  <1>3. /\ \A t \in Savers \ {s} : saves'[t] = saves[t]
        /\ saves'[s] = None <=> last
        /\ saves'[s] # None =>
              /\ saves'[s].key = k
              /\ saves'[s].entry = e
              /\ saves'[s].todo = saves[s].todo \ {cf}
              /\ saves'[s].alone <=> saves[s].alone
        /\ \A t \in Savers, j \in Keys : Active(t, j)' => Active(t, j)
    BY <1>0, <1>1, <1>2, PutOp
  <1>4. /\ cf = "images" => images' = [images EXCEPT ![k] = e.content]
                            /\ meta' = meta
        /\ cf = "meta" => meta' = [meta EXCEPT ![k] = e] /\ images' = images
    BY <1>0 DEF Put
  <1>5. \A j \in Keys \ {k} : images'[j] = images[j] /\ meta'[j] = meta[j]
    BY <1>4 DEF TypeInv, TypeOK
  <1>6. /\ cf = "images" => images'[k] = e.content /\ meta'[k] = meta[k]
        /\ cf = "meta" => meta'[k] = e /\ images'[k] = images[k]
    BY <1>4 DEF TypeInv, TypeOK
  <1>7. Active(s, k)
    BY <1>0, <1>1 DEF Active
  <1>8. \A t \in Savers : saves[t] # None => saves[t].key \in Keys
    BY DEF TypeInv, TypeOK, SaveOp
  <1> HIDE DEF last
  <1>9. saves[s].alone => /\ \A t \in Savers : Active(t, k) => t = s
                          /\ victim # k
                          /\ "images" \notin saves[s].todo => images[k] = e.content
                          /\ "meta" \notin saves[s].todo => meta[k] = e
    BY <1>0, <1>1 DEF AgreeInv, LoneSaves
  <1>10. LoneSaves'
    <2> SUFFICES ASSUME NEW t \in Savers, saves'[t] # None, saves'[t].alone
                 PROVE  (/\ \A u \in Savers : Active(u, saves[t].key) => u = t
                         /\ victim # saves[t].key
                         /\ "images" \notin saves[t].todo
                              => images[saves[t].key] = saves[t].entry.content
                         /\ "meta" \notin saves[t].todo
                              => meta[saves[t].key] = saves[t].entry)'
      BY DEF LoneSaves
    <2>1. CASE t = s
      <3>1. /\ saves'[t].key = k /\ saves'[t].entry = e
            /\ saves'[t].todo = saves[s].todo \ {cf} /\ saves[s].alone
        BY <1>3, <2>1
      <3>2. \A u \in Savers : Active(u, k)' => u = s
        BY <1>3, <1>9, <3>1
      <3>3. "images" \notin saves'[t].todo => images'[k] = e.content
        BY <1>6, <1>9, <3>1
      <3>4. "meta" \notin saves'[t].todo => meta'[k] = e
        BY <1>6, <1>9, <3>1
      <3> QED BY <1>1, <1>9, <2>1, <3>1, <3>2, <3>3, <3>4
    <2>2. CASE t # s
      <3>1. saves'[t] = saves[t]
        BY <1>3, <2>2
      <3>2. /\ \A u \in Savers : Active(u, saves[t].key) => u = t
            /\ victim # saves[t].key
            /\ "images" \notin saves[t].todo
                 => images[saves[t].key] = saves[t].entry.content
            /\ "meta" \notin saves[t].todo
                 => meta[saves[t].key] = saves[t].entry
        BY <3>1 DEF AgreeInv, LoneSaves
      <3>3. saves[t].key # k
        BY <1>7, <2>2, <3>2
      <3>4. saves[t].key \in Keys
        BY <1>8, <3>1
      <3>5. ASSUME NEW u \in Savers, Active(u, saves[t].key)'  PROVE u = t
        BY <1>3, <3>1, <3>2, <3>4, <3>5 DEF Active
      <3> QED BY <1>1, <1>5, <3>1, <3>2, <3>3, <3>4, <3>5
    <2> QED BY <2>1, <2>2
  <1>11. ContendedSaves'
    <2> SUFFICES ASSUME NEW t \in Savers, saves'[t] # None, ~saves'[t].alone
                 PROVE  saves'[t].key \in disturbed'
      BY DEF ContendedSaves
    <2>1. CASE t = s
      <3>1. saves'[t].key = k /\ ~saves[s].alone
        BY <1>3, <2>1
      <3>2. k \in disturbed
        BY <1>0, <1>1, <3>1 DEF AgreeInv, ContendedSaves
      <3> QED BY <1>1, <3>1, <3>2
    <2>2. CASE t # s
      <3>1. saves'[t] = saves[t]
        BY <1>3, <2>2
      <3>2. saves[t].key \in disturbed
        BY <3>1 DEF AgreeInv, ContendedSaves
      <3>3. saves[s].alone => saves[t].key # k
        BY <1>9, <2>2, <3>1 DEF Active
      <3> QED BY <1>1, <3>1, <3>2, <3>3
    <2> QED BY <2>1, <2>2
  <1>12. DropAlone'
    <2> SUFFICES ASSUME victim # None, victim \notin disturbed'
                 PROVE  /\ \A t \in Savers : ~Active(t, victim)'
                        /\ half => images'[victim] = None
      BY <1>1 DEF DropAlone, Active
    <2>1. victim \notin disturbed
      BY <1>1, <1>9
    <2>2. victim \in Keys
      BY DEF TypeInv, TypeOK
    <2>3. \A t \in Savers : ~Active(t, victim)
      BY <2>1 DEF AgreeInv, DropAlone
    <2>4. victim # k
      BY <1>7, <2>3
    <2>5. \A t \in Savers : ~Active(t, victim)'
      BY <1>1, <1>3, <2>2, <2>3 DEF Active
    <2> QED BY <1>5, <2>1, <2>2, <2>4, <2>5 DEF AgreeInv, DropAlone
  <1>13. ColumnsAgree'
    <2> SUFFICES ASSUME NEW j \in Keys, j \notin disturbed', Saving(j)' = {},
                        ~(half /\ victim = j)
                 PROVE  Agree(j)'
      BY <1>1 DEF ColumnsAgree
    <2>1. \A t \in Savers : ~Active(t, j)'
      BY DEF Saving, Active
    <2>2. CASE j = k
      <3>1. saves'[s] = None
        BY <1>3, <2>1, <2>2 DEF Active
      <3>2. last
        BY <1>3, <3>1
      <3>3. saves[s].alone
        BY <1>0, <1>1, <2>2 DEF AgreeInv, ContendedSaves
      <3>4. images'[k] = e.content /\ meta'[k] = e
        BY <1>6, <1>9, <3>2, <3>3 DEF last
      <3>5. e.content # None /\ e # None
        BY <1>2, MarkersAssumption DEF Entry
      <3> QED BY <2>2, <3>4, <3>5 DEF Agree
    <2>3. CASE j # k
      <3>1. \A t \in Savers : ~Active(t, j)
        <4> SUFFICES ASSUME NEW t \in Savers, Active(t, j) PROVE FALSE
          OBVIOUS
        <4>1. t # s
          BY <1>0, <2>3 DEF Active
        <4> QED BY <1>3, <2>1, <4>1 DEF Active
      <3>2. j \notin disturbed
        BY <1>1, <2>3
      <3>3. Agree(j)
        BY <3>1, <3>2, SavingActive DEF AgreeInv, ColumnsAgree
      <3> QED BY <1>5, <2>3, <3>3 DEF Agree
    <2> QED BY <2>2, <2>3
  <1> QED BY <1>10, <1>11, <1>12, <1>13 DEF AgreeInv

\* A failed put keeps AgreeInv: its key is disturbed from then on.
LEMMA PutFailsAgree ==
  ASSUME TypeInv, AgreeInv, NEW s \in Savers, NEW cf \in ColumnFamily,
         PutFails(s, cf)
  PROVE  AgreeInv'
  <1>0. PICK k \in Keys : k = saves[s].key
    BY DEF PutFails, TypeInv, TypeOK, SaveOp
  <1>1. /\ saves[s] # None /\ cf \in saves[s].todo
        /\ saves' = [saves EXCEPT ![s] = AfterPut(s, cf, FALSE)]
        /\ disturbed' = disturbed \cup {k}
        /\ UNCHANGED <<images, meta, victim, half>>
    BY <1>0 DEF PutFails, dbVars, dropVars
  <1>2. /\ \A t \in Savers \ {s} : saves'[t] = saves[t]
        /\ saves'[s] # None => saves'[s].key = k /\ ~saves'[s].alone
        /\ \A t \in Savers, j \in Keys : Active(t, j)' => Active(t, j)
    BY <1>0, <1>1, PutOp
  <1>3. LoneSaves'
    <2> SUFFICES ASSUME NEW t \in Savers, saves'[t] # None, saves'[t].alone
                 PROVE  (/\ \A u \in Savers : Active(u, saves[t].key) => u = t
                         /\ victim # saves[t].key
                         /\ "images" \notin saves[t].todo
                              => images[saves[t].key] = saves[t].entry.content
                         /\ "meta" \notin saves[t].todo
                              => meta[saves[t].key] = saves[t].entry)'
      BY DEF LoneSaves
    <2>1. saves'[t] = saves[t]
      BY <1>2
    <2>2. saves[t].key \in Keys
      BY <2>1 DEF TypeInv, TypeOK, SaveOp
    <2>3. ASSUME NEW u \in Savers, Active(u, saves[t].key)'  PROVE u = t
      <3>1. Active(u, saves[t].key)
        BY <1>2, <2>1, <2>2, <2>3 DEF Active
      <3> QED BY <2>1, <3>1 DEF AgreeInv, LoneSaves
    <2> QED BY <1>1, <2>1, <2>3 DEF AgreeInv, LoneSaves
  <1>4. ContendedSaves'
    <2> SUFFICES ASSUME NEW t \in Savers, saves'[t] # None, ~saves'[t].alone
                 PROVE  saves'[t].key \in disturbed'
      BY DEF ContendedSaves
    <2>1. CASE t = s
      <3>1. saves'[t].key = k
        BY <1>2, <2>1
      <3>2. k \in disturbed'
        BY <1>1
      <3> QED BY <3>1, <3>2
    <2>2. CASE t # s
      BY <1>1, <1>2, <2>2 DEF AgreeInv, ContendedSaves
    <2> QED BY <2>1, <2>2
  <1>5. DropAlone'
    <2>1. victim # None => victim \in Keys
      BY DEF TypeInv, TypeOK
    <2> QED BY <1>1, <1>2, <2>1 DEF AgreeInv, DropAlone, Active
  <1>6. ColumnsAgree'
    <2> SUFFICES ASSUME NEW j \in Keys, j \notin disturbed', Saving(j)' = {},
                        ~(half /\ victim = j)
                 PROVE  Agree(j)
      BY <1>1 DEF ColumnsAgree, Agree
    <2>1. j # k /\ j \notin disturbed
      BY <1>1
    <2>2. ASSUME NEW t \in Savers PROVE ~Active(t, j)
      <3>1. ~Active(t, j)'
        BY DEF Saving, Active
      <3> QED BY <1>0, <1>2, <2>1, <3>1 DEF Active
    <2> QED BY <2>1, <2>2, SavingActive DEF AgreeInv, ColumnsAgree
  <1> QED BY <1>3, <1>4, <1>5, <1>6 DEF AgreeInv

\* Entering drop_entry keeps AgreeInv.
LEMMA BeginDropAgree ==
  ASSUME TypeInv, AgreeInv, NEW k \in Keys, victim = None, BeginDrop(k),
         UNCHANGED <<images, meta>>
  PROVE  AgreeInv'
  <1>1. ~half
    BY DEF TypeInv, IterOK
  <1>2. /\ victim' = k /\ ~half' /\ saves' = Contend(k)
        /\ disturbed \subseteq disturbed'
        /\ (\E s \in Savers : Active(s, k)) => k \in disturbed'
    BY SavingActive DEF BeginDrop
  <1>3. ASSUME NEW t \in Savers
        PROVE  /\ (saves'[t] = None) <=> (saves[t] = None)
               /\ ~Active(t, k) => saves'[t] = saves[t]
               /\ Active(t, k) => /\ saves'[t] # None
                                  /\ ~saves'[t].alone
                                  /\ saves'[t].key = k
    <2>1. Active(t, k) => saves[t] \in SaveOp
      BY DEF Active, TypeInv, TypeOK
    <2> QED BY <1>2, <2>1, ContendType
            DEF Contend, Saving, Active, SaveOp, TypeInv
  <1>4. LoneSaves'
    <2> SUFFICES ASSUME NEW t \in Savers, saves'[t] # None, saves'[t].alone
                 PROVE  (/\ \A u \in Savers : Active(u, saves[t].key) => u = t
                         /\ victim # saves[t].key
                         /\ "images" \notin saves[t].todo
                              => images[saves[t].key] = saves[t].entry.content
                         /\ "meta" \notin saves[t].todo
                              => meta[saves[t].key] = saves[t].entry)'
      BY DEF LoneSaves
    <2>1. saves'[t] = saves[t] /\ ~Active(t, k)
      BY <1>3
    <2>2. saves[t].key # k
      BY <2>1 DEF Active
    <2>3. ASSUME NEW u \in Savers, Active(u, saves[t].key)'  PROVE u = t
      <3>1. Active(u, saves[t].key)
        BY <1>3, <2>1, <2>2, <2>3 DEF Active
      <3> QED BY <2>1, <3>1 DEF AgreeInv, LoneSaves
    <2> QED BY <1>2, <2>1, <2>2, <2>3 DEF AgreeInv, LoneSaves
  <1>5. ContendedSaves'
    <2> SUFFICES ASSUME NEW t \in Savers, saves'[t] # None, ~saves'[t].alone
                 PROVE  saves'[t].key \in disturbed'
      BY DEF ContendedSaves
    <2>1. CASE Active(t, k)
      BY <1>2, <1>3, <2>1
    <2>2. CASE ~Active(t, k)
      BY <1>2, <1>3, <2>2 DEF AgreeInv, ContendedSaves
    <2> QED BY <2>1, <2>2
  <1>6. DropAlone'
    <2>1. k \notin disturbed' => \A t \in Savers : ~Active(t, k)
      BY <1>2
    <2>2. k \notin disturbed' => \A t \in Savers : saves'[t] = saves[t]
      BY <1>3, <2>1
    <2> QED BY <1>2, <2>1, <2>2 DEF DropAlone, Active
  <1>7. ColumnsAgree'
    <2> SUFFICES ASSUME NEW j \in Keys, j \notin disturbed', Saving(j)' = {}
                 PROVE  Agree(j)
      BY DEF ColumnsAgree, Agree
    <2>1. ASSUME NEW t \in Savers PROVE ~Active(t, j)
      <3>1. ~(saves'[t] # None /\ saves'[t].key = j)
        BY DEF Saving
      <3> QED BY <1>3, <3>1 DEF Active
    <2> QED BY <1>1, <1>2, <2>1, SavingActive DEF AgreeInv, ColumnsAgree
  <1> QED BY <1>4, <1>5, <1>6, <1>7 DEF AgreeInv

\* The first delete keeps AgreeInv: the key is half dropped.
LEMMA DropImagesAgree ==
  ASSUME TypeInv, AgreeInv, DropImages
  PROVE  AgreeInv'
  <1>1. /\ victim \in Keys /\ victim # None /\ ~half /\ half'
        /\ images' = [images EXCEPT ![victim] = None]
        /\ UNCHANGED <<meta, saves, victim, disturbed>>
    BY DEF DropImages, history, TypeInv, TypeOK
  <1>2. /\ images'[victim] = None
        /\ \A j \in Keys \ {victim} : images'[j] = images[j]
    BY <1>1 DEF TypeInv, TypeOK
  <1>3. LoneSaves'
    <2> SUFFICES ASSUME NEW t \in Savers, saves[t] # None, saves[t].alone
                 PROVE  (/\ \A u \in Savers : Active(u, saves[t].key) => u = t
                         /\ victim # saves[t].key
                         /\ "images" \notin saves[t].todo
                              => images[saves[t].key] = saves[t].entry.content
                         /\ "meta" \notin saves[t].todo
                              => meta[saves[t].key] = saves[t].entry)'
      BY <1>1 DEF LoneSaves
    <2>1. saves[t].key \in Keys \ {victim}
      BY DEF AgreeInv, LoneSaves, TypeInv, TypeOK, SaveOp
    <2> QED BY <1>1, <1>2, <2>1 DEF AgreeInv, LoneSaves, Active
  <1>4. ContendedSaves'
    BY <1>1 DEF AgreeInv, ContendedSaves
  <1>5. DropAlone'
    BY <1>1, <1>2 DEF AgreeInv, DropAlone, Active
  <1>6. ColumnsAgree'
    <2> SUFFICES ASSUME NEW j \in Keys, j \notin disturbed, Saving(j) = {},
                        victim # j
                 PROVE  Agree(j)'
      BY <1>1 DEF ColumnsAgree, Saving
    <2>1. Agree(j)
      BY DEF AgreeInv, ColumnsAgree
    <2> QED BY <1>1, <1>2, <2>1 DEF Agree
  <1> QED BY <1>3, <1>4, <1>5, <1>6 DEF AgreeInv

\* The second delete keeps AgreeInv: nothing is left under the key.
LEMMA DropMetaAgree ==
  ASSUME TypeInv, AgreeInv, DropMeta
  PROVE  AgreeInv'
  <1>1. /\ victim \in Keys /\ victim # None /\ half
        /\ victim' = None /\ ~half'
        /\ meta' = [meta EXCEPT ![victim] = None]
        /\ UNCHANGED <<images, saves, disturbed>>
    BY DEF DropMeta, history, TypeInv, TypeOK
  <1>2. /\ meta'[victim] = None
        /\ \A j \in Keys \ {victim} : meta'[j] = meta[j]
    BY <1>1 DEF TypeInv, TypeOK
  <1>3. LoneSaves'
    <2> SUFFICES ASSUME NEW t \in Savers, saves[t] # None, saves[t].alone
                 PROVE  (/\ \A u \in Savers : Active(u, saves[t].key) => u = t
                         /\ victim # saves[t].key
                         /\ "images" \notin saves[t].todo
                              => images[saves[t].key] = saves[t].entry.content
                         /\ "meta" \notin saves[t].todo
                              => meta[saves[t].key] = saves[t].entry)'
      BY <1>1 DEF LoneSaves
    <2>1. saves[t].key \in Keys \ {victim}
      BY DEF AgreeInv, LoneSaves, TypeInv, TypeOK, SaveOp
    <2>2. saves[t].key # None
      BY <2>1, MarkersAssumption
    <2> QED BY <1>1, <1>2, <2>1, <2>2 DEF AgreeInv, LoneSaves, Active
  <1>4. ContendedSaves'
    BY <1>1 DEF AgreeInv, ContendedSaves
  <1>5. DropAlone'
    BY <1>1 DEF DropAlone
  <1>6. ColumnsAgree'
    <2> SUFFICES ASSUME NEW j \in Keys, j \notin disturbed, Saving(j) = {}
                 PROVE  Agree(j)'
      BY <1>1 DEF ColumnsAgree, Saving
    <2>1. CASE j = victim
      <3>1. images[j] = None
        BY <1>1, <2>1 DEF AgreeInv, DropAlone
      <3> QED BY <1>1, <1>2, <2>1, <3>1, MarkersAssumption DEF Agree
    <2>2. CASE j # victim
      <3>1. Agree(j)
        BY <2>2 DEF AgreeInv, ColumnsAgree
      <3> QED BY <1>1, <1>2, <2>2, <3>1 DEF Agree
    <2> QED BY <2>1, <2>2
  <1> QED BY <1>3, <1>4, <1>5, <1>6 DEF AgreeInv

\* A failed delete keeps AgreeInv: a key whose image is gone is disturbed.
LEMMA DropFailsAgree ==
  ASSUME TypeInv, AgreeInv, DropFails
  PROVE  AgreeInv'
  <1>1. /\ victim # None /\ victim' = None /\ ~half'
        /\ disturbed' = IF half THEN disturbed \cup {victim} ELSE disturbed
        /\ UNCHANGED <<images, meta, saves>>
    BY DEF DropFails, dbVars
  <1>2. LoneSaves'
    <2>1. \A s \in Savers : saves[s] # None => saves[s].key # None
      BY MarkersAssumption DEF TypeInv, TypeOK, SaveOp
    <2> QED BY <1>1, <2>1 DEF AgreeInv, LoneSaves, Active
  <1>3. ContendedSaves'
    BY <1>1 DEF AgreeInv, ContendedSaves
  <1>4. DropAlone'
    BY <1>1 DEF DropAlone
  <1>5. ColumnsAgree'
    BY <1>1 DEF AgreeInv, ColumnsAgree, Agree, Saving
  <1> QED BY <1>2, <1>3, <1>4, <1>5 DEF AgreeInv

\* The end of the process keeps AgreeInv: what it cut short is disturbed.
LEMMA CrashAgree ==
  ASSUME TypeInv, AgreeInv, Crash
  PROVE  AgreeInv'
  <1>1. /\ saves' = [s \in Savers |-> None] /\ victim' = None /\ ~half'
        /\ UNCHANGED <<images, meta>>
        /\ disturbed \subseteq disturbed'
        /\ \A s \in Savers : saves[s] # None => saves[s].key \in disturbed'
        /\ half => victim \in disturbed'
    BY DEF Crash, dbVars
  <1>2. LoneSaves' /\ ContendedSaves' /\ DropAlone'
    BY <1>1 DEF LoneSaves, ContendedSaves, DropAlone
  <1>3. ColumnsAgree'
    <2> SUFFICES ASSUME NEW j \in Keys, j \notin disturbed'
                 PROVE  Agree(j)
      BY <1>1 DEF ColumnsAgree, Agree
    <2>1. \A s \in Savers : ~Active(s, j)
      BY <1>1 DEF Active
    <2> QED BY <1>1, <2>1, SavingActive DEF AgreeInv, ColumnsAgree
  <1> QED BY <1>2, <1>3 DEF AgreeInv

\* An opened database satisfies AgreeInv.
LEMMA InitAgree == Init => AgreeInv
  BY DEF Init, AgreeInv, LoneSaves, ContendedSaves, DropAlone, ColumnsAgree,
         Agree

\* The steps that touch neither the column families nor the operations on them.
Elsewhere ==
  \/ \E l \in Loaders : LoadStep(l)
  \/ StartReport \/ HourPasses \/ RefreshSize \/ ReportAndCompare \/ ShrinkLoad
  \/ OpenFetch \/ StoreSize \/ OpenGather \/ SortQueue \/ FinishShrink \/ Reopen
  \/ IteratorFails \/ UNCHANGED vars

\* What the frames of AgreeInv have in common.
LEMMA ElsewhereFrame ==
  Elsewhere => UNCHANGED <<images, meta, saves, victim, half, disturbed>>
  <1>1. ASSUME NEW l \in Loaders, LoadStep(l)
        PROVE  UNCHANGED <<images, meta, saves, victim, half, disturbed>>
    BY <1>1 DEF LoadStep, LoadBegin, Get, LoadReturns, dbVars, dropVars, history
  <1>2. CASE StartReport \/ HourPasses \/ RefreshSize \/ ReportAndCompare
    BY <1>2 DEF StartReport, HourPasses, RefreshSize, ReportAndCompare,
                NoDrop, dbVars, dropVars
  <1>3. CASE ShrinkLoad \/ OpenFetch \/ StoreSize \/ OpenGather
    BY <1>3 DEF ShrinkLoad, OpenFetch, StoreSize, OpenGather, NoDrop, dbVars,
                dropVars
  <1>4. CASE \/ SortQueue \/ FinishShrink \/ Reopen \/ IteratorFails
             \/ UNCHANGED vars
    BY <1>4 DEF SortQueue, FinishShrink, Reopen, IteratorFails, NoDrop, dbVars,
                dropVars, vars
  <1> QED BY <1>1, <1>2, <1>3, <1>4 DEF Elsewhere

\* What a scan does of one record: drop it, or leave everything stored alone.
LEMMA ScanFrame ==
  ASSUME TypeInv, ScanEntry \/ GatherEntry
  PROVE  /\ UNCHANGED <<images, meta, loads>>
         /\ \/ \E k \in Keys : victim = None /\ BeginDrop(k)
            \/ UNCHANGED <<saves, victim, half, disturbed>>
  <1>1. PICK k \in rest :
          /\ victim = None
          /\ \/ DropGarbled(k)
             \/ NoDrop
    BY DEF ScanEntry, GatherEntry, Yields
  <1>2. k \in Keys
    BY DEF TypeInv, TypeOK
  <1>3. CASE DropGarbled(k)
    BY <1>1, <1>2, <1>3 DEF DropGarbled, dbVars
  <1>4. CASE NoDrop
    BY <1>4 DEF NoDrop, dbVars, dropVars
  <1> QED BY <1>1, <1>3, <1>4

\* The steps of the eviction that drop nothing leave AgreeInv alone.
LEMMA EvictFrame ==
  ASSUME TypeInv, EvictNext
  PROVE  /\ UNCHANGED <<images, meta, loads>>
         /\ \E k \in Keys : victim = None /\ BeginDrop(k)
  <1>1. Head(acc) \in Queued
    BY DEF EvictNext, TypeInv, TypeOK, IterOK
  <1>2. Head(acc).key \in Keys
    BY <1>1 DEF Queued
  <1> QED BY <1>2 DEF EvictNext, dbVars

\* Every step keeps AgreeInv.
LEMMA NextAgree == TypeInv /\ AgreeInv /\ [Next]_vars => AgreeInv'
  <1> SUFFICES ASSUME TypeInv, AgreeInv, [Next]_vars  PROVE AgreeInv'
    OBVIOUS
  <1>1. ASSUME NEW s \in Savers, SaveStep(s)  PROVE AgreeInv'
    <2>1. ASSUME NEW k \in Keys, NEW e \in Entry, SaveBegin(s, k, e)
          PROVE  AgreeInv'
      BY <2>1, SaveBeginAgree
    <2>2. ASSUME NEW cf \in ColumnFamily, Put(s, cf)  PROVE AgreeInv'
      BY <2>2, PutAgree
    <2>3. ASSUME NEW cf \in ColumnFamily, PutFails(s, cf)  PROVE AgreeInv'
      BY <2>3, PutFailsAgree
    <2> QED BY <1>1, <2>1, <2>2, <2>3 DEF SaveStep
  <1>2. CASE Elsewhere
    BY <1>2, ElsewhereFrame, AgreeFrame
  <1>3. CASE ScanEntry \/ GatherEntry
    BY <1>3, ScanFrame, BeginDropAgree, AgreeFrame
  <1>4. CASE EvictNext
    BY <1>4, EvictFrame, BeginDropAgree
  <1>5. CASE DropImages \/ DropMeta \/ DropFails \/ Crash
    BY <1>5, DropImagesAgree, DropMetaAgree, DropFailsAgree, CrashAgree
  <1> QED BY <1>1, <1>2, <1>3, <1>4, <1>5
          DEF Next, MainStep, ScanStep, EvictStep, Elsewhere

\* The two column families agree on every key where no operation is in progress
\* and none overlapped, failed or was cut short since the last lone save.
THEOREM ColumnsAgreeCorrect == Spec => []ColumnsAgree
  <1>1. Init => TypeInv /\ AgreeInv
    BY InitType, InitAgree
  <1>2. TypeInv /\ AgreeInv /\ [Next]_vars => (TypeInv /\ AgreeInv)'
    BY NextType, NextAgree
  <1>3. AgreeInv => ColumnsAgree
    BY DEF AgreeInv
  <1> QED BY <1>1, <1>2, <1>3, PTL DEF Spec

-----------------------------------------------------------------------------
(***************************************************************************)
(* Hits are coherent.  A clean load stays coherent whichever column family *)
(* it reads first: what it has read, and what it has yet to read, hold the *)
(* same image or nothing, because only saves put and none is active on the *)
(* key.                                                                    *)
(***************************************************************************)
SameImage(bytes, entry) ==
  (bytes # None /\ entry \in Entry) => bytes = entry.content

Coherent(op) ==
  /\ \A s \in Savers : ~Active(s, op.key)
  /\ SameImage(op.bytes, op.entry)
  /\ SameImage(op.bytes, meta[op.key])
  /\ SameImage(images[op.key], op.entry)
  /\ SameImage(images[op.key], meta[op.key])

CleanLoads ==
  \A l \in Loaders : (loads[l] # None /\ loads[l].clean) => Coherent(loads[l])

\* A step that puts nothing and begins no save leaves clean loads coherent.
LEMMA CleanFrame ==
  ASSUME TypeInv, CleanLoads, UNCHANGED loads,
         \A k \in Keys : images'[k] \in {images[k], None}
                           /\ meta'[k] \in {meta[k], None},
         \A s \in Savers, k \in Keys : Active(s, k)' => Active(s, k)
  PROVE  CleanLoads'
  <1> SUFFICES ASSUME NEW l \in Loaders, loads[l] # None, loads[l].clean
               PROVE  Coherent(loads[l])'
    BY DEF CleanLoads, Coherent
  <1>1. PICK k \in Keys : k = loads[l].key
    BY DEF TypeInv, TypeOK, LoadOp
  <1>2. /\ \A s \in Savers : ~Active(s, k)
        /\ SameImage(loads[l].bytes, loads[l].entry)
        /\ SameImage(loads[l].bytes, meta[k])
        /\ SameImage(images[k], loads[l].entry)
        /\ SameImage(images[k], meta[k])
    BY <1>1 DEF CleanLoads, Coherent
  <1>3. \A s \in Savers : ~Active(s, k)'
    BY <1>2
  <1>4. loads'[l].key = k
    BY <1>1
  <1>5. \A s \in Savers : ~Active(s, loads[l].key)'
    BY <1>3, <1>4 DEF Active
  <1>6. None \notin Entry
    BY MarkersAssumption
  <1> QED BY <1>1, <1>2, <1>5, <1>6 DEF SameImage, Coherent

\* The steps of save_entry keep CleanInv.
LEMMA SaveStepClean ==
  ASSUME TypeInv, CleanLoads, NEW s \in Savers, SaveStep(s)
  PROVE  CleanLoads'
  <1>1. ASSUME NEW k \in Keys, NEW e \in Entry, SaveBegin(s, k, e)
        PROVE  CleanLoads'
    <2>1. /\ UNCHANGED <<images, meta>>
          /\ saves[s] = None
          /\ \A l \in Loaders : loads'[l] =
               IF loads[l] # None /\ loads[l].key = k
                 THEN [loads[l] EXCEPT !.clean = FALSE] ELSE loads[l]
          /\ saves' = [Contend(k) EXCEPT ![s] =
                         [key |-> k, entry |-> e, todo |-> ColumnFamily,
                          alone |-> ~(Saving(k) # {} \/ victim = k)]]
      BY <1>1 DEF SaveBegin, dbVars
    <2>2. \A t \in Savers, j \in Keys :
             j # k /\ saves'[t] # None /\ saves'[t].key = j => Active(t, j)
      <3> SUFFICES ASSUME NEW t \in Savers, NEW j \in Keys, j # k,
                          saves'[t] # None, saves'[t].key = j
                   PROVE  Active(t, j)
        OBVIOUS
      <3>1. CASE t = s
        BY <2>1, <3>1, ContendType DEF Contend
      <3>2. CASE t # s
        <4>1. saves'[t] = Contend(k)[t]
          BY <2>1, <3>2 DEF Contend
        <4>2. Active(t, k) => saves[t] \in SaveOp
          BY DEF Active, TypeInv, TypeOK
        <4> QED BY <4>1, <4>2 DEF Contend, Saving, Active, SaveOp
      <3> QED BY <3>1, <3>2
    <2> SUFFICES ASSUME NEW l \in Loaders, loads'[l] # None, loads'[l].clean
                 PROVE  Coherent(loads[l])'
      BY DEF CleanLoads, Coherent
    <2>3. loads'[l] = loads[l] /\ loads[l].key # k
      <3>1. CASE loads[l] # None /\ loads[l].key = k
        <4>1. loads[l] \in LoadOp
          BY <3>1 DEF TypeInv, TypeOK
        <4> QED BY <2>1, <3>1, <4>1 DEF LoadOp
      <3> QED BY <2>1, <3>1
    <2>4. loads[l].key \in Keys
      BY <2>3 DEF TypeInv, TypeOK, LoadOp
    <2>5. \A t \in Savers : ~Active(t, loads[l].key)'
      BY <2>2, <2>3, <2>4 DEF CleanLoads, Coherent, Active
    <2> QED BY <2>1, <2>3, <2>5 DEF CleanLoads, Coherent, SameImage
  <1>2. ASSUME NEW cf \in ColumnFamily, Put(s, cf)
        PROVE  CleanLoads'
    <2>1. PICK k \in Keys : k = saves[s].key /\ Active(s, k)
      BY <1>2 DEF Put, TypeInv, TypeOK, SaveOp, Active
    <2>2. saves[s].alone \in BOOLEAN
      BY <1>2 DEF Put, TypeInv, TypeOK, SaveOp
    <2>3. \A t \in Savers, j \in Keys : Active(t, j)' => Active(t, j)
      BY <1>2, <2>2, PutOp DEF Put
    <2>4. /\ UNCHANGED loads
          /\ \A j \in Keys \ {k} : images'[j] = images[j] /\ meta'[j] = meta[j]
      BY <1>2, <2>1 DEF Put, TypeInv, TypeOK
    <2> SUFFICES ASSUME NEW l \in Loaders, loads[l] # None, loads[l].clean
                 PROVE  Coherent(loads[l])'
      BY <2>4 DEF CleanLoads, Coherent
    <2>5. loads[l].key \in Keys \ {k}
      BY <2>1 DEF CleanLoads, Coherent, TypeInv, TypeOK, LoadOp
    <2>6. \A t \in Savers : ~Active(t, loads[l].key)'
      BY <2>3, <2>4, <2>5 DEF CleanLoads, Coherent, Active
    <2> QED BY <2>4, <2>5, <2>6 DEF CleanLoads, Coherent, SameImage
  <1>3. ASSUME NEW cf \in ColumnFamily, PutFails(s, cf)
        PROVE  CleanLoads'
    <2>1. \A t \in Savers, j \in Keys : Active(t, j)' => Active(t, j)
      BY <1>3, PutOp DEF PutFails
    <2> QED BY <1>3, <2>1, CleanFrame DEF PutFails, dbVars
  <1> QED BY <1>1, <1>2, <1>3 DEF SaveStep

\* The steps of load_entry keep CleanInv.
LEMMA LoadStepClean ==
  ASSUME TypeInv, AgreeInv, CleanLoads, NEW l \in Loaders, LoadStep(l)
  PROVE  CleanLoads'
  <1>1. /\ UNCHANGED <<images, meta, saves>>
        /\ \A m \in Loaders \ {l} : loads'[m] = loads[m]
    BY DEF LoadStep, LoadBegin, Get, LoadReturns, dbVars, TypeInv, TypeOK
  <1> SUFFICES ASSUME loads'[l] # None, loads'[l].clean
               PROVE  Coherent(loads'[l])
    BY <1>1 DEF CleanLoads, Coherent, Active, SameImage
  <1>2. ASSUME NEW k \in Keys, LoadBegin(l, k)
        PROVE  Coherent(loads'[l])
    <2>1. /\ loads'[l].key = k
          /\ loads'[l].bytes = None /\ loads'[l].entry = None
          /\ Saving(k) = {} /\ k \notin disturbed
      BY <1>2 DEF LoadBegin, TypeInv, TypeOK
    <2>2. SameImage(images[k], meta[k])
      <3>1. CASE half /\ victim = k
        BY <2>1, <3>1, MarkersAssumption
        DEF AgreeInv, DropAlone, SameImage
      <3>2. CASE ~(half /\ victim = k)
        BY <2>1, <3>2 DEF AgreeInv, ColumnsAgree, Agree, SameImage
      <3> QED BY <3>1, <3>2
    <2> QED BY <2>1, <2>2, SavingActive, MarkersAssumption
            DEF Coherent, SameImage
  <1>3. ASSUME NEW cf \in ColumnFamily, Get(l, cf)
        PROVE  Coherent(loads'[l])
    <2>1. loads[l] \in LoadOp /\ loads[l] # None
      BY <1>3 DEF Get, TypeInv, TypeOK
    <2>2. loads'[l] = AfterGet(loads[l], cf)
      BY <1>3 DEF Get, TypeInv, TypeOK
    <2>3. /\ loads'[l].key = loads[l].key /\ loads[l].clean
          /\ cf = "images" => /\ loads'[l].bytes = images[loads[l].key]
                              /\ loads'[l].entry = loads[l].entry
          /\ cf = "meta" => /\ loads'[l].entry = meta[loads[l].key]
                            /\ loads'[l].bytes = loads[l].bytes
      BY <2>1, <2>2 DEF AfterGet, LoadOp
    <2> QED BY <2>1, <2>3 DEF CleanLoads, Coherent
  <1>4. CASE LoadReturns(l)
    BY <1>4 DEF LoadReturns, TypeInv, TypeOK
  <1> QED BY <1>2, <1>3, <1>4 DEF LoadStep

\* Entering drop_entry keeps CleanInv.
LEMMA BeginDropClean ==
  ASSUME TypeInv, CleanLoads, NEW k \in Keys, BeginDrop(k),
         UNCHANGED <<images, meta, loads>>
  PROVE  CleanLoads'
  <1>1. ASSUME NEW t \in Savers, NEW j \in Keys, Active(t, j)'
        PROVE  Active(t, j)
    <2>1. saves'[t] = Contend(k)[t]
      BY DEF BeginDrop
    <2>2. Active(t, k) => saves[t] \in SaveOp
      BY DEF Active, TypeInv, TypeOK
    <2> QED BY <1>1, <2>1, <2>2 DEF Contend, Saving, Active, SaveOp
  <1> QED BY <1>1, CleanFrame

\* Every step keeps CleanInv.
LEMMA NextClean ==
  TypeInv /\ AgreeInv /\ CleanLoads /\ [Next]_vars => CleanLoads'
  <1> SUFFICES ASSUME TypeInv, AgreeInv, CleanLoads, [Next]_vars
               PROVE  CleanLoads'
    OBVIOUS
  <1>1. CASE \E s \in Savers : SaveStep(s)
    BY <1>1, SaveStepClean
  <1>2. CASE \E l \in Loaders : LoadStep(l)
    BY <1>2, LoadStepClean
  <1>3. CASE ScanEntry \/ GatherEntry
    <2>1. UNCHANGED saves => \A s \in Savers, k \in Keys :
                               Active(s, k)' => Active(s, k)
      BY DEF Active
    <2> QED BY <1>3, <2>1, ScanFrame, BeginDropClean, CleanFrame
  <1>4. CASE EvictNext
    BY <1>4, EvictFrame, BeginDropClean
  <1>5. CASE DropImages \/ DropMeta \/ DropFails
    <2>1. UNCHANGED <<saves, loads>>
      BY <1>5 DEF DropImages, DropMeta, DropFails
    <2>2. \A k \in Keys : images'[k] \in {images[k], None}
                            /\ meta'[k] \in {meta[k], None}
      BY <1>5 DEF DropImages, DropMeta, DropFails, dbVars, TypeInv, TypeOK
    <2>3. \A s \in Savers, k \in Keys : Active(s, k)' => Active(s, k)
      BY <2>1 DEF Active
    <2> QED BY <2>1, <2>2, <2>3, CleanFrame
  <1>6. CASE Crash
    BY <1>6 DEF Crash, CleanLoads
  <1>7. CASE \/ StartReport \/ HourPasses \/ RefreshSize \/ ReportAndCompare
             \/ ShrinkLoad \/ OpenFetch \/ StoreSize \/ OpenGather
             \/ SortQueue \/ FinishShrink \/ Reopen \/ IteratorFails
             \/ UNCHANGED vars
    <2>1. UNCHANGED <<images, meta, saves>>
      BY <1>7, ElsewhereFrame DEF Elsewhere
    <2>2. UNCHANGED loads
      <3>1. CASE \/ StartReport \/ HourPasses \/ RefreshSize
                 \/ ReportAndCompare \/ ShrinkLoad \/ OpenFetch
        BY <3>1 DEF StartReport, HourPasses, RefreshSize, ReportAndCompare,
                    ShrinkLoad, OpenFetch, NoDrop
      <3>2. CASE \/ StoreSize \/ OpenGather \/ SortQueue \/ FinishShrink
                 \/ Reopen \/ IteratorFails \/ UNCHANGED vars
        BY <3>2 DEF StoreSize, OpenGather, SortQueue, FinishShrink, Reopen,
                    IteratorFails, NoDrop, vars
      <3> QED BY <1>7, <3>1, <3>2
    <2>3. \A s \in Savers, k \in Keys : Active(s, k)' => Active(s, k)
      BY <2>1 DEF Active
    <2> QED BY <2>1, <2>2, <2>3, CleanFrame
  <1> QED BY <1>1, <1>2, <1>3, <1>4, <1>5, <1>6, <1>7
          DEF Next, MainStep, ScanStep, EvictStep

\* load_entry: a hit on an undisturbed key that nobody began to save meanwhile
\* returns the bytes its checksum was computed from.
THEOREM CleanLoadCorrect == Spec => []CleanLoadCoherent
  <1>1. Init => TypeInv /\ AgreeInv /\ CleanLoads
    <2>1. Init => CleanLoads
      BY DEF Init, CleanLoads
    <2> QED BY <2>1, InitType, InitAgree
  <1>2. TypeInv /\ AgreeInv /\ CleanLoads /\ [Next]_vars
          => (TypeInv /\ AgreeInv /\ CleanLoads)'
    BY NextType, NextAgree, NextClean
  <1>3. CleanLoads => CleanLoadCoherent
    BY DEF CleanLoads, Coherent, CleanLoadCoherent, Hit, SameImage
  <1> QED BY <1>1, <1>2, <1>3, PTL DEF Spec

-----------------------------------------------------------------------------
(***************************************************************************)
(* Scans purge.  An undecodable record is one the scan in progress has yet *)
(* to get to or is dropping, or one the last scan did not get past; nobody *)
(* writes one, and until RocksCache::new returns nothing else but the scan *)
(* runs.                                                                   *)
(***************************************************************************)
GarbledIn(K) == \A k \in Keys : meta[k] = Garbled => k \in K

PurgeInv ==
  /\ ScansPurgeGarbage
  /\ ctx = "new" => mpc \in {"down", "fetch", "scan"}
  /\ mpc = "scan" =>
       /\ \A k \in rest : meta[k] = Garbled => snap[k] = Garbled
       /\ GarbledIn(skipped \cup rest \cup {victim})

\* No step makes a record undecodable.
LEMMA NoNewGarbage ==
  ASSUME TypeInv, [Next]_vars, NEW k \in Keys, meta'[k] = Garbled
  PROVE  meta[k] = Garbled
  <1>1. CASE UNCHANGED meta
    BY <1>1
  <1>2. ASSUME NEW s \in Savers, NEW cf \in ColumnFamily, Put(s, cf)
        PROVE  meta[k] = Garbled
    <2>1. saves[s].entry \in Entry
      BY <1>2 DEF Put, TypeInv, TypeOK, SaveOp
    <2> QED BY <1>2, <2>1, MarkersAssumption DEF Put, TypeInv, TypeOK
  <1>3. CASE DropMeta
    BY <1>3, MarkersAssumption DEF DropMeta, TypeInv, TypeOK
  <1>4. ASSUME NEW s \in Savers, SaveStep(s)
        PROVE  UNCHANGED meta \/ \E cf \in ColumnFamily : Put(s, cf)
    BY <1>4 DEF SaveStep, SaveBegin, PutFails, dbVars
  <1>5. ScanEntry \/ GatherEntry \/ EvictNext => UNCHANGED meta
    BY ScanFrame, EvictFrame
  <1>6. Elsewhere \/ DropImages \/ DropFails \/ Crash => UNCHANGED meta
    BY ElsewhereFrame DEF DropImages, DropFails, Crash, dbVars
  <1> QED BY <1>1, <1>2, <1>3, <1>4, <1>5, <1>6
          DEF Next, MainStep, ScanStep, EvictStep, Elsewhere

\* A step outside the scans keeps PurgeInv.
LEMMA PurgeFrame ==
  ASSUME TypeInv, PurgeInv, [Next]_vars,
         UNCHANGED <<mpc, ctx, snap, rest, skipped, victim>>
  PROVE  PurgeInv'
  <1>1. \A k \in rest : k \in Keys
    BY DEF TypeInv, TypeOK
  <1> QED BY <1>1, NoNewGarbage DEF PurgeInv, ScansPurgeGarbage, GarbledIn, Up

\* A step that starts and ends outside fetch_real_size keeps PurgeInv.
LEMMA PurgeElsewhere ==
  ASSUME TypeInv, PurgeInv, [Next]_vars, mpc # "scan", mpc' # "scan",
         Up' => Up, ctx' = "new" => mpc' \in {"down", "fetch"},
         UNCHANGED skipped
  PROVE  PurgeInv'
  BY NoNewGarbage DEF PurgeInv, ScansPurgeGarbage, Up

\* A step of the loop of fetch_real_size keeps PurgeInv.
LEMMA ScanPurge ==
  ASSUME TypeInv, PurgeInv, ScanEntry
  PROVE  PurgeInv'
  <1>1. PICK k \in rest :
          /\ victim = None /\ rest' = rest \ {k}
          /\ \/ snap[k] = Garbled /\ BeginDrop(k)
             \/ snap[k] # Garbled /\ UNCHANGED victim
    BY DEF ScanEntry, Yields, DropGarbled, NoDrop, dropVars
  <1>2. UNCHANGED <<meta, snap, skipped, mpc, ctx>> /\ mpc = "scan"
    BY DEF ScanEntry, DropGarbled, NoDrop, dbVars
  <1>3. victim' = k \/ meta[k] # Garbled
    BY <1>1, <1>2 DEF PurgeInv, BeginDrop
  <1>4. None \notin Keys
    BY MarkersAssumption
  <1> QED BY <1>1, <1>2, <1>3, <1>4
          DEF PurgeInv, ScansPurgeGarbage, GarbledIn, Up

\* The main thread's steps to and from a scan keep PurgeInv.
LEMMA ScanEndsPurge ==
  ASSUME TypeInv, PurgeInv, [Next]_vars,
         \/ OpenFetch \/ StoreSize \/ IteratorFails \/ DropFails
  PROVE  PurgeInv'
  <1> USE DEF PurgeInv, ScansPurgeGarbage, GarbledIn, Up
  <1>1. None \notin Keys /\ Garbled # None
    BY MarkersAssumption
  <1>2. CASE OpenFetch
    BY <1>1, <1>2
    DEF OpenFetch, NoDrop, dbVars, dropVars, Stored, TypeInv, TypeOK
  <1>3. CASE StoreSize
    <2>1. /\ mpc = "scan" /\ rest = {} /\ victim = None
          /\ mpc' # "scan" /\ ctx' # "new"
          /\ UNCHANGED <<meta, skipped>>
      BY <1>3 DEF StoreSize, NoDrop, dbVars, Return
    <2> QED BY <1>1, <2>1
  <1>4. CASE IteratorFails
    <2>1. /\ victim = None /\ victim' = None /\ rest' = {}
          /\ IF mpc = "scan" THEN skipped' = skipped \cup rest ELSE UNCHANGED skipped
          /\ UNCHANGED <<meta, mpc, ctx>>
      BY <1>4 DEF IteratorFails, NoDrop, dbVars, dropVars
    <2>2. ASSUME mpc = "scan", NEW k \in Keys, meta[k] = Garbled
          PROVE  k \in rest \cup skipped
      BY <1>1, <2>1, <2>2
    <2> QED BY <1>4, <2>1, <2>2
  <1>5. CASE DropFails
    <2>1. /\ mpc' # "scan"
          /\ skipped' = IF mpc = "scan" THEN skipped \cup rest \cup {victim}
                                         ELSE skipped
          /\ ctx = "new" => mpc' = "down" /\ ctx' = "new"
          /\ ctx # "new" => ctx' # "new"
          /\ UNCHANGED meta
      BY <1>5 DEF DropFails, Return, dbVars
    <2> QED BY <1>1, <2>1
  <1> QED BY <1>2, <1>3, <1>4, <1>5

\* The second delete keeps PurgeInv: the record it was about is gone.
LEMMA DropMetaPurge ==
  ASSUME TypeInv, PurgeInv, [Next]_vars, DropMeta
  PROVE  PurgeInv'
  <1>1. /\ victim \in Keys /\ victim' = None
        /\ ctx' = ctx /\ UNCHANGED <<snap, rest, skipped>>
        /\ mpc # "evict" => mpc' = mpc
        /\ mpc = "evict" => mpc' \in {"finish", "open", "evict"}
    BY DEF DropMeta, CountDown, iterVars, TypeInv, TypeOK
  <1>2. meta'[victim] # Garbled
    BY <1>1, MarkersAssumption DEF DropMeta, TypeInv, TypeOK
  <1>3. \A k \in rest : k \in Keys
    BY DEF TypeInv, TypeOK
  <1> QED BY <1>1, <1>2, <1>3, NoNewGarbage
          DEF PurgeInv, ScansPurgeGarbage, GarbledIn, Up

\* Every step keeps PurgeInv.
LEMMA NextPurge == TypeInv /\ PurgeInv /\ [Next]_vars => PurgeInv'
  <1> SUFFICES ASSUME TypeInv, PurgeInv, [Next]_vars  PROVE PurgeInv'
    OBVIOUS
  <1>1. CASE \E s \in Savers : SaveStep(s)
    BY <1>1, PurgeFrame
    DEF SaveStep, SaveBegin, Put, PutFails, iterVars, dropVars
  <1>2. CASE \E l \in Loaders : LoadStep(l)
    BY <1>2, PurgeFrame
    DEF LoadStep, LoadBegin, Get, LoadReturns, iterVars, dropVars
  <1>3. CASE ScanEntry
    BY <1>3, ScanPurge
  <1>4. CASE OpenFetch \/ StoreSize \/ IteratorFails \/ DropFails
    BY <1>4, ScanEndsPurge
  <1>5. CASE StartReport \/ HourPasses \/ RefreshSize \/ ReportAndCompare
    BY <1>5, PurgeElsewhere
    DEF StartReport, HourPasses, RefreshSize, ReportAndCompare, iterVars,
        Return, Up, PurgeInv
  <1>6. CASE ShrinkLoad \/ OpenGather \/ SortQueue \/ FinishShrink \/ Reopen
    BY <1>6, PurgeElsewhere
    DEF ShrinkLoad, OpenGather, SortQueue, FinishShrink, Reopen, iterVars,
        Return, Up, PurgeInv
  <1>7. CASE GatherEntry \/ EvictNext
    BY <1>7, PurgeElsewhere
    DEF GatherEntry, EvictNext, DropGarbled, iterVars, Up, PurgeInv
  <1>8. CASE DropImages
    BY <1>8, PurgeFrame DEF DropImages, iterVars
  <1>9. CASE DropMeta
    BY <1>9, DropMetaPurge
  <1>10. CASE Crash
    BY <1>10 DEF Crash, PurgeInv, ScansPurgeGarbage, Up
  <1>11. CASE UNCHANGED vars
    BY <1>11, PurgeFrame DEF vars
  <1> QED BY <1>1, <1>2, <1>3, <1>4, <1>5, <1>6, <1>7, <1>8, <1>9, <1>10,
             <1>11 DEF Next, MainStep, ScanStep, EvictStep

\* Once the cache is open, undecodable records are left only under keys that
\* the last scan of fetch_real_size did not get past.
THEOREM ScansPurgeCorrect == Spec => []ScansPurgeGarbage
  <1>1. Init => TypeInv /\ PurgeInv
    <2>1. Init => PurgeInv
      BY DEF Init, PurgeInv, ScansPurgeGarbage, Up
    <2> QED BY <2>1, InitType
  <1>2. TypeInv /\ PurgeInv /\ [Next]_vars => (TypeInv /\ PurgeInv)'
    BY NextType, NextPurge
  <1>3. PurgeInv => ScansPurgeGarbage
    BY DEF PurgeInv
  <1> QED BY <1>1, <1>2, <1>3, PTL DEF Spec

-----------------------------------------------------------------------------
(***************************************************************************)
(* The queue's head is the oldest entry.  Whatever entry the iterator has  *)
(* yielded, the accumulator holds one as old: it is the entry itself, the  *)
(* entry that displaced it, or one the entry could not displace.           *)
(***************************************************************************)
QueueInv ==
  mpc = "gather" =>
    \A k \in Keys : (snap[k] \in Entry /\ k \notin rest) =>
      \E i \in DOMAIN acc : acc[i].entry.time <= snap[k].time

\* The save time of a queued entry is a number.
LEMMA TimeType ==
  /\ \A e \in Entry : e.time \in Nat
  /\ \A x \in Queued : x.entry.time \in Nat
  BY TimesAssumption DEF Entry, Queued

\* The save times of a queue are numbers.
LEMMA QueueTime ==
  ASSUME NEW q \in Seq(Queued), NEW i \in DOMAIN q
  PROVE  q[i] \in Queued /\ q[i].entry.time \in Nat
  <1>1. q[i] \in Queued
    OBVIOUS
  <1> QED BY <1>1, TimeType

\* Every entry of the accumulator has one as old in what Offer makes of it, and
\* so has the entry offered.
LEMMA OfferKeepsOldest ==
  ASSUME acc \in Seq(Queued), NEW x \in Queued, Offer(x)
  PROVE  /\ \A i \in DOMAIN acc : \E j \in DOMAIN acc' :
               acc'[j].entry.time <= acc[i].entry.time
         /\ \E j \in DOMAIN acc' : acc'[j].entry.time <= x.entry.time
  <1>1. /\ \A i \in DOMAIN acc : acc[i] \in Queued /\ acc[i].entry.time \in Nat
        /\ x.entry.time \in Nat
    BY QueueTime, TimeType
  <1>2. Len(acc) \in Nat /\ DOMAIN acc = 1 .. Len(acc)
    OBVIOUS
  <1>3. CASE acc' = Append(acc, x)
    <2>1. /\ DOMAIN acc' = 1 .. Len(acc) + 1
          /\ \A i \in DOMAIN acc : acc'[i] = acc[i]
          /\ acc'[Len(acc) + 1] = x
      BY <1>3
    <2> QED BY <1>1, <1>2, <2>1
  <1>4. ASSUME NEW i \in Displaceable(x), acc' = [acc EXCEPT ![i] = x]
        PROVE  /\ \A h \in DOMAIN acc : \E j \in DOMAIN acc' :
                     acc'[j].entry.time <= acc[h].entry.time
               /\ \E j \in DOMAIN acc' : acc'[j].entry.time <= x.entry.time
    <2>1. i \in DOMAIN acc /\ x.entry.time < acc[i].entry.time
      BY DEF Displaceable, Older
    <2>2. /\ DOMAIN acc' = DOMAIN acc /\ acc'[i] = x
          /\ \A h \in DOMAIN acc \ {i} : acc'[h] = acc[h]
      BY <1>4, <2>1
    <2>3. ASSUME NEW h \in DOMAIN acc
          PROVE  \E j \in DOMAIN acc' : acc'[j].entry.time <= acc[h].entry.time
      <3>1. CASE h = i
        <4>1. x.entry.time <= acc[h].entry.time
          BY <1>1, <2>1, <3>1
        <4> QED BY <2>1, <2>2, <4>1
      <3>2. CASE h # i
        <4>1. acc[h].entry.time <= acc[h].entry.time
          BY <1>1
        <4> QED BY <2>2, <3>2, <4>1
      <3> QED BY <3>1, <3>2
    <2>4. x.entry.time <= x.entry.time
      BY <1>1
    <2> QED BY <2>1, <2>2, <2>3, <2>4
  <1>5. CASE Len(acc) >= QueueCap /\ Displaceable(x) = {} /\ UNCHANGED acc
    <2>1. 1 \in DOMAIN acc
      BY <1>2, <1>5, BoundsAssumption
    <2>2. ~(x.entry.time < acc[1].entry.time)
      BY <1>5, <2>1 DEF Displaceable, Older
    <2>3. acc[1].entry.time <= x.entry.time
      BY <1>1, <2>1, <2>2
    <2>4. \A i \in DOMAIN acc : acc[i].entry.time <= acc[i].entry.time
      BY <1>1
    <2> QED BY <1>5, <2>1, <2>3, <2>4
  <1> QED BY <1>3, <1>4, <1>5 DEF Offer

\* A step of the loop of find_top_entries keeps QueueInv.
LEMMA GatherQueue ==
  ASSUME TypeInv, QueueInv, GatherEntry
  PROVE  QueueInv'
  <1>1. PICK k \in rest :
          /\ rest' = rest \ {k} /\ UNCHANGED snap
          /\ \/ snap[k] = Garbled /\ UNCHANGED acc
             \/ Offer([key |-> k, entry |-> snap[k]]) /\ snap[k] # Garbled
    BY DEF GatherEntry, DropGarbled
  <1>2. mpc = "gather" /\ k \in Keys
    BY DEF GatherEntry, TypeInv, TypeOK
  <1>3. CASE snap[k] = Garbled /\ UNCHANGED acc
    BY <1>1, <1>2, <1>3, MarkersAssumption DEF QueueInv
  <1>4. CASE Offer([key |-> k, entry |-> snap[k]]) /\ snap[k] # Garbled
    <2> DEFINE x == [key |-> k, entry |-> snap[k]]
    <2>1. snap[k] \in Entry
      BY <1>1, <1>2, <1>4 DEF TypeInv, TypeOK, IterOK
    <2>2. x \in Queued /\ x.entry = snap[k]
      BY <1>2, <2>1 DEF Queued
    <2> HIDE DEF x
    <2>3. /\ \A i \in DOMAIN acc : \E j \in DOMAIN acc' :
                acc'[j].entry.time <= acc[i].entry.time
          /\ \E j \in DOMAIN acc' : acc'[j].entry.time <= snap[k].time
      BY <1>4, <2>2, OfferKeepsOldest DEF x, TypeInv, TypeOK
    <2>4. acc' \in Seq(Queued)
      BY <1>4, <2>2, OfferType DEF x, TypeInv, TypeOK
    <2>5. ASSUME NEW h \in Keys, snap[h] \in Entry, h \notin rest'
          PROVE  \E j \in DOMAIN acc' : acc'[j].entry.time <= snap[h].time
      <3>1. CASE h = k
        BY <2>3, <3>1
      <3>2. CASE h # k
        <4>1. PICK i \in DOMAIN acc : acc[i].entry.time <= snap[h].time
          BY <1>1, <1>2, <2>5, <3>2 DEF QueueInv
        <4>2. PICK j \in DOMAIN acc' : acc'[j].entry.time <= acc[i].entry.time
          BY <2>3
        <4>3. /\ acc[i].entry.time \in Nat /\ acc'[j].entry.time \in Nat
              /\ snap[h].time \in Nat
          BY <2>4, <2>5, QueueTime, TimeType DEF TypeInv, TypeOK
        <4> QED BY <4>1, <4>2, <4>3
      <3> QED BY <3>1, <3>2
    <2> QED BY <1>1, <2>5 DEF QueueInv
  <1> QED BY <1>1, <1>3, <1>4

\* Every step keeps QueueInv.
LEMMA NextQueue == TypeInv /\ QueueInv /\ [Next]_vars => QueueInv'
  <1> SUFFICES ASSUME TypeInv, QueueInv, [Next]_vars  PROVE QueueInv'
    OBVIOUS
  <1>1. CASE GatherEntry
    BY <1>1, GatherQueue
  <1>2. CASE OpenGather
    BY <1>2, MarkersAssumption DEF OpenGather, QueueInv, Stored
  <1>3. ASSUME UNCHANGED <<mpc, snap, rest, acc>> \/ mpc' # "gather"
        PROVE  QueueInv'
    BY <1>3 DEF QueueInv
  <1>4. ASSUME NEW s \in Savers, SaveStep(s)
        PROVE  UNCHANGED <<mpc, snap, rest, acc>>
    BY <1>4 DEF SaveStep, SaveBegin, Put, PutFails, iterVars
  <1>5. ASSUME NEW l \in Loaders, LoadStep(l)
        PROVE  UNCHANGED <<mpc, snap, rest, acc>>
    BY <1>5 DEF LoadStep, LoadBegin, Get, LoadReturns, iterVars
  <1>6. CASE \/ StartReport \/ HourPasses \/ RefreshSize \/ ReportAndCompare
             \/ ShrinkLoad \/ FinishShrink \/ OpenFetch \/ ScanEntry
    BY <1>6, <1>3 DEF StartReport, HourPasses, RefreshSize, ReportAndCompare,
                 ShrinkLoad, FinishShrink, OpenFetch, ScanEntry, DropGarbled,
                 Return
  <1>7. CASE \/ StoreSize \/ SortQueue \/ EvictNext \/ DropImages \/ DropFails
             \/ Crash \/ Reopen \/ UNCHANGED vars
    BY <1>7, <1>3 DEF StoreSize, SortQueue, EvictNext, DropImages, DropFails,
                 Crash, Reopen, vars, iterVars, Return
  <1>8. CASE DropMeta
    BY <1>8, <1>3 DEF DropMeta, CountDown, iterVars
  <1>9. CASE IteratorFails
    <2>1. ASSUME NEW k \in Keys, snap'[k] \in Entry
          PROVE  snap'[k] = snap[k] /\ k \notin rest
      BY <1>9, <2>1, MarkersAssumption DEF IteratorFails
    <2> QED BY <1>9, <2>1 DEF IteratorFails, QueueInv
  <1> QED BY <1>1, <1>2, <1>3, <1>4, <1>5, <1>6, <1>7, <1>8, <1>9
          DEF Next, MainStep, ScanStep, EvictStep

\* Sorting the accumulator puts one of its oldest entries first.
LEMMA SortedHead ==
  ASSUME NEW q \in Seq(Queued), q # <<>>, NEW r \in Sortings(q)
  PROVE  \A i \in DOMAIN q : r[1].entry.time <= q[i].entry.time
  <1>1. /\ r \in Seq(Queued) /\ Len(r) = Len(q) /\ Range(r) = Range(q)
    BY SortingsType
  <1>2. ASSUME NEW i \in DOMAIN q
        PROVE  r[1].entry.time <= q[i].entry.time
    <2>1. PICK j \in DOMAIN r : r[j] = q[i]
      BY <1>1 DEF Range
    <2>2. 1 \in DOMAIN r /\ 1 \in DOMAIN q /\ j \in DOMAIN q /\ j \in Nat
      BY <1>1
    <2>3. r[1].entry.time \in Nat /\ r[j].entry.time \in Nat
      BY <1>1, <2>1, <2>2, QueueTime
    <2>4. j = 1 \/ ~(r[j].entry.time < r[1].entry.time)
      BY <1>1, <2>2 DEF Sortings, Older
    <2> QED BY <2>1, <2>3, <2>4
  <1> QED BY <1>2

\* find_top_entries: no entry of the snapshot is older than the first one the
\* eviction drops.
THEOREM QueueHeadCorrect == Spec => QueueHeadIsOldest
  <1>1. Init => TypeInv /\ QueueInv
    <2>1. Init => QueueInv
      BY DEF Init, QueueInv
    <2> QED BY <2>1, InitType
  <1>2. TypeInv /\ QueueInv /\ [Next]_vars => (TypeInv /\ QueueInv)'
    BY NextType, NextQueue
  <1>3. TypeInv /\ QueueInv /\ [Next]_vars =>
          [SortQueue /\ acc # <<>> =>
             \A k \in Keys : snap[k] \in Entry =>
               acc'[1].entry.time <= snap[k].time]_vars
    <2> SUFFICES ASSUME TypeInv, QueueInv, SortQueue, acc # <<>>,
                        NEW k \in Keys, snap[k] \in Entry
                 PROVE  acc'[1].entry.time <= snap[k].time
      OBVIOUS
    <2>1. acc \in Seq(Queued) /\ acc' \in Sortings(acc)
      BY DEF SortQueue, TypeInv, TypeOK
    <2>2. acc' \in Seq(Queued) /\ Len(acc') = Len(acc)
      BY <2>1, SortingsType
    <2>3. PICK i \in DOMAIN acc : acc[i].entry.time <= snap[k].time
      BY DEF SortQueue, QueueInv
    <2>4. acc'[1].entry.time <= acc[i].entry.time
      BY <2>1, SortedHead
    <2>5. /\ 1 \in DOMAIN acc' /\ acc[i] \in Queued /\ acc'[1] \in Queued
      BY <2>1, <2>2
    <2>6. /\ acc'[1].entry.time \in Nat /\ acc[i].entry.time \in Nat
          /\ snap[k].time \in Nat
      BY <2>5, TimeType
    <2> QED BY <2>3, <2>4, <2>6
  <1> QED BY <1>1, <1>2, <1>3, PTL DEF Spec, QueueHeadIsOldest

-----------------------------------------------------------------------------
(***************************************************************************)
(* The counters cover what is stored.  SizeIsUpperBound compares a counter *)
(* with the records there are; what keeps it so is that it also counts     *)
(*   - the records that saves have announced and not yet put, and          *)
(*   - while the eviction runs, the records of its snapshot, then those of *)
(*     its queue, that another record has replaced since: dropping the key *)
(*     takes the weight of the older record off the counter.               *)
(* Taking a weight off never wraps for that reason, and adding one never   *)
(* does because a counter stays below what a full database and the saves   *)
(* begun so far could weigh.                                               *)
(***************************************************************************)
Record == Entry \cup {Garbled, None}
MetaMaps == [Keys -> Record]
SaveMaps == [Savers -> SaveOp \cup {None}]

\* What a save has added to db_size and not yet put into "meta".
MetaDue(save) == save # None /\ "meta" \in save.todo
Unput(save) == IF MetaDue(save) THEN Size[save.entry.content] ELSE 0
PendingOf(sv) == SumFunction([s \in Savers |-> Unput(sv[s])])

\* With f stored, what the records of f weigh and those of c that f no longer
\* holds.
Charge(f, c, k) == Weigh(f[k]) + IF c[k] # f[k] THEN Weigh(c[k]) ELSE 0
Claimed(f, c) == SumFunction([k \in Keys |-> Charge(f, c, k)])

\* What the records of f outside r weigh.
Past(f, r) == SumFunction([k \in Keys |-> IF k \in r THEN 0 ELSE Weigh(f[k])])

\* A queue as a function on the keys.
Positions(q, k) == {i \in DOMAIN q : q[i].key = k}
QueueMap(q) ==
  [k \in Keys |-> IF Positions(q, k) = {} THEN None
                  ELSE q[CHOOSE i \in Positions(q, k) : TRUE].entry]
Distinct(q) == \A i, j \in DOMAIN q : q[i].key = q[j].key => i = j

\* The records the eviction is about to take off its counter.
Claim == IF mpc = "gather" THEN snap
         ELSE IF mpc = "evict" THEN QueueMap(acc) ELSE NoSnap

\* A weight no payload exceeds, and what all records and n saves could weigh.
Fits(m) == /\ \A c \in Contents : Size[c] <= m
           /\ m * (Cardinality(Keys) + MaxSaves) < U64
Heaviest == CHOOSE m \in Nat : Fits(m)
Limit(n) == Heaviest * (Cardinality(Keys) + n)

Covers(x, c, f, sv, n) == x >= Claimed(f, c) + PendingOf(sv) /\ x <= Limit(n)

CountersCover ==
  /\ Up /\ ~raced => Covers(dbSize, NoSnap, meta, saves, nsaves)
  /\ mpc \in MidLoop /\ ~racing => Covers(sz, Claim, meta, saves, nsaves)

\* fetch_real_size sums its snapshot, and while no save interferes everything
\* stored is in the snapshot.
ScanCounts ==
  mpc = "scan" =>
    /\ sz = Past(snap, rest)
    /\ ~racing => /\ \A s \in Savers : ~MetaDue(saves[s])
                  /\ \A k \in Keys : meta[k] \in Entry => meta[k] = snap[k]

\* The accumulator holds entries of the snapshot already yielded, no key twice,
\* and drop_entry is called with the head of the queue.
QueueClaims ==
  /\ mpc = "gather" => \A i \in DOMAIN acc : /\ acc[i].key \notin rest
                                             /\ acc[i].entry = snap[acc[i].key]
  /\ mpc \in {"gather", "evict"} => Distinct(acc)
  /\ mpc = "evict" => victim \in {None, Head(acc).key}

SizeInv == CountersCover /\ ScanCounts /\ QueueClaims

\* The heaviest payload and the limit of the counters.
LEMMA HeaviestType ==
  /\ Heaviest \in Nat
  /\ \A c \in Contents : Size[c] <= Heaviest
  /\ Heaviest * (Cardinality(Keys) + MaxSaves) < U64
  <1>1. \E m \in Nat : Fits(m)
    <2>1. PICK m \in 0 .. U64 : Fits(m)
      BY CapacityAssumption DEF Fits
    <2> QED BY <2>1
  <1>2. Heaviest \in Nat /\ Fits(Heaviest)
    BY <1>1 DEF Heaviest
  <1> QED BY <1>2 DEF Fits

LEMMA LimitType ==
  ASSUME NEW n \in 0 .. MaxSaves
  PROVE  /\ Limit(n) \in Nat /\ Limit(n) < U64 /\ Limit(0) <= Limit(n)
         /\ Limit(n + 1) = Limit(n) + Heaviest
         /\ Limit(0) = Heaviest * Cardinality(Keys)
  <1>1. /\ Cardinality(Keys) \in Nat /\ MaxSaves \in Nat /\ n \in Nat
        /\ MaxSaves - n \in Nat /\ U64 \in Nat
    BY FS_CardinalityType, FiniteAssumption, BoundsAssumption
  <1>2. Heaviest \in Nat
    BY HeaviestType
  <1> DEFINE c == Cardinality(Keys)
  <1> HIDE DEF c
  <1>3. c \in Nat /\ c + n \in Nat
    BY <1>1 DEF c
  <1>4. /\ Heaviest * (c + n) \in Nat /\ Heaviest * n \in Nat
        /\ Heaviest * (MaxSaves - n) \in Nat
    BY <1>1, <1>2, <1>3
  <1>5. /\ Heaviest * (c + n + 1) = Heaviest * (c + n) + Heaviest
        /\ Heaviest * (c + n) = Heaviest * c + Heaviest * n
    BY <1>1, <1>2, <1>3
  <1>6. Heaviest * (c + MaxSaves)
          = Heaviest * (c + n) + Heaviest * (MaxSaves - n)
    BY <1>1, <1>2, <1>3
  <1>7. Heaviest * (c + MaxSaves) < U64
    BY HeaviestType DEF c
  <1>8. Limit(n) < U64
    BY <1>1, <1>4, <1>6, <1>7 DEF Limit, c
  <1>9. c + (n + 1) = c + n + 1 /\ c + 0 = c
    BY <1>1, <1>3
  <1>10. Heaviest * c \in Nat
    BY <1>2, <1>3
  <1> QED BY <1>4, <1>5, <1>8, <1>9, <1>10 DEF Limit, c

\* % U64 changes nothing below U64 and takes one U64 off above.
LEMMA ModSmall ==
  ASSUME NEW x \in Nat, x < U64
  PROVE  x % U64 = x /\ (x + U64) % U64 = x
  BY BoundsAssumption

LEMMA WeighType ==
  ASSUME NEW r \in Record
  PROVE  /\ Weigh(r) \in Nat /\ Weigh(r) <= Heaviest
         /\ r \in Entry => Weigh(r) = Size[r.content]
         /\ Weigh(None) = 0 /\ Weigh(Garbled) = 0
  <1>1. \A e \in Entry : Size[e.content] \in Nat /\ Size[e.content] <= Heaviest
    BY HeaviestType, SizeAssumption DEF Entry
  <1> QED BY <1>1, HeaviestType, MarkersAssumption DEF Weigh, Record

LEMMA UnputType ==
  ASSUME NEW save \in SaveOp \cup {None}
  PROVE  Unput(save) \in Nat /\ Unput(None) = 0
  BY SizeType DEF Unput, MetaDue, SaveOp

LEMMA PendingType ==
  ASSUME NEW sv \in SaveMaps
  PROVE  PendingOf(sv) \in Nat
  <1> DEFINE w == [s \in Savers |-> Unput(sv[s])]
  <1>1. w \in [Savers -> Nat]
    BY UnputType DEF SaveMaps
  <1> HIDE DEF w
  <1>2. SumFunction(w) \in Nat
    BY <1>1, SumType, FiniteAssumption
  <1> QED BY <1>2 DEF PendingOf, w

\* The charge of a key is a number.
LEMMA ChargeType ==
  ASSUME NEW f \in MetaMaps, NEW c \in MetaMaps
  PROVE  /\ [k \in Keys |-> Charge(f, c, k)] \in [Keys -> Nat]
         /\ Claimed(f, c) \in Nat
  <1> DEFINE w == [k \in Keys |-> Charge(f, c, k)]
  <1>1. w \in [Keys -> Nat]
    BY WeighType DEF Charge, MetaMaps
  <1> HIDE DEF w
  <1>2. SumFunction(w) \in Nat
    BY <1>1, SumType, FiniteAssumption
  <1> QED BY <1>1, <1>2 DEF Claimed, w

\* Every key is charged no more, so neither is the whole.
LEMMA ClaimedLess ==
  ASSUME NEW f \in MetaMaps, NEW c \in MetaMaps, NEW g \in MetaMaps,
         NEW d \in MetaMaps,
         \A k \in Keys : g[k] \in {f[k], None} /\ d[k] \in {c[k], None}
  PROVE  Claimed(g, d) <= Claimed(f, c)
  <1> DEFINE u == [k \in Keys |-> Charge(g, d, k)]
             w == [k \in Keys |-> Charge(f, c, k)]
  <1>1. u \in [Keys -> Nat] /\ w \in [Keys -> Nat]
    BY ChargeType
  <1>2. ASSUME NEW k \in Keys  PROVE u[k] <= w[k]
    <2>1. Weigh(f[k]) \in Nat /\ Weigh(c[k]) \in Nat /\ Weigh(None) = 0
      BY WeighType DEF MetaMaps
    <2>2. u[k] = Charge(g, d, k) /\ w[k] = Charge(f, c, k)
      OBVIOUS
    <2>3. Charge(g, d, k) <= Charge(f, c, k)
      BY <2>1 DEF Charge
    <2> QED BY <2>2, <2>3
  <1> HIDE DEF u, w
  <1>3. SumFunction(u) <= SumFunction(w)
    BY <1>1, <1>2, SumMonotone, FiniteAssumption
  <1> QED BY <1>3 DEF Claimed, u, w

\* One key is charged differently.
LEMMA ClaimedUpdate ==
  ASSUME NEW f \in MetaMaps, NEW c \in MetaMaps, NEW g \in MetaMaps,
         NEW d \in MetaMaps, NEW k \in Keys,
         \A j \in Keys \ {k} : g[j] = f[j] /\ d[j] = c[j]
  PROVE  Claimed(g, d) + Charge(f, c, k) = Claimed(f, c) + Charge(g, d, k)
  <1> DEFINE u == [j \in Keys |-> Charge(f, c, j)]
             w == [j \in Keys |-> Charge(g, d, j)]
  <1>1. u \in [Keys -> Nat] /\ w \in [Keys -> Nat]
    BY ChargeType
  <1>2. \A j \in Keys \ {k} : w[j] = u[j]
    BY DEF Charge
  <1>3. u[k] = Charge(f, c, k) /\ w[k] = Charge(g, d, k)
    OBVIOUS
  <1> HIDE DEF u, w
  <1>4. SumFunction(w) + u[k] = SumFunction(u) + w[k]
    BY <1>1, <1>2, SumUpdate, FiniteAssumption
  <1> QED BY <1>3, <1>4 DEF Claimed, u, w

\* A snapshot just taken, and no snapshot, claim what is stored.
LEMMA ClaimedNothing ==
  ASSUME NEW f \in MetaMaps
  PROVE  /\ Claimed(f, NoSnap) = Past(f, {})
         /\ Claimed(f, f) = Past(f, {})
         /\ NoSnap \in MetaMaps
  <1>1. \A k \in Keys : Weigh(f[k]) \in Nat /\ Weigh(None) = 0
    BY WeighType DEF MetaMaps
  <1>2. \A k \in Keys : /\ Charge(f, NoSnap, k) = Weigh(f[k])
                        /\ Charge(f, f, k) = Weigh(f[k])
    BY <1>1 DEF Charge, NoSnap
  <1>3. /\ [k \in Keys |-> Charge(f, NoSnap, k)] = [k \in Keys |-> Weigh(f[k])]
        /\ [k \in Keys |-> Charge(f, f, k)] = [k \in Keys |-> Weigh(f[k])]
    BY <1>2
  <1>4. [k \in Keys |-> IF k \in {} THEN 0 ELSE Weigh(f[k])]
          = [k \in Keys |-> Weigh(f[k])]
    OBVIOUS
  <1> QED BY <1>3, <1>4 DEF Claimed, Past, NoSnap, MetaMaps, Record

\* A scan begins past nothing, ends past everything, and adds one record at a
\* time; what it has not reached when its iterator ends is as if not stored.
LEMMA PastSteps ==
  ASSUME NEW f \in MetaMaps, NEW r \in SUBSET Keys
  PROVE  /\ Past(f, r) \in Nat /\ Past(f, r) <= Limit(0)
         /\ (\A k \in Keys \ r : f[k] = None) => Past(f, r) = 0
         /\ \A k \in r : Past(f, r \ {k}) = Past(f, r) + Weigh(f[k])
         /\ Past([k \in Keys |-> IF k \in r THEN None ELSE f[k]], {})
              = Past(f, r)
  <1> DEFINE w(s) == [k \in Keys |-> IF k \in s THEN 0 ELSE Weigh(f[k])]
  <1>1. \A k \in Keys : /\ Weigh(f[k]) \in Nat /\ Weigh(f[k]) <= Heaviest
                        /\ Weigh(None) = 0
    BY WeighType DEF MetaMaps
  <1>2. \A s \in SUBSET Keys : w(s) \in [Keys -> Nat]
    BY <1>1
  <1>3. Past(f, r) \in Nat /\ Past(f, r) <= Limit(0)
    <2> DEFINE u == w(r)
    <2>1. u \in [Keys -> Nat] /\ \A k \in Keys : u[k] <= Heaviest
      BY <1>1, HeaviestType
    <2> HIDE DEF u
    <2>2. /\ SumFunction(u) \in Nat
          /\ SumFunction(u) <= Heaviest * Cardinality(Keys)
      BY <2>1, SumType, SumBound, FiniteAssumption, HeaviestType
    <2>3. Limit(0) = Heaviest * Cardinality(Keys)
      BY LimitType, BoundsAssumption
    <2> QED BY <2>2, <2>3 DEF Past, u
  <1>4. ASSUME \A k \in Keys \ r : f[k] = None  PROVE Past(f, r) = 0
    <2> DEFINE u == w(r)
    <2>1. u \in [Keys -> Nat] /\ \A k \in Keys : u[k] = 0
      BY <1>1, <1>4
    <2> HIDE DEF u
    <2>2. SumFunction(u) = 0
      BY <2>1, SumZero, FiniteAssumption
    <2> QED BY <2>2 DEF Past, u
  <1>5. ASSUME NEW k \in r
        PROVE  Past(f, r \ {k}) = Past(f, r) + Weigh(f[k])
    <2> DEFINE u == w(r)  v == w(r \ {k})
    <2>1. u \in [Keys -> Nat] /\ v \in [Keys -> Nat] /\ k \in Keys
      BY <1>2
    <2>2. /\ \A x \in Keys \ {k} : v[x] = u[x]
          /\ u[k] = 0 /\ v[k] = Weigh(f[k])
      OBVIOUS
    <2> HIDE DEF u, v
    <2>3. SumFunction(v) + u[k] = SumFunction(u) + v[k]
      BY <2>1, <2>2, SumUpdate, FiniteAssumption
    <2>4. SumFunction(v) \in Nat
      BY <2>1, SumType, FiniteAssumption
    <2> QED BY <2>2, <2>3, <2>4 DEF Past, u, v
  <1>6. [k \in Keys |-> IF k \in {} THEN 0 ELSE
            Weigh([j \in Keys |-> IF j \in r THEN None ELSE f[j]][k])] = w(r)
    BY <1>1
  <1> QED BY <1>3, <1>4, <1>5, <1>6 DEF Past

\* What the saves have announced and not yet put.
LEMMA PendingLess ==
  ASSUME NEW sv \in SaveMaps, NEW tv \in SaveMaps,
         \A s \in Savers : Unput(tv[s]) <= Unput(sv[s])
  PROVE  PendingOf(tv) <= PendingOf(sv)
  <1> DEFINE u == [s \in Savers |-> Unput(tv[s])]
             w == [s \in Savers |-> Unput(sv[s])]
  <1>1. /\ u \in [Savers -> Nat] /\ w \in [Savers -> Nat]
        /\ \A s \in Savers : u[s] <= w[s]
    BY UnputType DEF SaveMaps
  <1> HIDE DEF u, w
  <1>2. SumFunction(u) <= SumFunction(w)
    BY <1>1, SumMonotone, FiniteAssumption
  <1> QED BY <1>2 DEF PendingOf, u, w

LEMMA PendingUpdate ==
  ASSUME NEW sv \in SaveMaps, NEW tv \in SaveMaps, NEW s \in Savers,
         \A t \in Savers \ {s} : Unput(tv[t]) = Unput(sv[t])
  PROVE  PendingOf(tv) + Unput(sv[s]) = PendingOf(sv) + Unput(tv[s])
  <1> DEFINE u == [t \in Savers |-> Unput(sv[t])]
             w == [t \in Savers |-> Unput(tv[t])]
  <1>1. /\ u \in [Savers -> Nat] /\ w \in [Savers -> Nat]
        /\ \A t \in Savers \ {s} : w[t] = u[t]
        /\ u[s] = Unput(sv[s]) /\ w[s] = Unput(tv[s])
    BY UnputType DEF SaveMaps
  <1> HIDE DEF u, w
  <1>2. SumFunction(w) + u[s] = SumFunction(u) + w[s]
    BY <1>1, SumUpdate, FiniteAssumption
  <1> QED BY <1>1, <1>2 DEF PendingOf, u, w

LEMMA PendingNothing ==
  ASSUME NEW sv \in SaveMaps, \A s \in Savers : Unput(sv[s]) = 0
  PROVE  PendingOf(sv) = 0
  <1> DEFINE w == [s \in Savers |-> Unput(sv[s])]
  <1>1. w \in [Savers -> Nat] /\ \A s \in Savers : w[s] = 0
    OBVIOUS
  <1> HIDE DEF w
  <1>2. SumFunction(w) = 0
    BY <1>1, SumZero, FiniteAssumption
  <1> QED BY <1>2 DEF PendingOf, w

\* A counter covers what is left when records, claims or saves go.
LEMMA CoversLess ==
  ASSUME NEW x \in Nat, NEW n \in 0 .. MaxSaves,
         NEW f \in MetaMaps, NEW c \in MetaMaps, NEW sv \in SaveMaps,
         NEW g \in MetaMaps, NEW d \in MetaMaps, NEW tv \in SaveMaps,
         \A k \in Keys : g[k] \in {f[k], None} /\ d[k] \in {c[k], None},
         \A s \in Savers : Unput(tv[s]) \in {0, Unput(sv[s])},
         Covers(x, c, f, sv, n)
  PROVE  Covers(x, d, g, tv, n)
  <1>1. Claimed(g, d) <= Claimed(f, c)
    BY ClaimedLess
  <1>2. \A s \in Savers : Unput(tv[s]) <= Unput(sv[s])
    BY UnputType DEF SaveMaps
  <1>3. PendingOf(tv) <= PendingOf(sv)
    BY <1>2, PendingLess
  <1>4. /\ Claimed(g, d) \in Nat /\ Claimed(f, c) \in Nat
        /\ PendingOf(tv) \in Nat /\ PendingOf(sv) \in Nat
    BY ChargeType, PendingType
  <1> QED BY <1>1, <1>3, <1>4 DEF Covers

\* save_entry announces a record before it puts it, and the counter does not
\* overflow.
LEMMA CoversBegin ==
  ASSUME NEW x \in Nat, NEW n \in 0 .. MaxSaves, n < MaxSaves,
         NEW f \in MetaMaps, NEW c \in MetaMaps,
         NEW sv \in SaveMaps, NEW tv \in SaveMaps, NEW s \in Savers,
         NEW e \in Entry,
         \A t \in Savers \ {s} : Unput(tv[t]) = Unput(sv[t]),
         Unput(sv[s]) = 0, Unput(tv[s]) = Size[e.content],
         Covers(x, c, f, sv, n)
  PROVE  Covers((x + Size[e.content]) % U64, c, f, tv, n + 1)
  <1>1. Size[e.content] \in Nat /\ Size[e.content] <= Heaviest
    BY HeaviestType, SizeAssumption DEF Entry
  <1>2. PendingOf(tv) = PendingOf(sv) + Size[e.content]
    <2>1. PendingOf(tv) \in Nat /\ PendingOf(sv) \in Nat
      BY PendingType
    <2> QED BY <1>1, <2>1, PendingUpdate
  <1>3. /\ Limit(n) \in Nat /\ Limit(n + 1) = Limit(n) + Heaviest
        /\ Limit(n + 1) < U64 /\ Heaviest \in Nat
    <2>1. n + 1 \in 0 .. MaxSaves
      BY BoundsAssumption
    <2> QED BY <2>1, LimitType, HeaviestType
  <1>4. x + Size[e.content] <= Limit(n + 1) /\ x + Size[e.content] \in Nat
    BY <1>1, <1>3 DEF Covers
  <1>5. (x + Size[e.content]) % U64 = x + Size[e.content]
    BY <1>3, <1>4, ModSmall, BoundsAssumption
  <1>6. /\ Claimed(f, c) \in Nat /\ PendingOf(sv) \in Nat
    BY ChargeType, PendingType
  <1> QED BY <1>1, <1>2, <1>4, <1>5, <1>6 DEF Covers

\* A put stores what its save has announced; the record it replaces may still be
\* claimed.
LEMMA CoversPut ==
  ASSUME NEW x \in Nat, NEW n \in 0 .. MaxSaves,
         NEW f \in MetaMaps, NEW c \in MetaMaps,
         NEW sv \in SaveMaps, NEW tv \in SaveMaps, NEW s \in Savers,
         NEW k \in Keys, NEW e \in Entry,
         \A t \in Savers \ {s} : Unput(tv[t]) = Unput(sv[t]),
         Unput(sv[s]) = Size[e.content], Unput(tv[s]) = 0,
         Covers(x, c, f, sv, n)
  PROVE  Covers(x, c, [f EXCEPT ![k] = e], tv, n)
  <1> DEFINE g == [f EXCEPT ![k] = e]
  <1>1. g \in MetaMaps /\ g[k] = e /\ \A j \in Keys \ {k} : g[j] = f[j]
    BY DEF MetaMaps, Record
  <1>2. /\ Weigh(e) = Size[e.content] /\ Weigh(e) \in Nat
        /\ Weigh(f[k]) \in Nat /\ Weigh(c[k]) \in Nat
    BY WeighType DEF MetaMaps, Record
  <1>3. PendingOf(sv) = PendingOf(tv) + Size[e.content]
    <2>1. PendingOf(tv) \in Nat /\ PendingOf(sv) \in Nat
      BY PendingType
    <2> QED BY <1>2, <2>1, PendingUpdate
  <1> HIDE DEF g
  <1>4. Claimed(g, c) + Charge(f, c, k) = Claimed(f, c) + Charge(g, c, k)
    BY <1>1, ClaimedUpdate
  <1>5. /\ Charge(f, c, k) \in Nat /\ Charge(g, c, k) \in Nat
        /\ Charge(g, c, k) <= Charge(f, c, k) + Size[e.content]
    BY <1>1, <1>2 DEF Charge
  <1>6. /\ Claimed(g, c) \in Nat /\ Claimed(f, c) \in Nat
        /\ PendingOf(tv) \in Nat
    BY <1>1, ChargeType, PendingType
  <1>7. Covers(x, c, g, tv, n)
    BY <1>2, <1>3, <1>4, <1>5, <1>6 DEF Covers
  <1> QED BY <1>7 DEF g

\* Dropping a key gives back at least the weight of the record claimed there, so
\* that taking it off the counter does not wrap.
LEMMA CoversDrop ==
  ASSUME NEW x \in Nat, NEW n \in 0 .. MaxSaves,
         NEW f \in MetaMaps, NEW c \in MetaMaps, NEW d \in MetaMaps,
         NEW sv \in SaveMaps, NEW k \in Keys, c[k] \in Entry,
         d[k] = None, \A j \in Keys \ {k} : d[j] = c[j],
         Covers(x, c, f, sv, n)
  PROVE  Covers((x + U64 - Size[c[k].content]) % U64, d,
                [f EXCEPT ![k] = None], sv, n)
  <1> DEFINE g == [f EXCEPT ![k] = None]  w == Size[c[k].content]
  <1>1. g \in MetaMaps /\ g[k] = None /\ \A j \in Keys \ {k} : g[j] = f[j]
    BY DEF MetaMaps, Record
  <1>2. /\ Weigh(c[k]) = w /\ w \in Nat
        /\ Weigh(f[k]) \in Nat /\ Weigh(None) = 0
    BY WeighType DEF MetaMaps, Record
  <1> HIDE DEF g, w
  <1>3. Claimed(g, d) + Charge(f, c, k) = Claimed(f, c) + Charge(g, d, k)
    BY <1>1, ClaimedUpdate
  <1>4. /\ Charge(g, d, k) = 0 /\ Charge(f, c, k) \in Nat
        /\ Charge(f, c, k) >= w
    BY <1>1, <1>2 DEF Charge
  <1>5. /\ Claimed(g, d) \in Nat /\ Claimed(f, c) \in Nat
        /\ PendingOf(sv) \in Nat
    BY <1>1, ChargeType, PendingType
  <1>6. Claimed(g, d) + w <= Claimed(f, c)
    BY <1>2, <1>3, <1>4, <1>5
  <1>7. x - w \in Nat /\ x - w <= x /\ x < U64
    <2>1. Limit(n) \in Nat /\ Limit(n) < U64
      BY LimitType
    <2> QED BY <1>2, <1>5, <1>6, <2>1, BoundsAssumption DEF Covers
  <1>8. x + U64 - w = (x - w) + U64 /\ x - w < U64
    BY <1>2, <1>7, BoundsAssumption
  <1>9. (x + U64 - w) % U64 = x - w
    BY <1>7, <1>8, ModSmall
  <1>10. Limit(n) \in Nat
    BY LimitType
  <1>11. Covers(x - w, d, g, sv, n)
    BY <1>2, <1>5, <1>6, <1>7, <1>10 DEF Covers
  <1> QED BY <1>9, <1>11 DEF g, w

\* A queue without repetitions as a function on the keys: each entry is found
\* under its key, sorting changes nothing, and taking the head off removes it.
LEMMA QueueMapType ==
  ASSUME NEW q \in Seq(Queued)
  PROVE  /\ QueueMap(q) \in MetaMaps
         /\ Distinct(q) => \A i \in DOMAIN q : QueueMap(q)[q[i].key] = q[i].entry
         /\ \A k \in Keys : (\A i \in DOMAIN q : q[i].key # k)
                              => QueueMap(q)[k] = None
  <1>1. \A i \in DOMAIN q : q[i].key \in Keys /\ q[i].entry \in Entry
    <2>1. \A i \in DOMAIN q : q[i] \in Queued
      OBVIOUS
    <2> QED BY <2>1 DEF Queued
  <1>2. ASSUME NEW k \in Keys, Positions(q, k) # {}
        PROVE  (CHOOSE i \in Positions(q, k) : TRUE) \in Positions(q, k)
    BY <1>2
  <1>3. ASSUME NEW k \in Keys
        PROVE  QueueMap(q)[k] \in Record
    <2>1. CASE Positions(q, k) = {}
      BY <2>1 DEF QueueMap, Record
    <2>2. CASE Positions(q, k) # {}
      BY <1>1, <1>2, <2>2 DEF QueueMap, Record, Positions
    <2> QED BY <2>1, <2>2
  <1>4. QueueMap(q) \in MetaMaps
    BY <1>3 DEF QueueMap, MetaMaps
  <1>5. ASSUME Distinct(q), NEW i \in DOMAIN q
        PROVE  QueueMap(q)[q[i].key] = q[i].entry
    <2> DEFINE k == q[i].key
    <2>1. Positions(q, k) = {i} /\ k \in Keys
      BY <1>1, <1>5 DEF Positions, Distinct
    <2> HIDE DEF k
    <2>2. (CHOOSE j \in Positions(q, k) : TRUE) = i /\ Positions(q, k) # {}
      BY <2>1
    <2>3. QueueMap(q)[k] = q[i].entry
      BY <2>1, <2>2 DEF QueueMap
    <2> QED BY <2>3 DEF k
  <1>6. ASSUME NEW k \in Keys, \A i \in DOMAIN q : q[i].key # k
        PROVE  QueueMap(q)[k] = None
    BY <1>6 DEF QueueMap, Positions
  <1> QED BY <1>4, <1>5, <1>6

LEMMA QueueTail ==
  ASSUME NEW q \in Seq(Queued), q # <<>>, Distinct(q)
  PROVE  /\ Tail(q) \in Seq(Queued) /\ Distinct(Tail(q))
         /\ Head(q) \in Queued /\ QueueMap(q)[Head(q).key] = Head(q).entry
         /\ QueueMap(Tail(q))[Head(q).key] = None
         /\ \A k \in Keys \ {Head(q).key} : QueueMap(Tail(q))[k] = QueueMap(q)[k]
  <1>1. /\ Len(q) \in Nat \ {0} /\ DOMAIN q = 1 .. Len(q)
        /\ Tail(q) \in Seq(Queued) /\ DOMAIN Tail(q) = 1 .. Len(q) - 1
        /\ \A i \in 1 .. Len(q) - 1 : Tail(q)[i] = q[i + 1]
        /\ Head(q) = q[1] /\ Head(q) \in Queued
    OBVIOUS
  <1>2. \A i \in 1 .. Len(q) - 1 : i + 1 \in DOMAIN q /\ i + 1 # 1
    BY <1>1
  <1>3. Distinct(Tail(q))
    BY <1>1, <1>2 DEF Distinct
  <1>4. \A i \in DOMAIN Tail(q) : Tail(q)[i].key # Head(q).key
    BY <1>1, <1>2 DEF Distinct
  <1>5. Head(q).key \in Keys /\ 1 \in DOMAIN q
    BY <1>1 DEF Queued
  <1>6. ASSUME NEW k \in Keys, k # Head(q).key
        PROVE  QueueMap(Tail(q))[k] = QueueMap(q)[k]
    <2>1. CASE \E i \in DOMAIN Tail(q) : Tail(q)[i].key = k
      <3>1. PICK i \in DOMAIN Tail(q) : Tail(q)[i].key = k
        BY <2>1
      <3>2. i + 1 \in DOMAIN q /\ Tail(q)[i] = q[i + 1] /\ q[i + 1].key = k
        BY <1>1, <1>2, <3>1
      <3>3. QueueMap(Tail(q))[k] = Tail(q)[i].entry
        BY <1>1, <1>3, <3>1, QueueMapType
      <3>4. QueueMap(q)[k] = q[i + 1].entry
        BY <3>2, QueueMapType
      <3> QED BY <3>2, <3>3, <3>4
    <2>2. CASE \A i \in DOMAIN Tail(q) : Tail(q)[i].key # k
      <3>1. ASSUME NEW j \in DOMAIN q  PROVE q[j].key # k
        <4>1. CASE j = 1
          BY <1>1, <1>6, <4>1
        <4>2. CASE j # 1
          <5>1. j - 1 \in 1 .. Len(q) - 1 /\ (j - 1) + 1 = j
            BY <1>1, <4>2
          <5> QED BY <1>1, <2>2, <5>1
        <4> QED BY <4>1, <4>2
      <3> QED BY <1>1, <2>2, <3>1, QueueMapType
    <2> QED BY <2>1, <2>2
  <1>7. QueueMap(q)[Head(q).key] = Head(q).entry
    BY <1>1, <1>5, QueueMapType
  <1>8. QueueMap(Tail(q))[Head(q).key] = None
    BY <1>1, <1>4, <1>5, QueueMapType
  <1> QED BY <1>1, <1>3, <1>6, <1>7, <1>8

LEMMA QueueSorted ==
  ASSUME NEW q \in Seq(Queued), Distinct(q), NEW r \in Sortings(q)
  PROVE  r \in Seq(Queued) /\ Distinct(r) /\ QueueMap(r) = QueueMap(q)
  <1>1. r \in Seq(Queued) /\ Len(r) = Len(q) /\ Range(r) = Range(q)
    BY SortingsType
  <1>2. \A i, j \in DOMAIN q : r[i] = r[j] => i = j
    BY DEF Sortings, Bijection, Injection, IsInjective
  <1>3. /\ \A i \in DOMAIN r : \E a \in DOMAIN q : r[i] = q[a]
        /\ \A a \in DOMAIN q : \E i \in DOMAIN r : r[i] = q[a]
        /\ DOMAIN r = DOMAIN q
    <2>1. DOMAIN r = DOMAIN q
      BY <1>1
    <2>2. \A i \in DOMAIN r : r[i] \in Range(q)
      BY <1>1 DEF Range
    <2>3. \A a \in DOMAIN q : q[a] \in Range(r)
      BY <1>1 DEF Range
    <2> QED BY <2>1, <2>2, <2>3 DEF Range
  <1>4. Distinct(r)
    <2>1. SUFFICES ASSUME NEW i \in DOMAIN r, NEW j \in DOMAIN r,
                          r[i].key = r[j].key
                   PROVE  i = j
      BY DEF Distinct
    <2>2. PICK a \in DOMAIN q, b \in DOMAIN q : r[i] = q[a] /\ r[j] = q[b]
      BY <1>3
    <2>3. a = b
      BY <2>1, <2>2 DEF Distinct
    <2> QED BY <1>2, <1>3, <2>2, <2>3
  <1>5. ASSUME NEW k \in Keys  PROVE QueueMap(r)[k] = QueueMap(q)[k]
    <2>1. CASE \E i \in DOMAIN r : r[i].key = k
      <3>1. PICK i \in DOMAIN r, a \in DOMAIN q : r[i].key = k /\ r[i] = q[a]
        BY <1>3, <2>1
      <3>2. QueueMap(r)[k] = r[i].entry
        BY <1>1, <1>4, <3>1, QueueMapType
      <3>3. QueueMap(q)[k] = q[a].entry
        BY <3>1, QueueMapType
      <3> QED BY <3>1, <3>2, <3>3
    <2>2. CASE \A i \in DOMAIN r : r[i].key # k
      <3>1. \A a \in DOMAIN q : q[a].key # k
        BY <1>3, <2>2
      <3> QED BY <1>1, <2>2, <3>1, QueueMapType
    <2> QED BY <2>1, <2>2
  <1> QED BY <1>1, <1>4, <1>5 DEF QueueMap

\* What find_top_entries makes of an entry of a new key.
LEMMA OfferClaims ==
  ASSUME acc \in Seq(Queued), Distinct(acc), NEW x \in Queued, Offer(x),
         \A i \in DOMAIN acc : acc[i].key # x.key
  PROVE  /\ Distinct(acc')
         /\ \A j \in DOMAIN acc' : \/ acc'[j] = x
                                   \/ \E i \in DOMAIN acc : acc'[j] = acc[i]
  <1>1. CASE acc' = Append(acc, x)
    <2>1. /\ Len(acc) \in Nat /\ DOMAIN acc = 1 .. Len(acc)
          /\ DOMAIN acc' = 1 .. Len(acc) + 1
          /\ \A i \in DOMAIN acc : acc'[i] = acc[i]
          /\ acc'[Len(acc) + 1] = x
      BY <1>1
    <2>2. \A j \in DOMAIN acc' : j \in DOMAIN acc \/ j = Len(acc) + 1
      BY <2>1
    <2> QED BY <2>1, <2>2 DEF Distinct
  <1>2. ASSUME NEW i \in Displaceable(x), acc' = [acc EXCEPT ![i] = x]
        PROVE  /\ Distinct(acc')
               /\ \A j \in DOMAIN acc' : \/ acc'[j] = x
                                         \/ \E h \in DOMAIN acc : acc'[j] = acc[h]
    <2>1. /\ i \in DOMAIN acc /\ DOMAIN acc' = DOMAIN acc /\ acc'[i] = x
          /\ \A h \in DOMAIN acc \ {i} : acc'[h] = acc[h]
      BY <1>2 DEF Displaceable
    <2> QED BY <2>1 DEF Distinct
  <1>3. CASE UNCHANGED acc
    BY <1>3
  <1> QED BY <1>1, <1>2, <1>3 DEF Offer

\* A queue of entries of a snapshot claims no more than the snapshot.
LEMMA QueueOfSnapshot ==
  ASSUME NEW q \in Seq(Queued), Distinct(q), NEW f \in MetaMaps,
         \A i \in DOMAIN q : q[i].entry = f[q[i].key]
  PROVE  \A k \in Keys : QueueMap(q)[k] \in {f[k], None}
  <1>1. ASSUME NEW k \in Keys, \E i \in DOMAIN q : q[i].key = k
        PROVE  QueueMap(q)[k] = f[k]
    BY <1>1, QueueMapType
  <1> QED BY <1>1, QueueMapType

\* The maps the counters are compared with.
LEMMA MapTypes ==
  ASSUME TypeInv
  PROVE  /\ meta \in MetaMaps /\ snap \in MetaMaps /\ NoSnap \in MetaMaps
         /\ QueueMap(acc) \in MetaMaps /\ Claim \in MetaMaps
         /\ saves \in SaveMaps /\ acc \in Seq(Queued)
         /\ nsaves \in 0 .. MaxSaves /\ dbSize \in Nat /\ sz \in Nat
         /\ rest \in SUBSET Keys
  <1>1. /\ meta \in MetaMaps /\ snap \in MetaMaps /\ saves \in SaveMaps
        /\ acc \in Seq(Queued) /\ nsaves \in 0 .. MaxSaves
        /\ dbSize \in Nat /\ sz \in Nat /\ rest \in SUBSET Keys
    BY DEF TypeInv, TypeOK, MetaMaps, SaveMaps, Record
  <1>2. QueueMap(acc) \in MetaMaps /\ NoSnap \in MetaMaps
    BY <1>1, QueueMapType, ClaimedNothing
  <1> QED BY <1>1, <1>2 DEF Claim

\* Marking saves as contended changes nothing of what they have yet to put.
LEMMA ContendUnput ==
  ASSUME TypeInv, NEW k \in Keys, NEW s \in Savers
  PROVE  /\ MetaDue(Contend(k)[s]) <=> MetaDue(saves[s])
         /\ Unput(Contend(k)[s]) = Unput(saves[s])
  <1>1. CASE s \notin Saving(k)
    BY <1>1 DEF Contend
  <1>2. CASE s \in Saving(k)
    <2>1. /\ saves[s] \in SaveOp /\ saves[s] # None
          /\ Contend(k)[s] = [saves[s] EXCEPT !.alone = FALSE]
      BY <1>2 DEF Saving, Contend, TypeInv, TypeOK
    <2>2. /\ Contend(k)[s] \in SaveOp
          /\ Contend(k)[s].todo = saves[s].todo
          /\ Contend(k)[s].entry = saves[s].entry
      BY <2>1 DEF SaveOp
    <2>3. Contend(k)[s] # None
      BY <2>2, MarkersAssumption
    <2> QED BY <2>1, <2>2, <2>3 DEF MetaDue, Unput
  <1> QED BY <1>1, <1>2

\* save_entry, up to its two puts: from here on its record is counted.
LEMMA SaveBeginSize ==
  ASSUME TypeInv, TypeInv', SizeInv, NEW s \in Savers, NEW k \in Keys,
         NEW e \in Entry, SaveBegin(s, k, e)
  PROVE  SizeInv'
  <1>1. /\ UNCHANGED <<meta, mpc, ctx, snap, rest, sz, acc, victim, raced>>
        /\ racing' = (racing \/ mpc \in {"scan", "open", "gather", "evict",
                                         "finish"})
        /\ nsaves' = nsaves + 1 /\ nsaves < MaxSaves
        /\ dbSize' = (dbSize + Size[e.content]) % U64
    BY DEF SaveBegin, dbVars, iterVars, dropVars
  <1>2. /\ saves[s] = None
        /\ saves'[s].todo = ColumnFamily /\ saves'[s].entry = e
        /\ \A t \in Savers \ {s} : saves'[t] = Contend(k)[t]
    BY DEF SaveBegin, Contend
  <1>3. saves'[s] # None
    <2>1. [key |-> k, entry |-> e, todo |-> ColumnFamily,
           alone |-> ~(Saving(k) # {} \/ victim = k)] \in SaveOp
      BY DEF SaveOp
    <2> QED BY <2>1, MarkersAssumption DEF SaveBegin, Contend
  <1>4. Unput(saves[s]) = 0 /\ Unput(saves'[s]) = Size[e.content]
    BY <1>2, <1>3 DEF Unput, MetaDue
  <1>5. \A t \in Savers \ {s} : Unput(saves'[t]) = Unput(saves[t])
    BY <1>2, ContendUnput
  <1>6. ASSUME Up, ~raced
        PROVE  Covers(dbSize', NoSnap, meta, saves', nsaves + 1)
    <2>1. Covers(dbSize, NoSnap, meta, saves, nsaves)
      BY <1>6 DEF SizeInv, CountersCover
    <2>2. saves' \in SaveMaps
      BY MapTypes DEF TypeInv, TypeOK, SaveMaps
    <2> QED BY <1>1, <1>4, <1>5, <2>1, <2>2, MapTypes, CoversBegin
  <1>7. CountersCover'
    BY <1>1, <1>6 DEF CountersCover, Up, NoSnap, MidLoop
  <1>8. ScanCounts' /\ QueueClaims'
    BY <1>1 DEF SizeInv, ScanCounts, QueueClaims
  <1> QED BY <1>7, <1>8 DEF SizeInv

\* What a put, successful or not, does to what its save has announced.
LEMMA PutUnput ==
  ASSUME TypeInv, NEW s \in Savers, NEW cf \in ColumnFamily,
         NEW alone \in BOOLEAN, cf \in saves[s].todo, saves[s] # None,
         saves' = [saves EXCEPT ![s] = AfterPut(s, cf, alone)]
  PROVE  /\ \A t \in Savers \ {s} : saves'[t] = saves[t]
         /\ cf = "images" => /\ MetaDue(saves'[s]) <=> MetaDue(saves[s])
                             /\ Unput(saves'[s]) = Unput(saves[s])
         /\ cf = "meta" => /\ MetaDue(saves[s]) /\ ~MetaDue(saves'[s])
                           /\ Unput(saves[s]) = Size[saves[s].entry.content]
                           /\ Unput(saves'[s]) = 0
  <1>1. /\ \A t \in Savers \ {s} : saves'[t] = saves[t]
        /\ saves'[s] = None <=> saves[s].todo = {cf}
        /\ saves'[s] # None => /\ saves'[s].entry = saves[s].entry
                               /\ saves'[s].todo = saves[s].todo \ {cf}
    BY PutOp
  <1> QED BY <1>1 DEF MetaDue, Unput

LEMMA PutSize ==
  ASSUME TypeInv, TypeInv', SizeInv, NEW s \in Savers, NEW cf \in ColumnFamily,
         Put(s, cf) \/ PutFails(s, cf)
  PROVE  SizeInv'
  <1>1. /\ UNCHANGED <<dbSize, nsaves, mpc, ctx, snap, rest, sz, acc, victim,
                       raced, racing>>
        /\ saves[s] # None /\ cf \in saves[s].todo
    BY DEF Put, PutFails, dbVars, iterVars, dropVars
  <1>2. PICK alone \in BOOLEAN :
          saves' = [saves EXCEPT ![s] = AfterPut(s, cf, alone)]
    <2>1. saves[s].alone \in BOOLEAN
      BY <1>1 DEF TypeInv, TypeOK, SaveOp
    <2> QED BY <2>1 DEF Put, PutFails
  <1> DEFINE k == saves[s].key  e == saves[s].entry
  <1>3. k \in Keys /\ e \in Entry
    BY <1>1 DEF TypeInv, TypeOK, SaveOp
  <1>4. /\ \A t \in Savers \ {s} : saves'[t] = saves[t]
        /\ cf = "images" => /\ MetaDue(saves'[s]) <=> MetaDue(saves[s])
                            /\ Unput(saves'[s]) = Unput(saves[s])
        /\ cf = "meta" => /\ MetaDue(saves[s]) /\ ~MetaDue(saves'[s])
                          /\ Unput(saves[s]) = Size[e.content]
                          /\ Unput(saves'[s]) = 0
    BY <1>1, <1>2, PutUnput
  <1>5. \/ UNCHANGED meta
        \/ cf = "meta" /\ meta' = [meta EXCEPT ![k] = e]
    BY DEF Put, PutFails, dbVars
  <1> HIDE DEF k, e
  <1>6. saves' \in SaveMaps
    BY DEF TypeInv, TypeOK, SaveMaps
  <1>7. ASSUME NEW x \in Nat, NEW c \in MetaMaps,
               Covers(x, c, meta, saves, nsaves)
        PROVE  Covers(x, c, meta', saves', nsaves)
    <2>1. CASE UNCHANGED meta
      <3>1. \A t \in Savers : Unput(saves'[t]) \in {0, Unput(saves[t])}
        BY <1>4
      <3> QED BY <1>6, <1>7, <2>1, <3>1, MapTypes, CoversLess
    <2>2. CASE cf = "meta" /\ meta' = [meta EXCEPT ![k] = e]
      BY <1>3, <1>4, <1>6, <1>7, <2>2, MapTypes, CoversPut
    <2> QED BY <1>5, <2>1, <2>2
  <1>8. CountersCover'
    <2>1. Claim' = Claim
      BY <1>1 DEF Claim, QueueMap, Positions, NoSnap
    <2> QED BY <1>1, <1>7, <2>1, MapTypes DEF SizeInv, CountersCover, Up, NoSnap
  <1>9. ScanCounts'
    <2>1. CASE mpc = "scan" /\ ~racing
      <3>1. ~MetaDue(saves[s])
        BY <2>1 DEF SizeInv, ScanCounts
      <3>2. UNCHANGED meta /\ ~MetaDue(saves'[s])
        BY <1>4, <1>5, <3>1
      <3> QED BY <1>1, <1>4, <2>1, <3>2 DEF SizeInv, ScanCounts, Past
    <2>2. CASE ~(mpc = "scan" /\ ~racing)
      BY <1>1, <2>2 DEF SizeInv, ScanCounts, Past
    <2> QED BY <2>1, <2>2
  <1>10. QueueClaims'
    BY <1>1 DEF SizeInv, QueueClaims, Distinct
  <1> QED BY <1>8, <1>9, <1>10 DEF SizeInv

\* Steps that touch neither db_size nor what is stored, and either none of the
\* main thread's locals or all of them, on leaving a scan or the eviction.
LEMMA SizeFrame ==
  ASSUME SizeInv, UNCHANGED <<meta, saves, nsaves, dbSize, raced>>, Up' => Up,
         \/ UNCHANGED <<mpc, sz, snap, rest, acc, racing, victim>>
         \/ mpc' \notin MidLoop \cup {"scan"}
  PROVE  SizeInv'
  <1>1. CASE UNCHANGED <<mpc, sz, snap, rest, acc, racing, victim>>
    <2>1. Claim' = Claim
      BY <1>1 DEF Claim, QueueMap, Positions, NoSnap
    <2>2. CountersCover'
      BY <1>1, <2>1 DEF SizeInv, CountersCover, NoSnap
    <2>3. ScanCounts' /\ QueueClaims'
      BY <1>1 DEF SizeInv, ScanCounts, QueueClaims, Past, Distinct
    <2> QED BY <2>2, <2>3 DEF SizeInv
  <1>2. CASE mpc' \notin MidLoop \cup {"scan"}
    BY <1>2 DEF SizeInv, CountersCover, ScanCounts, QueueClaims, NoSnap, MidLoop
  <1> QED BY <1>1, <1>2

\* The steps SizeFrame is about.
LEMMA CallSize ==
  ASSUME TypeInv, SizeInv,
         \/ \E l \in Loaders : LoadStep(l)
         \/ StartReport \/ HourPasses \/ RefreshSize \/ ReportAndCompare
         \/ DropImages \/ DropFails \/ Reopen \/ UNCHANGED vars
  PROVE  SizeInv'
  <1>1. ASSUME NEW l \in Loaders, LoadStep(l)  PROVE SizeInv'
    BY <1>1, SizeFrame DEF LoadStep, LoadBegin, Get, LoadReturns, dbVars,
                           iterVars, dropVars, history, Up
  <1>2. CASE StartReport \/ HourPasses \/ RefreshSize \/ Reopen
    BY <1>2, SizeFrame DEF StartReport, HourPasses, RefreshSize, Reopen, NoDrop,
                           dbVars, iterVars, dropVars, Up, MidLoop
  <1>3. CASE ReportAndCompare
    BY <1>3, SizeFrame DEF ReportAndCompare, Return, NoDrop, dbVars, Up, MidLoop
  <1>4. CASE DropImages \/ UNCHANGED vars
    BY <1>4, SizeFrame DEF DropImages, vars, iterVars, history, Up
  <1>5. CASE DropFails
    BY <1>5, SizeFrame DEF DropFails, Return, dbVars, Up, MidLoop
  <1> QED BY <1>1, <1>2, <1>3, <1>4, <1>5

\* After the end of the process nothing is counted.
LEMMA CrashSize ==
  ASSUME Crash
  PROVE  SizeInv'
  BY DEF Crash, SizeInv, CountersCover, ScanCounts, QueueClaims, Up, MidLoop

\* drop_entry is entered: the saves of its key stay what they are.
LEMMA BeginDropSize ==
  ASSUME TypeInv, TypeInv', NEW k \in Keys, BeginDrop(k)
  PROVE  /\ saves' \in SaveMaps
         /\ \A s \in Savers : /\ MetaDue(saves'[s]) <=> MetaDue(saves[s])
                              /\ Unput(saves'[s]) = Unput(saves[s])
  BY ContendUnput DEF BeginDrop, TypeInv, TypeOK, SaveMaps

\* A counter goes on covering what is stored while only claims go and saves
\* are marked.
LEMMA CoversKept ==
  ASSUME TypeInv, TypeInv', UNCHANGED <<meta, nsaves>>,
         \A s \in Savers : Unput(saves'[s]) = Unput(saves[s]),
         NEW x \in Nat, NEW c \in MetaMaps, NEW d \in MetaMaps,
         \A k \in Keys : d[k] \in {c[k], None},
         Covers(x, c, meta, saves, nsaves)
  PROVE  Covers(x, d, meta, saves', nsaves)
  <1>1. saves' \in SaveMaps
    BY DEF TypeInv, TypeOK, SaveMaps
  <1>2. /\ \A k \in Keys : meta[k] \in {meta[k], None} /\ d[k] \in {c[k], None}
        /\ \A s \in Savers : Unput(saves'[s]) \in {0, Unput(saves[s])}
    OBVIOUS
  <1>3. /\ meta \in MetaMaps /\ saves \in SaveMaps
        /\ nsaves \in 0 .. MaxSaves
    BY MapTypes
  <1> QED BY <1>1, <1>2, <1>3, CoversLess

\* evict_entries_fifo takes db_size over.
LEMMA ShrinkLoadSize ==
  ASSUME TypeInv, SizeInv, ShrinkLoad
  PROVE  SizeInv'
  <1>1. /\ UNCHANGED <<meta, saves, nsaves, dbSize, raced, ctx>>
        /\ sz' = dbSize /\ racing' = raced /\ mpc' = "open" /\ Up
    BY DEF ShrinkLoad, NoDrop, dbVars, saveLog, Up
  <1>2. Claim' = NoSnap
    BY <1>1 DEF Claim, NoSnap
  <1> QED BY <1>1, <1>2 DEF SizeInv, CountersCover, ScanCounts, QueueClaims, Up,
                            NoSnap

\* A scan begins with nothing counted.
LEMMA OpenFetchSize ==
  ASSUME TypeInv, SizeInv, OpenFetch
  PROVE  SizeInv'
  <1>1. /\ UNCHANGED <<meta, saves, nsaves, dbSize, raced, ctx>>
        /\ mpc' = "scan" /\ snap' = meta /\ rest' = Stored(meta) /\ sz' = 0
        /\ racing' = \E s \in Savers : MetaDue(saves[s])
    BY DEF OpenFetch, NoDrop, dbVars, saveLog, MetaDue
  <1>2. Past(meta, Stored(meta)) = 0
    <2>1. /\ Stored(meta) \in SUBSET Keys
          /\ \A k \in Keys \ Stored(meta) : meta[k] = None
      BY DEF Stored
    <2> QED BY <2>1, MapTypes, PastSteps
  <1>3. ScanCounts'
    BY <1>1, <1>2 DEF ScanCounts
  <1>4. CountersCover' /\ QueueClaims'
    BY <1>1 DEF SizeInv, CountersCover, QueueClaims, Up, NoSnap, MidLoop
  <1> QED BY <1>3, <1>4 DEF SizeInv

\* The scan counts a record, or drops one that counts for nothing.
LEMMA ScanEntrySize ==
  ASSUME TypeInv, TypeInv', SizeInv, ScanEntry
  PROVE  SizeInv'
  <1>1. PICK k \in rest :
          /\ rest' = rest \ {k} /\ UNCHANGED snap
          /\ \/ DropGarbled(k)
             \/ /\ snap[k] # Garbled
                /\ sz' = (sz + Size[snap[k].content]) % U64
                /\ NoDrop /\ UNCHANGED <<dbSize, mpc, ctx, raced, racing>>
    BY DEF ScanEntry
  <1>2. mpc = "scan" /\ k \in Keys /\ snap[k] \in Entry \cup {Garbled}
    BY DEF ScanEntry, TypeInv, TypeOK, IterOK
  <1>3. UNCHANGED <<meta, nsaves, dbSize, mpc, ctx, raced, racing>>
    BY <1>1 DEF DropGarbled, NoDrop, dbVars, saveLog
  <1>4. \A s \in Savers : /\ MetaDue(saves'[s]) <=> MetaDue(saves[s])
                          /\ Unput(saves'[s]) = Unput(saves[s])
    BY <1>1, <1>2, BeginDropSize DEF DropGarbled, NoDrop
  <1>5. CountersCover'
    <2>1. ASSUME Up, ~raced  PROVE Covers(dbSize, NoSnap, meta, saves', nsaves)
      BY <1>3, <1>4, <2>1, MapTypes, CoversKept DEF SizeInv, CountersCover
    <2> QED BY <1>2, <1>3, <2>1 DEF CountersCover, Up, NoSnap, MidLoop
  <1>6. /\ Past(snap, rest') = Past(snap, rest) + Weigh(snap[k])
        /\ Past(snap, rest') \in Nat /\ Past(snap, rest') < U64
    <2>1. rest' \in SUBSET Keys
      BY <1>1, MapTypes
    <2>2. Past(snap, rest') <= Limit(0) /\ Past(snap, rest') \in Nat
      BY <2>1, MapTypes, PastSteps
    <2>3. Limit(0) < U64 /\ Limit(0) \in Nat
      BY LimitType, BoundsAssumption
    <2>4. Past(snap, rest \ {k}) = Past(snap, rest) + Weigh(snap[k])
      BY MapTypes, PastSteps
    <2> QED BY <1>1, <2>2, <2>3, <2>4, BoundsAssumption
  <1>7. sz = Past(snap, rest)
    BY <1>2 DEF SizeInv, ScanCounts
  <1>8. sz' = Past(snap, rest')
    <2>1. CASE DropGarbled(k)
      <3>1. snap[k] = Garbled /\ sz' = sz
        BY <2>1 DEF DropGarbled
      <3>2. Weigh(snap[k]) = 0
        BY <3>1, WeighType DEF Record
      <3> QED BY <1>6, <1>7, <3>1, <3>2, MapTypes
    <2>2. CASE /\ snap[k] # Garbled
               /\ sz' = (sz + Size[snap[k].content]) % U64
      <3>1. Weigh(snap[k]) = Size[snap[k].content]
        BY <1>2, <2>2, WeighType DEF Record
      <3> QED BY <1>6, <1>7, <2>2, <3>1, ModSmall
    <2> QED BY <1>1, <2>1, <2>2
  <1>9. ScanCounts'
    BY <1>1, <1>2, <1>3, <1>4, <1>8 DEF SizeInv, ScanCounts, Past
  <1>10. QueueClaims'
    BY <1>2, <1>3 DEF QueueClaims
  <1> QED BY <1>5, <1>9, <1>10 DEF SizeInv

\* The scan's sum covers what is stored unless a save interfered.
LEMMA StoreStepSize ==
  ASSUME TypeInv, SizeInv, StoreSize
  PROVE  SizeInv'
  <1>1. /\ UNCHANGED <<meta, saves, nsaves>> /\ dbSize' = sz /\ raced' = racing
        /\ mpc = "scan" /\ rest = {} /\ mpc' \in {"getsize", "idle"}
    BY DEF StoreSize, Return, NoDrop, dbVars, saveLog
  <1>2. ASSUME ~racing  PROVE Covers(sz, NoSnap, meta, saves, nsaves)
    <2>1. /\ sz = Past(snap, {})
          /\ \A s \in Savers : ~MetaDue(saves[s])
          /\ \A k \in Keys : meta[k] \in Entry => meta[k] = snap[k]
      BY <1>1, <1>2 DEF SizeInv, ScanCounts
    <2>2. PendingOf(saves) = 0
      <3>1. \A s \in Savers : Unput(saves[s]) = 0
        BY <2>1 DEF Unput
      <3> QED BY <3>1, MapTypes, PendingNothing
    <2>3. Past(meta, {}) <= Past(snap, {})
      <3> DEFINE u == [k \in Keys |-> IF k \in {} THEN 0 ELSE Weigh(meta[k])]
                 w == [k \in Keys |-> IF k \in {} THEN 0 ELSE Weigh(snap[k])]
      <3>1. \A k \in Keys : Weigh(meta[k]) \in Nat /\ Weigh(snap[k]) \in Nat
        BY MapTypes, WeighType DEF MetaMaps
      <3>2. \A k \in Keys : Weigh(meta[k]) <= Weigh(snap[k])
        <4>1. ASSUME NEW k \in Keys, meta[k] \notin Entry
              PROVE  Weigh(meta[k]) = 0
          BY <4>1 DEF Weigh
        <4> QED BY <2>1, <3>1, <4>1
      <3>3. /\ u \in [Keys -> Nat] /\ w \in [Keys -> Nat]
            /\ \A k \in Keys : u[k] <= w[k]
        BY <3>1, <3>2
      <3> HIDE DEF u, w
      <3>4. SumFunction(u) <= SumFunction(w)
        BY <3>3, SumMonotone, FiniteAssumption
      <3> QED BY <3>4 DEF Past, u, w
    <2>4. Claimed(meta, NoSnap) = Past(meta, {})
      BY MapTypes, ClaimedNothing
    <2>5. /\ Past(meta, {}) \in Nat /\ Past(snap, {}) \in Nat
          /\ Past(snap, {}) <= Limit(0)
      BY MapTypes, PastSteps
    <2>6. Limit(0) <= Limit(nsaves) /\ Limit(0) \in Nat /\ Limit(nsaves) \in Nat
      BY MapTypes, LimitType, BoundsAssumption
    <2> QED BY <2>1, <2>2, <2>3, <2>4, <2>5, <2>6 DEF Covers
  <1> QED BY <1>1, <1>2 DEF SizeInv, CountersCover, ScanCounts, QueueClaims,
                            NoSnap, MidLoop

\* What an iterator hides is neither counted nor claimed.
LEMMA IteratorFailsSize ==
  ASSUME TypeInv, TypeInv', SizeInv, IteratorFails
  PROVE  SizeInv'
  <1>1. /\ UNCHANGED <<meta, saves, nsaves, dbSize, mpc, ctx, sz, acc, raced,
                       victim>>
        /\ rest' = {}
        /\ snap' = [k \in Keys |-> IF k \in rest THEN None ELSE snap[k]]
        /\ mpc \in {"scan", "gather"}
    BY DEF IteratorFails, NoDrop, dbVars, dropVars, saveLog
  <1>2. \A s \in Savers : Unput(saves'[s]) = Unput(saves[s])
    BY <1>1
  <1>3. ASSUME Up, ~raced  PROVE Covers(dbSize, NoSnap, meta, saves', nsaves)
    BY <1>1, <1>3 DEF SizeInv, CountersCover
  <1>4. CASE mpc = "scan"
    <2>1. racing'
      BY <1>4 DEF IteratorFails
    <2>2. CountersCover'
      BY <1>1, <1>3, <1>4, <2>1 DEF CountersCover, Up, NoSnap, MidLoop
    <2>3. Past(snap', {}) = Past(snap, rest)
      BY <1>1, MapTypes, PastSteps
    <2>4. ScanCounts' /\ QueueClaims'
      BY <1>1, <1>4, <2>1, <2>3 DEF SizeInv, ScanCounts, QueueClaims
    <2> QED BY <2>2, <2>4 DEF SizeInv
  <1>5. CASE mpc = "gather"
    <2>1. racing' = racing
      BY <1>5 DEF IteratorFails
    <2>2. ASSUME ~racing  PROVE Covers(sz, snap', meta, saves', nsaves)
      <3>1. Covers(sz, snap, meta, saves, nsaves)
        BY <1>5, <2>2 DEF SizeInv, CountersCover, MidLoop, Claim
      <3>2. snap \in MetaMaps /\ snap' \in MetaMaps /\ sz \in Nat
        BY MapTypes DEF TypeInv, TypeOK, MetaMaps, Record
      <3>3. \A k \in Keys : snap'[k] \in {snap[k], None}
        BY <1>1
      <3> QED BY <1>1, <1>2, <3>1, <3>2, <3>3, CoversKept
    <2>3. Claim' = snap'
      BY <1>1, <1>5 DEF Claim
    <2>4. CountersCover'
      BY <1>1, <1>3, <2>1, <2>2, <2>3 DEF CountersCover, Up, NoSnap
    <2>5. \A i \in DOMAIN acc : acc[i].key \in Keys
      <3>1. \A i \in DOMAIN acc : acc[i] \in Queued
        BY DEF TypeInv, TypeOK
      <3> QED BY <3>1 DEF Queued
    <2>6. ScanCounts' /\ QueueClaims'
      BY <1>1, <1>5, <2>5 DEF SizeInv, ScanCounts, QueueClaims, Distinct
    <2> QED BY <2>4, <2>6 DEF SizeInv
  <1> QED BY <1>1, <1>4, <1>5

\* A snapshot just taken claims nothing more than what is stored.
LEMMA OpenGatherSize ==
  ASSUME TypeInv, SizeInv, OpenGather
  PROVE  SizeInv'
  <1>1. /\ UNCHANGED <<meta, saves, nsaves, dbSize, ctx, sz, raced, racing>>
        /\ mpc = "open" /\ mpc' = "gather" /\ snap' = meta /\ acc' = <<>>
    BY DEF OpenGather, NoDrop, dbVars, saveLog
  <1>2. Claim' = meta /\ Claim = NoSnap
    BY <1>1 DEF Claim
  <1>3. Claimed(meta, meta) = Claimed(meta, NoSnap)
    BY MapTypes, ClaimedNothing
  <1>4. Covers(sz, NoSnap, meta, saves, nsaves)
          => Covers(sz, meta, meta, saves, nsaves)
    BY <1>3 DEF Covers
  <1>5. CountersCover'
    BY <1>1, <1>2, <1>4 DEF SizeInv, CountersCover, Up, NoSnap, MidLoop
  <1>6. ScanCounts' /\ QueueClaims'
    BY <1>1 DEF ScanCounts, QueueClaims, Distinct
  <1> QED BY <1>5, <1>6 DEF SizeInv

\* The loop of find_top_entries: each key is offered once, with its record.
LEMMA GatherEntrySize ==
  ASSUME TypeInv, TypeInv', SizeInv, GatherEntry
  PROVE  SizeInv'
  <1>1. PICK k \in rest :
          /\ rest' = rest \ {k} /\ UNCHANGED snap
          /\ \/ DropGarbled(k)
             \/ /\ snap[k] # Garbled
                /\ Offer([key |-> k, entry |-> snap[k]])
                /\ NoDrop /\ UNCHANGED <<dbSize, mpc, ctx, sz, raced, racing>>
    BY DEF GatherEntry
  <1>2. mpc = "gather" /\ k \in Keys /\ snap[k] \in Entry \cup {Garbled}
    BY DEF GatherEntry, TypeInv, TypeOK, IterOK
  <1>3. UNCHANGED <<meta, nsaves, dbSize, mpc, ctx, sz, raced, racing>>
    BY <1>1 DEF DropGarbled, NoDrop, dbVars, saveLog
  <1>4. \A s \in Savers : Unput(saves'[s]) = Unput(saves[s])
    BY <1>1, <1>2, BeginDropSize DEF DropGarbled, NoDrop
  <1>5. CountersCover'
    <2>1. ASSUME Up, ~raced  PROVE Covers(dbSize, NoSnap, meta, saves', nsaves)
      BY <1>3, <1>4, <2>1, MapTypes, CoversKept DEF SizeInv, CountersCover
    <2>2. ASSUME ~racing  PROVE Covers(sz, snap, meta, saves', nsaves)
      BY <1>2, <1>3, <1>4, <2>2, MapTypes, CoversKept
         DEF SizeInv, CountersCover, Claim, MidLoop
    <2>3. Claim' = snap
      BY <1>1, <1>2, <1>3 DEF Claim
    <2> QED BY <1>3, <2>1, <2>2, <2>3 DEF CountersCover, Up, NoSnap
  <1>6. /\ Distinct(acc)
        /\ \A i \in DOMAIN acc : /\ acc[i].key \notin rest
                                 /\ acc[i].entry = snap[acc[i].key]
    BY <1>2 DEF SizeInv, QueueClaims
  <1>7. /\ Distinct(acc')
        /\ \A j \in DOMAIN acc' : /\ acc'[j].key \notin rest'
                                  /\ acc'[j].entry = snap[acc'[j].key]
    <2>1. CASE DropGarbled(k)
      BY <1>1, <1>6, <2>1 DEF DropGarbled
    <2>2. CASE snap[k] # Garbled /\ Offer([key |-> k, entry |-> snap[k]])
      <3> DEFINE x == [key |-> k, entry |-> snap[k]]
      <3>1. x \in Queued /\ x.key = k /\ x.entry = snap[k]
        BY <1>2, <2>2 DEF Queued
      <3>2. \A i \in DOMAIN acc : acc[i].key # x.key
        BY <1>6, <3>1
      <3> HIDE DEF x
      <3>3. Offer(x)
        BY <2>2 DEF x
      <3>4. /\ Distinct(acc')
            /\ \A j \in DOMAIN acc' : \/ acc'[j] = x
                                      \/ \E i \in DOMAIN acc : acc'[j] = acc[i]
        BY <1>6, <3>1, <3>2, <3>3, MapTypes, OfferClaims
      <3> QED BY <1>1, <1>6, <3>1, <3>4
    <2> QED BY <1>1, <2>1, <2>2
  <1>8. ScanCounts' /\ QueueClaims'
    BY <1>1, <1>2, <1>3, <1>7 DEF ScanCounts, QueueClaims
  <1> QED BY <1>5, <1>8 DEF SizeInv

\* The queue claims part of what its snapshot did.
LEMMA SortQueueSize ==
  ASSUME TypeInv, TypeInv', SizeInv, SortQueue
  PROVE  SizeInv'
  <1>1. /\ UNCHANGED <<meta, saves, nsaves, dbSize, ctx, sz, raced, racing,
                       victim>>
        /\ mpc = "gather" /\ mpc' = IF acc = <<>> THEN "finish" ELSE "evict"
        /\ acc' \in Sortings(acc) /\ victim = None
    BY DEF SortQueue, NoDrop, dbVars, dropVars, saveLog
  <1>2. /\ acc \in Seq(Queued) /\ Distinct(acc)
        /\ \A i \in DOMAIN acc : acc[i].entry = snap[acc[i].key]
    BY <1>1, MapTypes DEF SizeInv, QueueClaims
  <1>3. Distinct(acc') /\ QueueMap(acc') = QueueMap(acc)
    BY <1>1, <1>2, QueueSorted
  <1>4. Claim' = IF acc = <<>> THEN NoSnap ELSE QueueMap(acc)
    <2>1. mpc' = "evict" => Claim' = QueueMap(acc')
      BY DEF Claim, QueueMap, Positions
    <2> QED BY <1>1, <1>3, <2>1 DEF Claim, NoSnap
  <1>5. /\ Claim' \in MetaMaps
        /\ \A k \in Keys : Claim'[k] \in {snap[k], None}
    <2>1. \A k \in Keys : QueueMap(acc)[k] \in {snap[k], None}
      BY <1>2, MapTypes, QueueOfSnapshot
    <2> QED BY <1>4, <2>1, MapTypes DEF NoSnap
  <1>6. ASSUME ~racing  PROVE Covers(sz, Claim', meta, saves, nsaves)
    <2>1. Covers(sz, snap, meta, saves, nsaves)
      BY <1>1, <1>6 DEF SizeInv, CountersCover, Claim, MidLoop
    <2>2. \A s \in Savers : Unput(saves'[s]) = Unput(saves[s])
      BY <1>1
    <2> QED BY <1>1, <1>5, <2>1, <2>2, MapTypes, CoversKept
  <1>7. CountersCover'
    BY <1>1, <1>6 DEF SizeInv, CountersCover, Up, NoSnap
  <1>8. ScanCounts' /\ QueueClaims'
    BY <1>1, <1>3 DEF ScanCounts, QueueClaims
  <1> QED BY <1>7, <1>8 DEF SizeInv

\* The eviction enters drop_entry with the head of its queue.
LEMMA EvictNextSize ==
  ASSUME TypeInv, TypeInv', SizeInv, EvictNext
  PROVE  SizeInv'
  <1>1. /\ UNCHANGED <<meta, nsaves, dbSize, mpc, ctx, sz, raced, racing, acc>>
        /\ mpc = "evict" /\ BeginDrop(Head(acc).key)
    BY DEF EvictNext, dbVars, saveLog
  <1>2. Head(acc).key \in Keys
    <2>1. Head(acc) \in Queued
      BY <1>1, MapTypes DEF TypeInv, IterOK
    <2> QED BY <2>1 DEF Queued
  <1>3. \A s \in Savers : Unput(saves'[s]) = Unput(saves[s])
    BY <1>1, <1>2, BeginDropSize
  <1>4. Claim' = Claim
    BY <1>1 DEF Claim, QueueMap, Positions
  <1>5. ASSUME NEW x \in Nat, NEW c \in MetaMaps,
               Covers(x, c, meta, saves, nsaves)
        PROVE  Covers(x, c, meta, saves', nsaves)
    BY <1>1, <1>3, <1>5, CoversKept
  <1>6. CountersCover'
    BY <1>1, <1>4, <1>5, MapTypes DEF SizeInv, CountersCover, Up, NoSnap
  <1>7. ScanCounts' /\ QueueClaims'
    BY <1>1 DEF SizeInv, ScanCounts, QueueClaims, Distinct, BeginDrop
  <1> QED BY <1>6, <1>7 DEF SizeInv

\* The eviction stores its counter.
LEMMA FinishShrinkSize ==
  ASSUME TypeInv, SizeInv, FinishShrink
  PROVE  SizeInv'
  <1>1. /\ UNCHANGED <<meta, saves, nsaves>> /\ dbSize' = sz /\ raced' = racing
        /\ mpc = "finish" /\ mpc' = "idle"
    BY DEF FinishShrink, Return, NoDrop, dbVars, saveLog
  <1>2. ~racing => Covers(sz, NoSnap, meta, saves, nsaves)
    BY <1>1 DEF SizeInv, CountersCover, Claim, MidLoop
  <1> QED BY <1>1, <1>2 DEF SizeInv, CountersCover, ScanCounts, QueueClaims,
                            NoSnap, MidLoop

\* The second delete of drop_entry; in the eviction the counter goes down by the
\* weight of the record that was queued.
LEMMA DropMetaSize ==
  ASSUME TypeInv, TypeInv', SizeInv, DropMeta
  PROVE  SizeInv'
  <1>1. /\ UNCHANGED <<saves, nsaves, dbSize, ctx, snap, rest, raced, racing>>
        /\ victim \in Keys /\ victim' = None
        /\ meta' = [meta EXCEPT ![victim] = None]
    BY DEF DropMeta, iterVars, history, saveLog, TypeInv, TypeOK
  <1>2. /\ meta' \in MetaMaps
        /\ \A k \in Keys : meta'[k] \in {meta[k], None}
    BY <1>1, MapTypes DEF MetaMaps, Record
  <1>3. ASSUME NEW x \in Nat, NEW c \in MetaMaps, NEW d \in MetaMaps,
               \A k \in Keys : d[k] \in {c[k], None},
               Covers(x, c, meta, saves, nsaves)
        PROVE  Covers(x, d, meta', saves, nsaves)
    <2>1. \A s \in Savers : Unput(saves[s]) \in {0, Unput(saves[s])}
      OBVIOUS
    <2> QED BY <1>2, <1>3, <2>1, MapTypes, CoversLess
  <1>4. ASSUME Up, ~raced  PROVE Covers(dbSize, NoSnap, meta', saves, nsaves)
    <2>1. \A k \in Keys : NoSnap[k] \in {NoSnap[k], None}
      OBVIOUS
    <2> QED BY <1>3, <1>4, <2>1, MapTypes DEF SizeInv, CountersCover
  <1>5. CASE mpc # "evict"
    <2>1. UNCHANGED <<mpc, sz, acc>>
      BY <1>5 DEF DropMeta
    <2>2. Claim' = Claim
      BY <1>1, <1>5, <2>1 DEF Claim, NoSnap
    <2>3. ASSUME mpc \in MidLoop, ~racing
          PROVE  Covers(sz, Claim, meta', saves, nsaves)
      <3>1. \A k \in Keys : Claim[k] \in {Claim[k], None}
        OBVIOUS
      <3> QED BY <1>3, <2>3, <3>1, MapTypes DEF SizeInv, CountersCover
    <2>4. CountersCover'
      BY <1>1, <1>4, <2>1, <2>2, <2>3 DEF CountersCover, Up, NoSnap
    <2>5. ScanCounts'
      <3>1. \A k \in Keys : meta'[k] \in Entry => meta'[k] = meta[k]
        BY <1>2, MarkersAssumption
      <3> QED BY <1>1, <2>1, <3>1 DEF SizeInv, ScanCounts, Past
    <2>6. QueueClaims'
      BY <1>1, <1>5, <2>1 DEF SizeInv, QueueClaims, Distinct
    <2> QED BY <2>4, <2>5, <2>6 DEF SizeInv
  <1>6. CASE mpc = "evict"
    <2>1. /\ sz' = (sz + U64 - Size[Head(acc).entry.content]) % U64
          /\ acc' = Tail(acc) /\ mpc' \in {"finish", "open", "evict"}
      BY <1>6 DEF DropMeta, CountDown
    <2>2. /\ acc \in Seq(Queued) /\ acc # <<>> /\ Distinct(acc)
          /\ victim = Head(acc).key
      BY <1>1, <1>6, MapTypes, MarkersAssumption
         DEF SizeInv, QueueClaims, TypeInv, IterOK
    <2> DEFINE c == QueueMap(acc)  d == QueueMap(Tail(acc))
    <2>3. /\ c \in MetaMaps /\ d \in MetaMaps /\ Distinct(Tail(acc))
          /\ c[victim] = Head(acc).entry /\ c[victim] \in Entry
          /\ d[victim] = None /\ \A k \in Keys \ {victim} : d[k] = c[k]
      <3>1. Tail(acc) \in Seq(Queued) /\ Head(acc) \in Queued
        BY <2>2, QueueTail
      <3>2. c \in MetaMaps /\ d \in MetaMaps
        BY <2>2, <3>1, QueueMapType
      <3>3. Head(acc).entry \in Entry
        BY <3>1 DEF Queued
      <3> QED BY <2>2, <3>2, <3>3, QueueTail
    <2>4. Claim = c /\ Claim' \in {d, NoSnap}
      <3>1. mpc' = "evict" => Claim' = QueueMap(acc')
        BY DEF Claim, QueueMap, Positions
      <3>2. mpc' # "evict" => Claim' = NoSnap
        BY <2>1 DEF Claim, NoSnap
      <3> QED BY <1>6, <2>1, <3>1, <3>2 DEF Claim
    <2> HIDE DEF c, d
    <2>5. ASSUME ~racing  PROVE Covers(sz', Claim', meta', saves, nsaves)
      <3>1. Covers(sz, c, meta, saves, nsaves)
        BY <1>6, <2>4, <2>5 DEF SizeInv, CountersCover, MidLoop
      <3>2. Covers(sz', d, meta', saves, nsaves)
        BY <1>1, <2>1, <2>3, <3>1, MapTypes, CoversDrop
      <3>3. sz' \in Nat /\ NoSnap \in MetaMaps
        BY MapTypes DEF TypeInv, TypeOK
      <3>4. Covers(sz', NoSnap, meta', saves, nsaves)
        <4>1. /\ \A k \in Keys : /\ NoSnap[k] \in {d[k], None}
                                 /\ meta'[k] \in {meta'[k], None}
              /\ \A s \in Savers : Unput(saves[s]) \in {0, Unput(saves[s])}
          BY DEF NoSnap
        <4> QED BY <1>2, <2>3, <3>2, <3>3, <4>1, MapTypes, CoversLess
      <3> QED BY <2>4, <3>2, <3>4
    <2>6. CountersCover'
      BY <1>1, <1>4, <2>5 DEF CountersCover, Up, NoSnap
    <2>7. ScanCounts' /\ QueueClaims'
      BY <1>1, <2>1, <2>3 DEF ScanCounts, QueueClaims
    <2> QED BY <2>6, <2>7 DEF SizeInv
  <1> QED BY <1>5, <1>6

\* Every step keeps SizeInv.
LEMMA NextSize == TypeInv /\ SizeInv /\ [Next]_vars => SizeInv'
  <1> SUFFICES ASSUME TypeInv, SizeInv, [Next]_vars  PROVE SizeInv'
    OBVIOUS
  <1>0. TypeInv'
    BY NextType
  <1>1. ASSUME NEW s \in Savers, SaveStep(s)  PROVE SizeInv'
    <2>1. ASSUME NEW k \in Keys, NEW e \in Entry, SaveBegin(s, k, e)
          PROVE  SizeInv'
      BY <1>0, <2>1, SaveBeginSize
    <2>2. ASSUME NEW cf \in ColumnFamily, Put(s, cf) \/ PutFails(s, cf)
          PROVE  SizeInv'
      BY <1>0, <2>2, PutSize
    <2> QED BY <1>1, <2>1, <2>2 DEF SaveStep
  <1>2. CASE \/ \E l \in Loaders : LoadStep(l)
             \/ StartReport \/ HourPasses \/ RefreshSize \/ ReportAndCompare
             \/ DropImages \/ DropFails \/ Reopen \/ UNCHANGED vars
    BY <1>2, CallSize
  <1>3. CASE ShrinkLoad \/ OpenFetch \/ ScanEntry \/ StoreSize \/ IteratorFails
    BY <1>0, <1>3, ShrinkLoadSize, OpenFetchSize, ScanEntrySize, StoreStepSize,
       IteratorFailsSize
  <1>4. CASE \/ OpenGather \/ GatherEntry \/ SortQueue \/ EvictNext
             \/ FinishShrink \/ DropMeta
    BY <1>0, <1>4, OpenGatherSize, GatherEntrySize, SortQueueSize,
       EvictNextSize, FinishShrinkSize, DropMetaSize
  <1>5. CASE Crash
    BY <1>5, CrashSize
  <1> QED BY <1>1, <1>2, <1>3, <1>4, <1>5 DEF Next, MainStep, ScanStep, EvictStep

\* Before the first scan nothing is counted.
LEMMA InitSize == Init => SizeInv
  BY DEF Init, SizeInv, CountersCover, ScanCounts, QueueClaims, Up, MidLoop

\* db_size and the running size of the eviction never fall below what is stored
\* unless a save overlapped their computation or its iterator failed.
THEOREM SizeBoundCorrect == Spec => []SizeIsUpperBound
  <1>1. Init => TypeInv /\ SizeInv
    BY InitType, InitSize
  <1>2. TypeInv /\ SizeInv /\ [Next]_vars => (TypeInv /\ SizeInv)'
    BY NextType, NextSize
  <1>3. TypeInv /\ SizeInv => SizeIsUpperBound
    <2> SUFFICES ASSUME TypeInv, SizeInv  PROVE SizeIsUpperBound
      OBVIOUS
    <2>1. RealSize = Past(meta, {})
      <3>1. [k \in Keys |-> IF k \in {} THEN 0 ELSE Weigh(meta[k])]
              = [k \in Keys |-> Weigh(meta[k])]
        OBVIOUS
      <3> QED BY <3>1 DEF RealSize, Past
    <2>2. ASSUME NEW c \in MetaMaps
          PROVE  Claimed(meta, c) >= RealSize
      <3>1. \A k \in Keys : /\ meta[k] \in {meta[k], None}
                            /\ NoSnap[k] \in {c[k], None}
        BY DEF NoSnap
      <3>2. Claimed(meta, NoSnap) <= Claimed(meta, c)
        BY <3>1, MapTypes, ClaimedLess
      <3>3. Claimed(meta, NoSnap) = Past(meta, {})
        BY MapTypes, ClaimedNothing
      <3>4. Claimed(meta, NoSnap) \in Nat /\ Claimed(meta, c) \in Nat
        BY MapTypes, ChargeType
      <3> QED BY <2>1, <3>2, <3>3, <3>4
    <2>3. ASSUME NEW x \in Nat, NEW c \in MetaMaps,
                 Covers(x, c, meta, saves, nsaves)
          PROVE  x >= RealSize
      <3>1. RealSize \in Nat
        BY <2>1, MapTypes, PastSteps
      <3>2. PendingOf(saves) \in Nat /\ Claimed(meta, c) \in Nat
        BY MapTypes, PendingType, ChargeType
      <3> QED BY <2>2, <2>3, <3>1, <3>2 DEF Covers
    <2> QED BY <2>3, MapTypes DEF SizeInv, CountersCover, SizeIsUpperBound
  <1> QED BY <1>1, <1>2, <1>3, PTL DEF Spec

-----------------------------------------------------------------------------
(***************************************************************************)
(* The main thread advances.  drop_entry always finds a record to delete:  *)
(* only the main thread removes records, each key is yielded once and      *)
(* queued once, and saves only add.  So every drop takes one off the       *)
(* budget, which no step raises; between two drops the main thread works   *)
(* its way through its calls.                                              *)
(***************************************************************************)
RecordsInv ==
  /\ mpc \in {"scan", "gather"} => \A k \in rest : meta[k] # None
  /\ mpc \in {"gather", "evict"}
       => \A i \in DOMAIN acc : meta[acc[i].key] # None
  /\ victim # None => /\ mpc \in {"scan", "gather", "evict"}
                      /\ meta[victim] # None
                      /\ mpc # "evict" => /\ victim \notin rest
                                          /\ snap[victim] = Garbled

\* The keys of a queue.
LEMMA QueuedKeys ==
  ASSUME NEW q \in Seq(Queued)
  PROVE  \A i \in DOMAIN q : q[i].key \in Keys /\ q[i].entry \in Entry
  <1>1. \A i \in DOMAIN q : q[i] \in Queued
    OBVIOUS
  <1> QED BY <1>1 DEF Queued

\* What saves do keeps records where they are.
LEMMA SaveRecords ==
  ASSUME TypeInv, RecordsInv, NEW s \in Savers, SaveStep(s)
  PROVE  RecordsInv'
  <1>1. UNCHANGED <<mpc, snap, rest, acc, victim>>
    BY DEF SaveStep, SaveBegin, Put, PutFails, iterVars, dropVars
  <1>2. \A k \in Keys : meta[k] # None => meta'[k] # None
    <2>1. ASSUME NEW k \in Keys, NEW e \in Entry, SaveBegin(s, k, e)
          PROVE  UNCHANGED meta
      BY <2>1 DEF SaveBegin, dbVars
    <2>2. ASSUME NEW cf \in ColumnFamily, PutFails(s, cf)
          PROVE  UNCHANGED meta
      BY <2>2 DEF PutFails, dbVars
    <2>3. ASSUME NEW cf \in ColumnFamily, Put(s, cf)
          PROVE  \A k \in Keys : meta[k] # None => meta'[k] # None
      <3>1. saves[s].entry \in Entry
        BY <2>3 DEF Put, TypeInv, TypeOK, SaveOp
      <3> QED BY <2>3, <3>1, MarkersAssumption DEF Put, TypeInv, TypeOK
    <2> QED BY <2>1, <2>2, <2>3 DEF SaveStep
  <1>3. /\ rest \in SUBSET Keys /\ victim \in Keys \cup {None}
        /\ \A i \in DOMAIN acc : acc[i].key \in Keys
    BY QueuedKeys DEF TypeInv, TypeOK
  <1> QED BY <1>1, <1>2, <1>3 DEF RecordsInv

\* Opening an iterator, yielding an entry and queueing it.
LEMMA ScanRecords ==
  ASSUME TypeInv, SizeInv, RecordsInv,
         OpenFetch \/ OpenGather \/ ScanEntry \/ GatherEntry
  PROVE  RecordsInv'
  <1>1. CASE OpenFetch
    BY <1>1 DEF OpenFetch, NoDrop, dbVars, dropVars, RecordsInv, Stored
  <1>2. CASE OpenGather
    BY <1>2 DEF OpenGather, NoDrop, dbVars, dropVars, RecordsInv, Stored
  <1>3. CASE ScanEntry \/ GatherEntry
    <2>1. PICK k \in rest :
            /\ rest' = rest \ {k} /\ UNCHANGED snap /\ victim = None
            /\ \/ DropGarbled(k)
               \/ /\ snap[k] # Garbled /\ NoDrop /\ UNCHANGED mpc
                  /\ \/ mpc = "scan" /\ UNCHANGED acc
                     \/ Offer([key |-> k, entry |-> snap[k]])
      BY <1>3 DEF ScanEntry, GatherEntry, Yields
    <2>2. /\ mpc \in {"scan", "gather"} /\ meta[k] # None /\ k \in Keys
          /\ snap[k] \in Entry \cup {Garbled}
      BY <1>3 DEF ScanEntry, GatherEntry, RecordsInv, TypeInv, TypeOK, IterOK
    <2>3. UNCHANGED <<meta, mpc>>
      BY <2>1 DEF DropGarbled, NoDrop, dbVars
    <2>4. CASE DropGarbled(k)
      <3>1. victim' = k /\ UNCHANGED acc /\ snap[k] = Garbled
        BY <2>4 DEF DropGarbled, BeginDrop
      <3> QED BY <2>1, <2>2, <2>3, <3>1 DEF RecordsInv
    <2>5. CASE snap[k] # Garbled /\ NoDrop
      <3>1. victim' = None
        BY <2>1, <2>5 DEF NoDrop, dropVars
      <3>2. ASSUME mpc = "gather"
            PROVE  \A i \in DOMAIN acc' : meta[acc'[i].key] # None
        <4> DEFINE x == [key |-> k, entry |-> snap[k]]
        <4>1. /\ x \in Queued /\ x.key = k
              /\ Distinct(acc) /\ \A i \in DOMAIN acc : acc[i].key # k
          BY <2>1, <2>2, <2>5, <3>2 DEF Queued, SizeInv, QueueClaims
        <4> HIDE DEF x
        <4>2. Offer(x)
          BY <1>3, <2>1, <2>5, <3>2 DEF x, DropGarbled
        <4>3. \A j \in DOMAIN acc' : \/ acc'[j] = x
                                     \/ \E i \in DOMAIN acc : acc'[j] = acc[i]
          <5>1. acc \in Seq(Queued)
            BY DEF TypeInv, TypeOK
          <5> QED BY <4>1, <4>2, <5>1, OfferClaims
        <4> QED BY <2>2, <3>2, <4>1, <4>3 DEF RecordsInv
      <3> QED BY <2>1, <2>2, <2>3, <3>1, <3>2 DEF RecordsInv
    <2> QED BY <2>1, <2>4, <2>5
  <1> QED BY <1>1, <1>2, <1>3

\* The deletes of drop_entry: no other record still to be dropped goes with it.
LEMMA DropRecords ==
  ASSUME TypeInv, SizeInv, RecordsInv, DropMeta
  PROVE  RecordsInv'
  <1>1. /\ UNCHANGED <<snap, rest>>
        /\ victim \in Keys /\ victim # None /\ victim' = None
        /\ meta' = [meta EXCEPT ![victim] = None]
        /\ mpc \in {"scan", "gather", "evict"}
    BY DEF DropMeta, iterVars, TypeInv, TypeOK, RecordsInv
  <1>2. \A k \in Keys \ {victim} : meta'[k] = meta[k]
    BY <1>1 DEF TypeInv, TypeOK
  <1>3. CASE mpc # "evict"
    <2>1. UNCHANGED <<mpc, acc>>
      BY <1>3 DEF DropMeta
    <2>2. victim \notin rest /\ snap[victim] = Garbled /\ rest \in SUBSET Keys
      BY <1>1, <1>3 DEF RecordsInv, TypeInv, TypeOK
    <2>3. ASSUME mpc = "gather", NEW i \in DOMAIN acc
          PROVE  acc[i].key \in Keys \ {victim}
      <3>1. acc[i].key \in Keys /\ acc[i].entry \in Entry
        BY MapTypes, QueuedKeys
      <3>2. acc[i].entry = snap[acc[i].key]
        BY <2>3 DEF SizeInv, QueueClaims
      <3> QED BY <2>2, <3>1, <3>2, MarkersAssumption
    <2> QED BY <1>1, <1>2, <1>3, <2>1, <2>2, <2>3 DEF RecordsInv
  <1>4. CASE mpc = "evict"
    <2>1. /\ acc \in Seq(Queued) /\ acc # <<>> /\ Distinct(acc)
          /\ victim = Head(acc).key
      BY <1>1, <1>4, MapTypes, MarkersAssumption
         DEF SizeInv, QueueClaims, TypeInv, IterOK
    <2>2. acc' = Tail(acc) /\ mpc' \in {"finish", "open", "evict"}
      BY <1>4 DEF DropMeta, CountDown
    <2>3. ASSUME NEW i \in DOMAIN Tail(acc)
          PROVE  /\ Tail(acc)[i].key \in Keys \ {victim}
                 /\ meta[Tail(acc)[i].key] # None
      <3>1. Tail(acc) \in Seq(Queued) /\ Distinct(Tail(acc))
        BY <2>1, QueueTail
      <3>2. /\ Tail(acc)[i].key \in Keys /\ Tail(acc)[i].entry \in Entry
            /\ QueueMap(Tail(acc))[Tail(acc)[i].key] = Tail(acc)[i].entry
        BY <3>1, QueuedKeys, QueueMapType
      <3>3. QueueMap(Tail(acc))[victim] = None
        BY <2>1, QueueTail
      <3>4. Tail(acc)[i].key # victim
        BY <3>2, <3>3, MarkersAssumption
      <3>5. i + 1 \in DOMAIN acc /\ Tail(acc)[i] = acc[i + 1]
        BY <2>1
      <3>6. meta[acc[i + 1].key] # None
        BY <1>4, <3>5 DEF RecordsInv
      <3> QED BY <3>2, <3>4, <3>5, <3>6
    <2> QED BY <1>1, <1>2, <2>2, <2>3 DEF RecordsInv
  <1> QED BY <1>3, <1>4

\* Sorting the queue, and entering drop_entry with its head.
LEMMA EvictRecords ==
  ASSUME TypeInv, RecordsInv, SortQueue \/ EvictNext
  PROVE  RecordsInv'
  <1>1. acc \in Seq(Queued)
    BY DEF TypeInv, TypeOK
  <1>2. CASE SortQueue
    <2>1. /\ acc' \in Sortings(acc) /\ UNCHANGED <<meta, victim>>
          /\ victim = None /\ mpc = "gather" /\ mpc' \in {"finish", "evict"}
      BY <1>2 DEF SortQueue, NoDrop, dbVars, dropVars
    <2>2. acc' \in Seq(Queued) /\ Range(acc') = Range(acc)
      BY <1>1, <2>1, SortingsType
    <2>3. \A i \in DOMAIN acc' : \E j \in DOMAIN acc : acc'[i] = acc[j]
      <3>1. \A i \in DOMAIN acc' : acc'[i] \in Range(acc')
        BY DEF Range
      <3> QED BY <2>2, <3>1 DEF Range
    <2> QED BY <2>1, <2>3 DEF RecordsInv
  <1>3. CASE EvictNext
    <2>1. /\ mpc = "evict" /\ victim' = Head(acc).key
          /\ UNCHANGED <<meta, mpc, acc>>
      BY <1>3 DEF EvictNext, BeginDrop, dbVars
    <2>2. 1 \in DOMAIN acc /\ Head(acc) = acc[1]
      BY <1>1, <2>1 DEF TypeInv, IterOK
    <2> QED BY <2>1, <2>2 DEF RecordsInv
  <1> QED BY <1>2, <1>3

\* Every step keeps RecordsInv.
LEMMA NextRecords ==
  TypeInv /\ SizeInv /\ RecordsInv /\ [Next]_vars => RecordsInv'
  <1> SUFFICES ASSUME TypeInv, SizeInv, RecordsInv, [Next]_vars
               PROVE  RecordsInv'
    OBVIOUS
  <1>1. ASSUME NEW s \in Savers, SaveStep(s)  PROVE RecordsInv'
    BY <1>1, SaveRecords
  <1>2. CASE OpenFetch \/ OpenGather \/ ScanEntry \/ GatherEntry
    BY <1>2, ScanRecords
  <1>3. CASE SortQueue \/ EvictNext \/ DropMeta
    BY <1>3, EvictRecords, DropRecords
  <1>4. ASSUME UNCHANGED <<meta, mpc, snap, rest, acc, victim>>
        PROVE  RecordsInv'
    BY <1>4 DEF RecordsInv
  <1>5. ASSUME NEW l \in Loaders, LoadStep(l)  PROVE RecordsInv'
    BY <1>4, <1>5 DEF LoadStep, LoadBegin, Get, LoadReturns, dbVars, iterVars,
                      dropVars
  <1>6. CASE HourPasses \/ DropImages \/ UNCHANGED vars
    BY <1>4, <1>6 DEF HourPasses, DropImages, NoDrop, dbVars, iterVars, dropVars,
                      vars
  <1>7. ASSUME victim' = None, mpc' \notin {"scan", "gather", "evict"}
        PROVE  RecordsInv'
    BY <1>7 DEF RecordsInv
  <1>8. CASE \/ StartReport \/ RefreshSize \/ ReportAndCompare \/ ShrinkLoad
             \/ FinishShrink \/ Reopen
    <2>1. mpc \notin {"scan", "gather", "evict"} /\ UNCHANGED victim
      BY <1>8 DEF StartReport, RefreshSize, ReportAndCompare, ShrinkLoad,
                  FinishShrink, Reopen, NoDrop, dropVars
    <2>2. mpc' \notin {"scan", "gather", "evict"}
      BY <1>8 DEF StartReport, RefreshSize, ReportAndCompare, ShrinkLoad,
                  FinishShrink, Reopen, Return
    <2>3. victim = None
      BY <2>1 DEF RecordsInv
    <2> QED BY <1>7, <2>1, <2>2, <2>3
  <1>9. CASE StoreSize \/ DropFails \/ Crash
    BY <1>7, <1>9 DEF StoreSize, DropFails, Crash, Return, NoDrop, dropVars
  <1>10. CASE IteratorFails
    <2>1. /\ UNCHANGED <<meta, mpc, acc, victim>> /\ victim = None
          /\ rest' = {}
      BY <1>10 DEF IteratorFails, NoDrop, dbVars, dropVars
    <2> QED BY <2>1 DEF RecordsInv
  <1> QED BY <1>1, <1>2, <1>3, <1>5, <1>6, <1>8, <1>9, <1>10
          DEF Next, MainStep, ScanStep, EvictStep

-----------------------------------------------------------------------------
\* The budget and the stages are natural numbers.
LEMMA MeasureType ==
  ASSUME TypeInv
  PROVE  /\ IsFiniteSet(Announced) /\ Cardinality(Announced) \in Nat
         /\ IsFiniteSet(Stored(meta)) /\ Cardinality(Stored(meta)) \in Nat
         /\ IsFiniteSet(rest) /\ Cardinality(rest) \in Nat
         /\ Budget \in Nat /\ Stage \in Nat /\ Position \in Nat
         /\ DropLeft \in 0 .. 2
         /\ Announced = {s \in Savers : MetaDue(saves[s])}
  <1>1. /\ Announced \subseteq Savers /\ Stored(meta) \subseteq Keys
        /\ rest \subseteq Keys
    BY DEF Announced, Stored, TypeInv, TypeOK
  <1>2. /\ IsFiniteSet(Announced) /\ IsFiniteSet(Stored(meta))
        /\ IsFiniteSet(rest)
    BY <1>1, FS_Subset, FiniteAssumption
  <1>3. /\ Cardinality(Announced) \in Nat /\ Cardinality(Stored(meta)) \in Nat
        /\ Cardinality(rest) \in Nat
    BY <1>2, FS_CardinalityType
  <1>4. Budget \in Nat
    BY <1>3, BoundsAssumption DEF Budget, TypeInv, TypeOK
  <1>5. Stage \in Nat
    BY DEF Stage, TypeInv, TypeOK, MidLoop
  <1>6. DropLeft \in 0 .. 2 /\ Position \in Nat
    BY <1>3 DEF DropLeft, Position, ToVisit
  <1> QED BY <1>2, <1>3, <1>4, <1>5, <1>6 DEF Announced, MetaDue

\* Steps that neither announce nor put nor remove a record.
LEMMA BudgetFrame ==
  ASSUME TypeInv, TypeInv', UNCHANGED <<nsaves, meta>>,
         \A s \in Savers : MetaDue(saves'[s]) <=> MetaDue(saves[s])
  PROVE  Budget' = Budget
  <1>1. /\ Announced = {s \in Savers : MetaDue(saves[s])}
        /\ Announced' = {s \in Savers : MetaDue(saves'[s])}
    BY DEF Announced, MetaDue
  <1>2. Announced' = Announced
    BY <1>1
  <1> QED BY <1>2 DEF Budget, Stored

\* drop_entry takes a record off the budget.
LEMMA DropMetaCloser ==
  ASSUME TypeInv, TypeInv', RecordsInv, DropMeta
  PROVE  Closer
  <1>1. /\ UNCHANGED <<saves, nsaves>> /\ victim \in Keys
        /\ meta' = [meta EXCEPT ![victim] = None] /\ meta[victim] # None
    BY DEF DropMeta, RecordsInv, TypeInv, TypeOK
  <1>2. Stored(meta)' = Stored(meta) \ {victim} /\ victim \in Stored(meta)
    BY <1>1 DEF Stored, TypeInv, TypeOK
  <1>3. Cardinality(Stored(meta)') = Cardinality(Stored(meta)) - 1
    BY <1>2, MeasureType, FS_RemoveElement
  <1>4. Announced' = Announced
    BY <1>1 DEF Announced
  <1>5. Budget' = Budget - 1
    BY <1>1, <1>3, <1>4, MeasureType, BoundsAssumption
       DEF Budget, TypeInv, TypeOK
  <1> QED BY <1>5, MeasureType DEF Closer

\* Entering drop_entry, or passing a record, uses up a key of the iterator.
LEMMA YieldCloser ==
  ASSUME TypeInv, TypeInv', ScanEntry \/ GatherEntry
  PROVE  Closer
  <1>1. PICK k \in rest :
          /\ rest' = rest \ {k} /\ victim = None
          /\ DropGarbled(k) \/ (NoDrop /\ UNCHANGED <<mpc, ctx, due>>)
    BY DEF ScanEntry, GatherEntry, Yields
  <1>2. mpc \in {"scan", "gather"} /\ k \in Keys
    BY DEF ScanEntry, GatherEntry, TypeInv, TypeOK
  <1>3. UNCHANGED <<nsaves, meta, mpc, ctx, due>> /\ DropLeft' <= 2
    BY <1>1 DEF DropGarbled, NoDrop, dbVars, DropLeft
  <1>4. \A s \in Savers : MetaDue(saves'[s]) <=> MetaDue(saves[s])
    BY <1>1, <1>2, BeginDropSize DEF DropGarbled, NoDrop
  <1>5. Budget' = Budget /\ Stage' = Stage
    BY <1>3, <1>4, BudgetFrame DEF Stage
  <1>6. Cardinality(rest') = Cardinality(rest) - 1
    BY <1>1, MeasureType, FS_RemoveElement
  <1>7. Position = 3 * Cardinality(rest)
    BY <1>1, <1>2, MeasureType DEF Position, ToVisit, DropLeft
  <1>8. Position' = 3 * Cardinality(rest') + DropLeft'
    BY <1>2, <1>3 DEF Position, ToVisit
  <1>9. DropLeft' \in 0 .. 2
    BY DEF DropLeft
  <1> HIDE DEF DropLeft
  <1>10. Position' < Position
    BY <1>6, <1>7, <1>8, <1>9, MeasureType
  <1> QED BY <1>5, <1>10 DEF Closer

\* Between two drops the main thread works its way through its calls.
LEMMA StageCloser ==
  ASSUME TypeInv, TypeInv', RecordsInv,
         \/ RefreshSize \/ ReportAndCompare \/ ShrinkLoad \/ OpenFetch
         \/ StoreSize \/ OpenGather \/ SortQueue \/ FinishShrink
  PROVE  Closer
  <1>1. UNCHANGED <<nsaves, meta, saves>>
    BY DEF RefreshSize, ReportAndCompare, ShrinkLoad, OpenFetch, StoreSize,
           OpenGather, SortQueue, FinishShrink, NoDrop, dbVars
  <1>2. Budget' = Budget
    BY <1>1, BudgetFrame
  <1>3. Stage' < Stage
    <2> USE DEF Stage
    <2>1. CASE RefreshSize
      BY <2>1 DEF RefreshSize
    <2>2. CASE ReportAndCompare
      BY <2>2 DEF ReportAndCompare, Return
    <2>3. CASE ShrinkLoad
      BY <2>3 DEF ShrinkLoad
    <2>4. CASE OpenFetch
      BY <2>4 DEF OpenFetch
    <2>5. CASE StoreSize
      <3>1. CASE Up
        <4>1. /\ mpc = "scan" /\ mpc' = "getsize" /\ ctx' = ctx
              /\ due' \in BOOLEAN /\ (due \/ ctx # "shrink" => ~due')
          BY <2>5, <3>1 DEF StoreSize
        <4>2. due \in BOOLEAN
          BY DEF TypeInv, TypeOK
        <4> QED BY <4>1, <4>2
      <3>2. CASE ~Up
        BY <2>5, <3>2 DEF StoreSize, Return, Up
      <3> QED BY <3>1, <3>2
    <2>6. CASE OpenGather
      BY <2>6 DEF OpenGather
    <2>7. CASE SortQueue
      BY <2>7 DEF SortQueue
    <2>8. CASE FinishShrink
      BY <2>8 DEF FinishShrink, Return
    <2> QED BY <2>1, <2>2, <2>3, <2>4, <2>5, <2>6, <2>7, <2>8
  <1> QED BY <1>2, <1>3 DEF Closer

\* The steps of drop_entry before its second delete.
LEMMA DropCloser ==
  ASSUME TypeInv, TypeInv', EvictNext \/ DropImages
  PROVE  Closer
  <1>1. CASE EvictNext
    <2>1. /\ UNCHANGED <<nsaves, meta, mpc, ctx, due>> /\ mpc = "evict"
          /\ UNCHANGED rest
          /\ victim = None /\ BeginDrop(Head(acc).key) /\ acc \in Seq(Queued)
          /\ acc # <<>>
      BY <1>1 DEF EvictNext, dbVars, iterVars, TypeInv, TypeOK, IterOK
    <2>2. Head(acc).key \in Keys
      <3>1. Head(acc) \in Queued
        BY <2>1
      <3> QED BY <3>1 DEF Queued
    <2>3. Budget' = Budget
      BY <2>1, <2>2, BeginDropSize, BudgetFrame
    <2>4. Stage' = Stage /\ Position = 3
      BY <2>1 DEF Stage, Position, ToVisit, DropLeft
    <2>5. Position' = 2
      BY <2>1, <2>2, MarkersAssumption
         DEF BeginDrop, Position, ToVisit, DropLeft
    <2> QED BY <2>3, <2>4, <2>5 DEF Closer
  <1>2. CASE DropImages
    <2>1. /\ UNCHANGED <<nsaves, meta, saves, mpc, ctx, due, rest, victim>>
          /\ victim # None /\ ~half /\ half'
      BY <1>2 DEF DropImages, iterVars
    <2>2. Budget' = Budget /\ Stage' = Stage
      BY <2>1, BudgetFrame DEF Stage
    <2>3. Position' < Position
      BY <2>1, MeasureType DEF Position, ToVisit, DropLeft
    <2> QED BY <2>2, <2>3 DEF Closer
  <1> QED BY <1>1, <1>2

\* Every step of the main thread brings it closer.
LEMMA MainCloser ==
  ASSUME TypeInv, TypeInv', RecordsInv, MainStep
  PROVE  Closer
  BY DropMetaCloser, YieldCloser, StageCloser, DropCloser
     DEF MainStep, ScanStep, EvictStep

\* A save announces a record out of the budget and puts what it announced.
LEMMA SaveNoFarther ==
  ASSUME TypeInv, TypeInv', NEW s \in Savers, SaveStep(s)
  PROVE  Closer \/ UNCHANGED <<Budget, Stage, Position>>
  <1>1. UNCHANGED <<mpc, ctx, due, rest, victim, half>>
    BY DEF SaveStep, SaveBegin, Put, PutFails, iterVars, dropVars
  <1>2. UNCHANGED <<Stage, Position>>
    BY <1>1 DEF Stage, Position, ToVisit, DropLeft
  <1>3. Announced' = {t \in Savers : MetaDue(saves'[t])}
    BY DEF Announced, MetaDue
  <1>4. ASSUME NEW k \in Keys, NEW e \in Entry, SaveBegin(s, k, e)
        PROVE  Budget' = Budget
    <2>1. /\ UNCHANGED meta /\ nsaves' = nsaves + 1 /\ saves[s] = None
          /\ saves'[s].todo = ColumnFamily
          /\ \A t \in Savers \ {s} : saves'[t] = Contend(k)[t]
      BY <1>4 DEF SaveBegin, Contend, dbVars
    <2>2. saves'[s] # None
      <3>1. [key |-> k, entry |-> e, todo |-> ColumnFamily,
             alone |-> ~(Saving(k) # {} \/ victim = k)] \in SaveOp
        BY DEF SaveOp
      <3> QED BY <1>4, <3>1, MarkersAssumption DEF SaveBegin, Contend
    <2>3. MetaDue(saves'[s]) /\ ~MetaDue(saves[s])
      BY <2>1, <2>2 DEF MetaDue
    <2>4. \A t \in Savers \ {s} : MetaDue(saves'[t]) <=> MetaDue(saves[t])
      BY <2>1, ContendUnput
    <2>5. Announced' = Announced \cup {s} /\ s \notin Announced
      BY <1>3, <2>3, <2>4, MeasureType
    <2>6. Cardinality(Announced') = Cardinality(Announced) + 1
      BY <2>5, MeasureType, FS_AddElement
    <2>7. Stored(meta)' = Stored(meta)
      BY <2>1 DEF Stored
    <2> QED BY <2>1, <2>6, <2>7, MeasureType, BoundsAssumption
            DEF Budget, TypeInv, TypeOK
  <1>5. ASSUME NEW cf \in ColumnFamily, Put(s, cf) \/ PutFails(s, cf)
        PROVE  Budget' <= Budget
    <2>1. saves[s] # None /\ cf \in saves[s].todo /\ UNCHANGED nsaves
      BY <1>5 DEF Put, PutFails
    <2>2. PICK alone \in BOOLEAN :
            saves' = [saves EXCEPT ![s] = AfterPut(s, cf, alone)]
      <3>1. saves[s].alone \in BOOLEAN
        BY <2>1 DEF TypeInv, TypeOK, SaveOp
      <3> QED BY <1>5, <3>1 DEF Put, PutFails
    <2>3. /\ \A t \in Savers \ {s} : saves'[t] = saves[t]
          /\ cf = "images" => (MetaDue(saves'[s]) <=> MetaDue(saves[s]))
          /\ cf = "meta" => MetaDue(saves[s]) /\ ~MetaDue(saves'[s])
      BY <2>1, <2>2, PutUnput
    <2>4. CASE cf = "images"
      <3>1. UNCHANGED meta
        BY <1>5, <2>4 DEF Put, PutFails, dbVars
      <3>2. \A t \in Savers : MetaDue(saves'[t]) <=> MetaDue(saves[t])
        BY <2>3, <2>4
      <3>3. Budget' = Budget
        BY <2>1, <3>1, <3>2, BudgetFrame
      <3> QED BY <3>3, MeasureType
    <2>5. CASE cf = "meta"
      <3>1. Announced' = Announced \ {s} /\ s \in Announced
        BY <1>3, <2>3, <2>5, MeasureType
      <3>2. Cardinality(Announced') = Cardinality(Announced) - 1
        BY <3>1, MeasureType, FS_RemoveElement
      <3>3. Cardinality(Stored(meta)') <= Cardinality(Stored(meta)) + 1
        <4> DEFINE k == saves[s].key
        <4>1. /\ k \in Keys /\ saves[s].entry \in Entry
              /\ \/ UNCHANGED meta
                 \/ meta' = [meta EXCEPT ![k] = saves[s].entry]
          BY <1>5, <2>1 DEF Put, PutFails, dbVars, TypeInv, TypeOK, SaveOp
        <4>2. \/ Stored(meta)' = Stored(meta)
              \/ Stored(meta)' = Stored(meta) \cup {k}
          BY <4>1, MarkersAssumption DEF Stored, TypeInv, TypeOK
        <4> HIDE DEF k
        <4>3. \/ Stored(meta)' = Stored(meta)
              \/ k \notin Stored(meta) /\ Stored(meta)' = Stored(meta) \cup {k}
          BY <4>2
        <4>4. k \notin Stored(meta) =>
                Cardinality(Stored(meta) \cup {k}) = Cardinality(Stored(meta)) + 1
          BY MeasureType, FS_AddElement
        <4>5. Cardinality(Stored(meta)) \in Nat
          BY MeasureType
        <4>6. CASE Stored(meta)' = Stored(meta)
          <5>1. Cardinality(Stored(meta)') = Cardinality(Stored(meta))
            BY <4>6
          <5> QED BY <4>5, <5>1
        <4>7. CASE /\ k \notin Stored(meta)
                   /\ Stored(meta)' = Stored(meta) \cup {k}
          <5>1. Cardinality(Stored(meta)') = Cardinality(Stored(meta) \cup {k})
            BY <4>7
          <5> QED BY <4>4, <4>5, <4>7, <5>1
        <4> QED BY <4>3, <4>6, <4>7
      <3>4. Cardinality(Stored(meta)') \in Nat
        <4>1. IsFiniteSet(Stored(meta)')
          BY FS_Subset, FiniteAssumption DEF Stored
        <4> QED BY <4>1, FS_CardinalityType
      <3>5. /\ Cardinality(Announced) \in Nat
            /\ Cardinality(Stored(meta)) \in Nat
            /\ MaxSaves - nsaves \in Nat
        BY MeasureType, BoundsAssumption DEF TypeInv, TypeOK
      <3> QED BY <2>1, <3>2, <3>3, <3>4, <3>5 DEF Budget
    <2> QED BY <2>4, <2>5
  <1>6. Budget' \in Int /\ Budget' <= Budget
    <2>1. Budget' \in Int
      <3>1. IsFiniteSet(Announced') /\ IsFiniteSet(Stored(meta)')
        BY FS_Subset, FiniteAssumption DEF Announced, Stored
      <3>2. /\ Cardinality(Announced') \in Nat
            /\ Cardinality(Stored(meta)') \in Nat
        BY <3>1, FS_CardinalityType
      <3> QED BY <3>2, BoundsAssumption DEF Budget, TypeInv, TypeOK
    <2>2. Budget <= Budget
      BY MeasureType
    <2> QED BY <1>4, <1>5, <2>1, <2>2 DEF SaveStep
  <1> QED BY <1>2, <1>6, MeasureType DEF Closer

\* Nothing else takes the main thread farther from the end of its call.
LEMMA OthersNoFarther ==
  ASSUME TypeInv, TypeInv', RecordsInv, mpc \notin {"idle", "down"},
         \/ \E l \in Loaders : LoadStep(l)
         \/ StartReport \/ HourPasses \/ DropFails \/ IteratorFails
         \/ Crash \/ Reopen
  PROVE  Closer \/ UNCHANGED <<Budget, Stage, Position>>
  <1>1. ASSUME NEW l \in Loaders, LoadStep(l)
        PROVE  UNCHANGED <<Budget, Stage, Position>>
    <2>1. UNCHANGED <<nsaves, meta, saves, mpc, ctx, due, rest, victim, half>>
      BY <1>1 DEF LoadStep, LoadBegin, Get, LoadReturns, dbVars, iterVars,
                  dropVars
    <2> QED BY <2>1, BudgetFrame DEF Stage, Position, ToVisit, DropLeft
  <1>2. CASE StartReport \/ HourPasses \/ Reopen
    BY <1>2 DEF StartReport, HourPasses, Reopen
  <1>3. CASE DropFails
    <2>1. /\ UNCHANGED <<nsaves, meta, saves>> /\ mpc' \in {"idle", "down"}
      BY <1>3 DEF DropFails, Return, dbVars
    <2>2. Stage' = 0 /\ Stage \in Nat \ {0}
      BY <2>1 DEF Stage, TypeInv, TypeOK, MidLoop
    <2> QED BY <2>1, <2>2, BudgetFrame DEF Closer
  <1>4. CASE IteratorFails
    <2>1. /\ UNCHANGED <<nsaves, meta, saves, mpc, ctx, due, victim, half>>
          /\ rest # {} /\ rest' = {} /\ mpc \in {"scan", "gather"}
      BY <1>4 DEF IteratorFails, NoDrop, dbVars, dropVars
    <2>2. Budget' = Budget /\ Stage' = Stage
      BY <2>1, BudgetFrame DEF Stage
    <2>3. Cardinality(rest) # 0 /\ Cardinality(rest') = 0
      BY <2>1, MeasureType, FS_EmptySet
    <2>4. UNCHANGED DropLeft
      BY <2>1 DEF DropLeft
    <2>5. Position' < Position
      BY <2>1, <2>3, <2>4, MeasureType DEF Position, ToVisit
    <2> QED BY <2>2, <2>5 DEF Closer
  <1>5. CASE Crash
    <2>1. /\ UNCHANGED <<nsaves, meta>> /\ mpc' = "down"
          /\ saves' = [s \in Savers |-> None]
      BY <1>5 DEF Crash, dbVars
    <2>2. Stage' = 0 /\ Stage \in Nat \ {0}
      BY <2>1 DEF Stage, TypeInv, TypeOK, MidLoop
    <2>3. Announced' = {} /\ Stored(meta)' = Stored(meta)
      BY <2>1 DEF Announced, Stored
    <2>4. Cardinality(Announced') = 0
      BY <2>3, FS_EmptySet
    <2>5. Budget' <= Budget /\ Budget' \in Int
      BY <2>1, <2>3, <2>4, MeasureType, BoundsAssumption
         DEF Budget, TypeInv, TypeOK
    <2> QED BY <2>2, <2>5, MeasureType DEF Closer
  <1> QED BY <1>1, <1>2, <1>3, <1>4, <1>5

\* try_shrink_db and RocksCache::new end: each step of the main thread decreases
\* a triple of natural numbers, in their lexicographic order, and while it is
\* at work no other step increases it.
THEOREM MainAdvancesCorrect == Spec => MainThreadAdvances
  <1>1. Init => TypeInv /\ SizeInv /\ RecordsInv
    <2>1. Init => RecordsInv
      BY DEF Init, RecordsInv
    <2> QED BY <2>1, InitType, InitSize
  <1>2. TypeInv /\ SizeInv /\ RecordsInv /\ [Next]_vars
          => (TypeInv /\ SizeInv /\ RecordsInv)'
    BY NextType, NextSize, NextRecords
  <1>3. TypeInv /\ RecordsInv /\ [Next]_vars /\ TypeInv' =>
          [/\ MainStep => Closer
           /\ mpc \notin {"idle", "down"} =>
                Closer \/ UNCHANGED <<Budget, Stage, Position>>]_vars
    <2> SUFFICES ASSUME TypeInv, RecordsInv, TypeInv', Next
                 PROVE  /\ MainStep => Closer
                        /\ mpc \notin {"idle", "down"} =>
                             Closer \/ UNCHANGED <<Budget, Stage, Position>>
      OBVIOUS
    <2>1. MainStep => Closer
      BY MainCloser
    <2> QED BY <2>1, SaveNoFarther, OthersNoFarther DEF Next
  <1> QED BY <1>1, <1>2, <1>3, PTL DEF Spec, MainThreadAdvances

=============================================================================
