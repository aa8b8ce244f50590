------------------------- MODULE RocksRefinementProofs -------------------------
(***************************************************************************)
(* RocksCache implements ImageCache, for every set of keys, payloads,      *)
(* savers and loaders and every bound.                                     *)
(***************************************************************************)
EXTENDS RocksRefinement, RocksCacheProofs

\* What a save that met no other save of its key has put is still there or was
\* evicted: nobody else writes under its key.
LoneInv ==
  \A s \in lone :
    /\ saves[s] # None
    /\ \A t \in Savers : Active(t, saves[s].key) => t = s
    /\ "images" \notin saves[s].todo
         => images[saves[s].key] \in {saves[s].entry.content, None}
    /\ "meta" \notin saves[s].todo
         => meta[saves[s].key] \in {saves[s].entry, None}

\* Every save in progress is the same call in the next state.
SameCalls ==
  \A s \in Savers :
    /\ saves'[s] = None <=> saves[s] = None
    /\ saves[s] # None => /\ saves'[s].key = saves[s].key
                          /\ saves'[s].entry = saves[s].entry
                          /\ saves'[s].todo = saves[s].todo

\* Both column families only lose records.
OnlyDrops == \A k \in Keys : /\ images'[k] \in {images[k], None}
                             /\ meta'[k] \in {meta[k], None}

\* A contended save is the same call.
LEMMA ContendCalls ==
  ASSUME TypeInv, NEW k \in Keys, saves' = Contend(k)
  PROVE  SameCalls
  <1> SUFFICES ASSUME NEW s \in Savers
               PROVE  /\ saves'[s] = None <=> saves[s] = None
                      /\ saves[s] # None =>
                           /\ saves'[s].key = saves[s].key
                           /\ saves'[s].entry = saves[s].entry
                           /\ saves'[s].todo = saves[s].todo
    BY DEF SameCalls
  <1>1. saves[s] # None => saves[s] \in SaveOp
    BY DEF TypeInv, TypeOK
  <1> QED BY <1>1, ContendType DEF Contend, SaveOp, TypeInv

\* A step that leaves the calls alone and writes nothing shows as forgetting.
LEMMA DropFrame ==
  ASSUME TypeInv, SameCalls, OnlyDrops, UNCHANGED lone
  PROVE  /\ SaveCalls' = SaveCalls
         /\ \A k \in Keys : Held(k)' \subseteq Held(k)
         /\ LoneInv => LoneInv'
  <1>1. \A s \in Savers, k \in Keys : Active(s, k)' <=> Active(s, k)
    BY DEF SameCalls, Active
  <1>2. SaveCalls' = SaveCalls
    BY DEF SaveCalls, SameCalls
  <1>3. ASSUME NEW k \in Keys PROVE Held(k)' \subseteq Held(k)
    <2>1. /\ images'[k] \in {images[k], None}
          /\ ImageOf(meta'[k]) \in {ImageOf(meta[k]), None}
      BY MarkersAssumption DEF OnlyDrops, ImageOf
    <2>2. ASSUME NEW s \in Saving(k)'
          PROVE  s \in Saving(k) /\ saves'[s].entry.content = saves[s].entry.content
      BY <2>2 DEF Saving, SameCalls
    <2> QED BY <2>1, <2>2 DEF Held
  <1>4. ASSUME LoneInv PROVE LoneInv'
    <2> SUFFICES ASSUME NEW s \in lone
                 PROVE  (/\ saves[s] # None
                         /\ \A t \in Savers : Active(t, saves[s].key) => t = s
                         /\ "images" \notin saves[s].todo
                              => images[saves[s].key]
                                   \in {saves[s].entry.content, None}
                         /\ "meta" \notin saves[s].todo
                              => meta[saves[s].key] \in {saves[s].entry, None})'
      BY DEF LoneInv
    <2>1. s \in Savers /\ saves[s] # None
      BY <1>4 DEF LoneInv, TypeInv, TypeOK
    <2>2. saves[s].key \in Keys
      BY <2>1 DEF TypeInv, TypeOK, SaveOp
    <2>3. saves'[s].key = saves[s].key /\ saves'[s].entry = saves[s].entry
          /\ saves'[s].todo = saves[s].todo /\ saves'[s] # None
      BY <2>1 DEF SameCalls
    <2>4. ASSUME NEW t \in Savers, Active(t, saves[s].key)'  PROVE t = s
      BY <1>1, <1>4, <2>2, <2>3, <2>4 DEF LoneInv, Active
    <2>5. /\ "images" \notin saves[s].todo
               => images'[saves[s].key] \in {saves[s].entry.content, None}
          /\ "meta" \notin saves[s].todo
               => meta'[saves[s].key] \in {saves[s].entry, None}
      BY <1>4, <2>2 DEF LoneInv, OnlyDrops
    <2> QED BY <2>3, <2>4, <2>5
  <1> QED BY <1>2, <1>3, <1>4

\* The images a load may find are payloads.
LEMMA HeldType ==
  ASSUME TypeInv, NEW k \in Keys
  PROVE  Held(k) \subseteq Contents
  <1>1. images[k] \in Contents \cup {None}
    BY DEF TypeInv, TypeOK
  <1>2. ImageOf(meta[k]) \in Contents \cup {None}
    BY DEF ImageOf, Entry
  <1>3. \A s \in Saving(k) : saves[s].entry.content \in Contents
    BY DEF Saving, TypeInv, TypeOK, SaveOp, Entry
  <1> QED BY <1>1, <1>2, <1>3 DEF Held

\* A save in progress is mapped to a call in progress.
LEMMA SaveCallType ==
  ASSUME TypeInv, NEW s \in Savers
  PROVE  /\ SaveCalls[s] = None <=> saves[s] = None
         /\ saves[s] # None =>
              /\ SaveCalls[s].key = saves[s].key
              /\ SaveCalls[s].content = saves[s].entry.content
              /\ SaveCalls[s].lone = (s \in lone)
  <1> SUFFICES ASSUME saves[s] # None
               PROVE  /\ SaveCalls[s] # None
                      /\ SaveCalls[s].key = saves[s].key
                      /\ SaveCalls[s].content = saves[s].entry.content
                      /\ SaveCalls[s].lone = (s \in lone)
    BY DEF SaveCalls
  <1>1. saves[s].key \in Keys /\ saves[s].entry.content \in Contents
    BY DEF TypeInv, TypeOK, SaveOp, Entry
  <1>2. SaveCalls[s] = [key |-> saves[s].key,
                        content |-> saves[s].entry.content,
                        lone |-> s \in lone]
    BY DEF SaveCalls
  <1>3. SaveCalls[s] \in [key : Keys, content : Contents, lone : BOOLEAN]
    BY <1>1, <1>2
  <1>4. SaveCalls[s] # None
    BY <1>3, CallsAssumption
  <1>5. SaveCalls[s].lone = (s \in lone)
    BY <1>2
  <1> QED BY <1>2, <1>4, <1>5

\* A load in progress is mapped to a call in progress.
LEMMA LoadCallType ==
  ASSUME TypeInv, NEW l \in Loaders, loads[l] # None
  PROVE  LoadCalls[l] # None
  <1>1. /\ loads[l].key \in Keys /\ loads[l].bytes \in Contents \cup {None}
        /\ ImageOf(loads[l].entry) \in Contents \cup {None}
    BY DEF TypeInv, TypeOK, LoadOp, ImageOf, Entry
  <1>2. LoadCalls[l] \in [key : Keys, bytes : Contents \cup {None},
                          sum : Contents \cup {None}]
    BY <1>1 DEF LoadCalls
  <1> QED BY <1>2, CallsAssumption

\* The mapped variables have the types of ImageCache.
LEMMA MappedType == TypeInv => held \in [Keys -> SUBSET Contents]
  BY HeldType DEF held

\* What is found under no key grows.
LEMMA ForgetsStep ==
  ASSUME TypeInv, TypeInv', \A k \in Keys : Held(k)' \subseteq Held(k)
  PROVE  Trait!Forgets
  <1>1. (held \in [Keys -> SUBSET Contents])'
    BY MappedType, PTL
  <1>2. \A k \in Keys : held'[k] = Held(k)' /\ held[k] = Held(k)
    BY DEF held
  <1> QED BY <1>1, <1>2 DEF Trait!Forgets

\* save_entry up to its puts is the call of save.
LEMMA SaveBeginStep ==
  ASSUME TypeInv, LoneInv, NEW s \in Savers, NEW k \in Keys, NEW e \in Entry,
         SaveBegin(s, k, e)
  PROVE  Trait!Save(s, k, e.content) /\ LoneInv'
  <1> DEFINE new == [key |-> k, entry |-> e, todo |-> ColumnFamily,
                     alone |-> ~(Saving(k) # {} \/ victim = k)]
  <1>1. /\ saves[s] = None
        /\ saves' = [Contend(k) EXCEPT ![s] = new]
        /\ lone' = (lone \ Saving(k)) \cup (IF Saving(k) = {} THEN {s} ELSE {})
        /\ \A l \in Loaders : loads'[l] =
             IF loads[l] # None /\ loads[l].key = k
               THEN [loads[l] EXCEPT !.clean = FALSE] ELSE loads[l]
        /\ UNCHANGED <<images, meta, faults>>
    BY DEF SaveBegin, dbVars
  <1>2. new \in SaveOp /\ new # None
    <2>1. new \in SaveOp
      BY DEF SaveOp
    <2> QED BY <2>1, MarkersAssumption
  <1>3. saves'[s] = new
    BY <1>1 DEF Contend
  <1>4. ASSUME NEW t \in Savers, t # s
        PROVE  /\ saves'[t] = None <=> saves[t] = None
               /\ saves[t] # None => /\ saves'[t].key = saves[t].key
                                     /\ saves'[t].entry = saves[t].entry
                                     /\ saves'[t].todo = saves[t].todo
    <2>1. saves'[t] = Contend(k)[t]
      BY <1>1, <1>4 DEF Contend
    <2>2. saves[t] # None => saves[t] \in SaveOp
      BY DEF TypeInv, TypeOK
    <2> QED BY <2>1, <2>2, ContendType DEF Contend, SaveOp, TypeInv
  <1> HIDE DEF new
  <1>5. new.key = k /\ new.entry = e /\ new.todo = ColumnFamily
    BY DEF new
  <1>6. \A j \in Keys : Saving(j)' = Saving(j) \cup (IF j = k THEN {s} ELSE {})
    BY <1>1, <1>2, <1>3, <1>4, <1>5 DEF Saving
  <1>7. s \notin lone /\ \A j \in Keys : s \notin Saving(j)
    BY <1>1 DEF LoneInv, Saving
  <1>8. ASSUME NEW j \in Keys
        PROVE  Held(j)' = Held(j) \cup (IF j = k THEN {e.content} ELSE {})
    <2>1. {saves'[t].entry.content : t \in Saving(j)'}
            = {saves[t].entry.content : t \in Saving(j)}
                \cup (IF j = k THEN {e.content} ELSE {})
      <3>1. \A t \in Saving(j) : /\ t \in Savers /\ t # s
                                 /\ saves'[t].entry = saves[t].entry
        BY <1>4, <1>7 DEF Saving
      <3> QED BY <1>3, <1>5, <1>6, <3>1
    <2> QED BY <1>1, <2>1 DEF Held
  <1>9. held' = [held EXCEPT ![k] = @ \cup {e.content}]
    BY <1>8 DEF held
  <1>10. ASSUME NEW t \in Savers
         PROVE  SaveCalls'[t] =
                  IF t = s THEN [key |-> k, content |-> e.content,
                                 lone |-> Saving(k) = {}]
                  ELSE IF t \in Saving(k)
                    THEN Trait!Met(SaveCalls[t]) ELSE SaveCalls[t]
    <2>1. CASE t = s
      <3>1. s \in lone' <=> Saving(k) = {}
        BY <1>1, <1>7
      <3>2. SaveCalls'[s] = [key |-> k, content |-> e.content, lone |-> s \in lone']
        BY <1>2, <1>3, <1>5 DEF SaveCalls
      <3> QED BY <2>1, <3>1, <3>2
    <2>2. CASE t # s /\ t \in Saving(k)
      <3>1. (t \in lone') = FALSE /\ saves[t] # None /\ saves'[t] # None
        BY <1>1, <1>4, <2>2 DEF Saving
      <3>2. SaveCalls'[t] = [key |-> saves'[t].key,
                             content |-> saves'[t].entry.content,
                             lone |-> FALSE]
        BY <3>1 DEF SaveCalls
      <3>3. /\ SaveCalls[t].key = saves[t].key
            /\ SaveCalls[t].content = saves[t].entry.content
        BY <3>1, SaveCallType
      <3>4. saves'[t].key = saves[t].key /\ saves'[t].entry = saves[t].entry
        BY <1>4, <2>2, <3>1
      <3> QED BY <2>2, <3>2, <3>3, <3>4 DEF Trait!Met
    <2>3. CASE t # s /\ t \notin Saving(k)
      <3>1. t \in lone' <=> t \in lone
        BY <1>1, <2>3
      <3> QED BY <1>4, <2>3, <3>1 DEF SaveCalls
    <2> QED BY <2>1, <2>2, <2>3
  <1>11. Trait!Saving(k) = Saving(k)
    <2>1. ASSUME NEW t \in Savers
          PROVE  /\ SaveCalls[t] = None <=> saves[t] = None
                 /\ saves[t] # None => SaveCalls[t].key = saves[t].key
      BY SaveCallType DEF SaveCalls
    <2> QED BY <2>1 DEF Trait!Saving, Saving
  <1>12. LoadCalls' = LoadCalls
    <2>1. ASSUME NEW l \in Loaders
          PROVE  LoadCalls'[l] = LoadCalls[l]
      <3>1. loads[l] # None => loads[l] \in LoadOp
        BY DEF TypeInv, TypeOK
      <3>2. CASE loads[l] # None /\ loads[l].key = k
        <4>1. /\ loads'[l] \in LoadOp /\ loads'[l].key = loads[l].key
              /\ loads'[l].bytes = loads[l].bytes
              /\ loads'[l].entry = loads[l].entry
          BY <1>1, <3>1, <3>2 DEF LoadOp
        <4>2. loads'[l] # None
          BY <4>1, MarkersAssumption
        <4> QED BY <3>2, <4>1, <4>2 DEF LoadCalls
      <3>3. CASE ~(loads[l] # None /\ loads[l].key = k)
        BY <1>1, <3>3 DEF LoadCalls
      <3> QED BY <3>2, <3>3
    <2> QED BY <2>1 DEF LoadCalls
  <1>13. LoneInv'
    <2> SUFFICES ASSUME NEW r \in lone'
                 PROVE  (/\ saves[r] # None
                         /\ \A t \in Savers : Active(t, saves[r].key) => t = r
                         /\ "images" \notin saves[r].todo
                              => images[saves[r].key]
                                   \in {saves[r].entry.content, None}
                         /\ "meta" \notin saves[r].todo
                              => meta[saves[r].key] \in {saves[r].entry, None})'
      BY DEF LoneInv
    <2>1. CASE r = s
      <3>1. Saving(k) = {}
        BY <1>1, <1>7, <2>1
      <3>2. \A t \in Savers : Active(t, k)' => t = s
        BY <1>4, <3>1 DEF Active, Saving
      <3>3. saves'[r] # None /\ saves'[r].key = k
            /\ saves'[r].todo = ColumnFamily
        BY <1>2, <1>3, <1>5, <2>1
      <3> QED BY <2>1, <3>2, <3>3 DEF Active, ColumnFamily
    <2>2. CASE r # s
      <3>1. r \in lone /\ r \notin Saving(k)
        BY <1>1, <2>2
      <3>2. /\ r \in Savers /\ saves[r] # None /\ saves[r].key # k
            /\ saves'[r].key = saves[r].key /\ saves'[r].entry = saves[r].entry
            /\ saves'[r].todo = saves[r].todo /\ saves'[r] # None
        BY <1>4, <2>2, <3>1 DEF LoneInv, Saving, TypeInv, TypeOK
      <3>3. ASSUME NEW t \in Savers, Active(t, saves[r].key)'  PROVE t = r
        <4>1. t # s
          BY <1>3, <1>5, <3>2, <3>3 DEF Active
        <4> QED BY <1>4, <3>1, <3>2, <3>3, <4>1 DEF LoneInv, Active
      <3> QED BY <1>1, <3>1, <3>2, <3>3 DEF LoneInv
    <2> QED BY <2>1, <2>2
  <1>14. SaveCalls[s] = None
    BY <1>1 DEF SaveCalls
  <1>15. SaveCalls' = [t \in Savers |->
                         IF t = s THEN [key |-> k, content |-> e.content,
                                        lone |-> Trait!Saving(k) = {}]
                         ELSE IF t \in Trait!Saving(k)
                           THEN Trait!Met(SaveCalls[t])
                         ELSE SaveCalls[t]]
    BY <1>10, <1>11 DEF SaveCalls
  <1> QED BY <1>1, <1>9, <1>12, <1>13, <1>14, <1>15 DEF Trait!Save

\* A put of save_entry leaves the save under way, or is the return of save.
LEMMA PutStep ==
  ASSUME TypeInv, TypeInv', LoneInv, NEW s \in Savers, NEW cf \in ColumnFamily,
         Put(s, cf)
  PROVE  /\ LoneInv'
         /\ \/ Trait!Forget
            \/ Trait!Saved(s)
  <1>0. PICK k \in Keys, e \in Entry : k = saves[s].key /\ e = saves[s].entry
    BY DEF Put, TypeInv, TypeOK, SaveOp
  <1> DEFINE last == saves[s].todo = {cf}
  <1>1. /\ saves[s] # None /\ cf \in saves[s].todo
        /\ saves' = [saves EXCEPT ![s] = AfterPut(s, cf, saves[s].alone)]
        /\ lone' = IF last THEN lone \ {s} ELSE lone
        /\ UNCHANGED <<loads, faults>>
    BY DEF Put
  <1>2. saves[s] \in SaveOp /\ saves[s].alone \in BOOLEAN
    BY <1>1 DEF TypeInv, TypeOK, SaveOp
  <1>3. /\ \A t \in Savers \ {s} : saves'[t] = saves[t]
        /\ saves'[s] = None <=> last
        /\ saves'[s] # None =>
              /\ saves'[s].key = k
              /\ saves'[s].entry = e
              /\ saves'[s].todo = saves[s].todo \ {cf}
        /\ \A t \in Savers, j \in Keys : Active(t, j)' => Active(t, j)
    BY <1>0, <1>1, <1>2, PutOp
  <1>4. /\ cf = "images" => images' = [images EXCEPT ![k] = e.content]
                            /\ meta' = meta
        /\ cf = "meta" => meta' = [meta EXCEPT ![k] = e] /\ images' = images
    BY <1>0 DEF Put
  <1>5. \A j \in Keys \ {k} : images'[j] = images[j] /\ meta'[j] = meta[j]
    BY <1>4 DEF TypeInv, TypeOK, ColumnFamily
  <1>6. /\ cf = "images" => images'[k] = e.content /\ meta'[k] = meta[k]
        /\ cf = "meta" => meta'[k] = e /\ images'[k] = images[k]
    BY <1>4 DEF TypeInv, TypeOK
  <1>7. cf \in {"images", "meta"} /\ s \in Saving(k)
    BY <1>0, <1>1 DEF ColumnFamily, Saving
  <1>8. ASSUME s \in lone
        PROVE  /\ \A t \in Savers : Active(t, k) => t = s
               /\ "images" \notin saves[s].todo => images[k] \in {e.content, None}
               /\ "meta" \notin saves[s].todo => meta[k] \in {e, None}
    BY <1>0, <1>8 DEF LoneInv
  <1> HIDE DEF last
  <1>9. ASSUME NEW j \in Keys PROVE Held(j)' \subseteq Held(j)
    <2>1. ASSUME NEW t \in Saving(j)'
          PROVE  t \in Saving(j) /\ saves'[t].entry = saves[t].entry
      BY <1>0, <1>1, <1>3, <2>1 DEF Saving
    <2>2. e.content \in Held(k)
      BY <1>0, <1>7 DEF Held
    <2>3. images'[j] \in Held(j) \cup {None}
      BY <1>5, <1>6, <1>7, <2>2 DEF Held
    <2>4. ImageOf(meta'[j]) \in Held(j) \cup {None}
      BY <1>5, <1>6, <1>7, <2>2 DEF Held, ImageOf
    <2>5. {saves'[t].entry.content : t \in Saving(j)'} \subseteq Held(j)
      BY <2>1 DEF Held
    <2> QED BY <2>3, <2>4, <2>5 DEF Held
  <1>10. Trait!Forgets
    BY <1>9, ForgetsStep
  <1>11. LoadCalls' = LoadCalls
    BY <1>1 DEF LoadCalls
  <1>12. LoneInv'
    <2> SUFFICES ASSUME NEW r \in lone'
                 PROVE  (/\ saves[r] # None
                         /\ \A t \in Savers : Active(t, saves[r].key) => t = r
                         /\ "images" \notin saves[r].todo
                              => images[saves[r].key]
                                   \in {saves[r].entry.content, None}
                         /\ "meta" \notin saves[r].todo
                              => meta[saves[r].key] \in {saves[r].entry, None})'
      BY DEF LoneInv
    <2>1. r \in lone /\ r \in Savers /\ (r = s => ~last)
      BY <1>1 DEF TypeInv, TypeOK
    <2>2. CASE r = s
      <3>1. /\ saves'[r] # None /\ saves'[r].key = k /\ saves'[r].entry = e
            /\ saves'[r].todo = saves[s].todo \ {cf}
        BY <1>3, <2>1, <2>2
      <3>2. \A t \in Savers : Active(t, saves[r].key)' => t = r
        BY <1>3, <1>8, <2>1, <2>2, <3>1 DEF Active
      <3>3. "images" \notin saves'[r].todo => images'[k] \in {e.content, None}
        BY <1>6, <1>7, <1>8, <2>1, <2>2, <3>1
      <3>4. "meta" \notin saves'[r].todo => meta'[k] \in {e, None}
        BY <1>6, <1>7, <1>8, <2>1, <2>2, <3>1
      <3> QED BY <3>1, <3>2, <3>3, <3>4
    <2>3. CASE r # s
      <3>1. saves'[r] = saves[r] /\ saves[r] # None
        BY <1>3, <2>1, <2>3 DEF LoneInv
      <3>2. saves[r].key \in Keys \ {k}
        BY <1>0, <1>1, <2>1, <2>3, <3>1
        DEF LoneInv, Active, TypeInv, TypeOK, SaveOp
      <3>3. ASSUME NEW t \in Savers, Active(t, saves[r].key)'  PROVE t = r
        BY <1>3, <2>1, <3>1, <3>2, <3>3 DEF LoneInv, Active
      <3> QED BY <1>5, <2>1, <3>1, <3>2, <3>3 DEF LoneInv
    <2> QED BY <2>2, <2>3
  <1>13. CASE ~last
    <2>1. SaveCalls' = SaveCalls
      <3>1. ASSUME NEW t \in Savers
            PROVE  /\ saves'[t] = None <=> saves[t] = None
                   /\ saves[t] # None => /\ saves'[t].key = saves[t].key
                                         /\ saves'[t].entry = saves[t].entry
        BY <1>0, <1>1, <1>3, <1>13
      <3> QED BY <1>1, <1>13, <3>1 DEF SaveCalls
    <2> QED BY <1>1, <1>10, <1>11, <1>12, <2>1 DEF Trait!Forget, Trait!MayFail
  <1>14. CASE last
    <2>1. SaveCalls' = [SaveCalls EXCEPT ![s] = None]
      <3>1. ASSUME NEW t \in Savers \ {s}
            PROVE  SaveCalls'[t] = SaveCalls[t]
        <4>1. saves'[t] = saves[t] /\ (t \in lone' <=> t \in lone)
          BY <1>1, <1>3
        <4> QED BY <4>1 DEF SaveCalls
      <3>2. SaveCalls'[s] = None
        BY <1>3, <1>14 DEF SaveCalls
      <3> QED BY <3>1, <3>2 DEF SaveCalls
    <2>2. ASSUME s \in lone PROVE Held(k)' \subseteq {e.content}
      <3>1. Saving(k)' = {}
        BY <1>3, <1>8, <1>14, <2>2 DEF Saving, Active
      <3>2. images'[k] \in {e.content, None} /\ meta'[k] \in {e, None}
        BY <1>6, <1>7, <1>8, <1>14, <2>2 DEF last
      <3>3. ImageOf(meta'[k]) \in {e.content, None}
        BY <3>2, MarkersAssumption DEF ImageOf
      <3> QED BY <3>1, <3>2, <3>3 DEF Held
    <2>3. SaveCalls[s] # None /\ SaveCalls[s].key = k
          /\ SaveCalls[s].content = e.content /\ SaveCalls[s].lone = (s \in lone)
      BY <1>0, <1>1, SaveCallType
    <2>4. held'[k] = Held(k)'
      BY DEF held
    <2> QED BY <1>1, <1>10, <1>11, <1>12, <2>1, <2>2, <2>3, <2>4
            DEF Trait!Saved
  <1> QED BY <1>12, <1>13, <1>14

\* A failed put is the failure of save.
LEMMA PutFailsStep ==
  ASSUME TypeInv, TypeInv', LoneInv, NEW s \in Savers, NEW cf \in ColumnFamily,
         PutFails(s, cf)
  PROVE  LoneInv' /\ Trait!Fail(s)
  <1>0. PICK k \in Keys, e \in Entry : k = saves[s].key /\ e = saves[s].entry
    BY DEF PutFails, TypeInv, TypeOK, SaveOp
  <1>1. /\ saves[s] # None /\ cf \in saves[s].todo
        /\ saves' = [saves EXCEPT ![s] = AfterPut(s, cf, FALSE)]
        /\ lone' = lone \ {s}
        /\ faults' = faults + 1
        /\ UNCHANGED <<images, meta, loads>>
    BY DEF PutFails, dbVars
  <1>2. /\ \A t \in Savers \ {s} : saves'[t] = saves[t]
        /\ saves'[s] # None => saves'[s].key = k /\ saves'[s].entry = e
        /\ \A t \in Savers, j \in Keys : Active(t, j)' => Active(t, j)
    BY <1>0, <1>1, PutOp
  <1>3. Trait!Forgets
    <2>1. ASSUME NEW j \in Keys PROVE Held(j)' \subseteq Held(j)
      <3>1. ASSUME NEW t \in Saving(j)'
            PROVE  t \in Saving(j) /\ saves'[t].entry = saves[t].entry
        BY <1>0, <1>1, <1>2, <3>1 DEF Saving
      <3> QED BY <1>1, <3>1 DEF Held
    <2> QED BY <2>1, ForgetsStep
  <1>4. LoneInv'
    <2> SUFFICES ASSUME NEW r \in lone \ {s}
                 PROVE  (/\ saves[r] # None
                         /\ \A t \in Savers : Active(t, saves[r].key) => t = r
                         /\ "images" \notin saves[r].todo
                              => images[saves[r].key]
                                   \in {saves[r].entry.content, None}
                         /\ "meta" \notin saves[r].todo
                              => meta[saves[r].key] \in {saves[r].entry, None})'
      BY <1>1 DEF LoneInv
    <2>1. r \in Savers /\ saves'[r] = saves[r] /\ saves[r] # None
      BY <1>2 DEF LoneInv, TypeInv, TypeOK
    <2>2. saves[r].key \in Keys
      BY <2>1 DEF TypeInv, TypeOK, SaveOp
    <2>3. ASSUME NEW t \in Savers, Active(t, saves[r].key)'  PROVE t = r
      BY <1>2, <2>1, <2>2, <2>3 DEF LoneInv, Active
    <2> QED BY <1>1, <2>1, <2>3 DEF LoneInv
  <1>5. ASSUME NEW t \in Savers \ {s}
        PROVE  SaveCalls'[t] = SaveCalls[t]
    <2>1. saves'[t] = saves[t] /\ (t \in lone' <=> t \in lone)
      BY <1>1, <1>2
    <2> QED BY <2>1 DEF SaveCalls
  <1>6. SaveCalls[s] # None /\ SaveCalls[s].key = k
        /\ SaveCalls[s].content = e.content
    BY <1>0, <1>1, SaveCallType
  <1>7. SaveCalls'[s] \in {None, Trait!Met(SaveCalls[s])}
    <2>1. (s \in lone') = FALSE
      BY <1>1
    <2>2. CASE saves'[s] # None
      <3>1. SaveCalls'[s] = [key |-> k, content |-> e.content, lone |-> FALSE]
        BY <1>2, <2>1, <2>2 DEF SaveCalls
      <3> QED BY <1>6, <3>1 DEF Trait!Met
    <2>3. CASE saves'[s] = None
      BY <2>3 DEF SaveCalls
    <2> QED BY <2>2, <2>3
  <1>8. SaveCalls' \in {[SaveCalls EXCEPT ![s] = None],
                        [SaveCalls EXCEPT ![s] = Trait!Met(SaveCalls[s])]}
    <2>1. SaveCalls' = [SaveCalls EXCEPT ![s] = SaveCalls'[s]]
      BY <1>5 DEF SaveCalls
    <2> QED BY <1>7, <2>1
  <1>9. LoadCalls' = LoadCalls
    BY <1>1 DEF LoadCalls
  <1> QED BY <1>1, <1>3, <1>4, <1>6, <1>8, <1>9 DEF Trait!Fail

\* The steps of load_entry are the call of load, what it finds, and its return.
LEMMA LoadTraitStep ==
  ASSUME TypeInv, LoneInv, NEW l \in Loaders, LoadStep(l)
  PROVE  /\ LoneInv'
         /\ \/ \E k \in Keys : Trait!Load(l, k)
            \/ Trait!Find(l) \/ Trait!Answer(l)
  <1>1. /\ UNCHANGED <<images, meta, saves, lone>>
        /\ \A m \in Loaders \ {l} : loads'[m] = loads[m]
    BY DEF LoadStep, LoadBegin, Get, LoadReturns, dbVars, saveLog, TypeInv, TypeOK
  <1>2. LoneInv' /\ SaveCalls' = SaveCalls /\ held' = held
    BY <1>1 DEF LoneInv, Active, SaveCalls, held, Held, Saving
  <1>3. \A m \in Loaders \ {l} : LoadCalls'[m] = LoadCalls[m]
    BY <1>1 DEF LoadCalls
  <1>4. ASSUME NEW k \in Keys, LoadBegin(l, k)
        PROVE  Trait!Load(l, k)
    <2>1. /\ loads'[l] \in LoadOp /\ loads'[l].key = k
          /\ loads'[l].bytes = None /\ loads'[l].entry = None
      BY <1>4 DEF LoadBegin, TypeInv, TypeOK, LoadOp
    <2>2. LoadCalls'[l] = [key |-> k, bytes |-> None, sum |-> None]
      BY <2>1, MarkersAssumption DEF LoadCalls, ImageOf
    <2>3. LoadCalls[l] = None
      BY <1>4 DEF LoadBegin, LoadCalls
    <2>4. UNCHANGED faults
      BY <1>4 DEF LoadBegin
    <2> QED BY <1>2, <1>3, <2>2, <2>3, <2>4 DEF Trait!Load, LoadCalls
  <1>5. ASSUME NEW cf \in ColumnFamily, Get(l, cf)
        PROVE  Trait!Find(l)
    <2>1. /\ loads[l] \in LoadOp /\ loads[l] # None
          /\ loads'[l] = AfterGet(loads[l], cf)
      BY <1>5 DEF Get, TypeInv, TypeOK
    <2> DEFINE k == loads[l].key
    <2>2. /\ loads'[l] \in LoadOp /\ loads'[l].key = k
          /\ loads'[l].bytes \in {loads[l].bytes, images[k]}
          /\ loads'[l].entry \in {loads[l].entry, meta[k]}
      BY <2>1, NextType, <1>5 DEF AfterGet, LoadOp, TypeInv, TypeOK
    <2>3. k \in Keys
      BY <2>1 DEF LoadOp
    <2> HIDE DEF k
    <2>4. /\ images[k] \in Held(k) \cup {None}
          /\ ImageOf(meta[k]) \in Held(k) \cup {None}
      BY DEF Held
    <2>5. held[k] = Held(k)
      BY <2>3 DEF held
    <2>6. loads'[l] # None
      BY <2>2, MarkersAssumption
    <2>7. LoadCalls'[l] = [key |-> k, bytes |-> loads'[l].bytes,
                           sum |-> ImageOf(loads'[l].entry)]
      BY <2>2, <2>6 DEF LoadCalls
    <2>8. LoadCalls[l] = [key |-> k, bytes |-> loads[l].bytes,
                          sum |-> ImageOf(loads[l].entry)]
      BY <2>1 DEF LoadCalls, k
    <2>9. LoadCalls' = [LoadCalls EXCEPT ![l] = LoadCalls'[l]]
      BY <1>3 DEF LoadCalls
    <2>10. /\ LoadCalls[l] # None /\ LoadCalls[l].key = k
           /\ LoadCalls[l].bytes = loads[l].bytes
           /\ LoadCalls[l].sum = ImageOf(loads[l].entry)
      BY <2>1, <2>8, LoadCallType
    <2>11. /\ loads'[l].bytes \in held[k] \cup {None} \cup {LoadCalls[l].bytes}
           /\ ImageOf(loads'[l].entry)
                \in held[k] \cup {None} \cup {LoadCalls[l].sum}
      BY <2>2, <2>4, <2>5, <2>10
    <2>12. UNCHANGED faults
      BY <1>5 DEF Get
    <2> QED BY <1>2, <2>7, <2>9, <2>10, <2>11, <2>12 DEF Trait!Find
  <1>6. CASE LoadReturns(l)
    <2>1. loads'[l] = None /\ LoadCalls[l] # None
      BY <1>6, LoadCallType DEF LoadReturns, TypeInv, TypeOK
    <2>2. LoadCalls' = [LoadCalls EXCEPT ![l] = None]
      BY <1>3, <2>1 DEF LoadCalls
    <2>3. faults' \in {faults, faults + 1}
      BY <1>6 DEF LoadReturns
    <2> QED BY <1>2, <2>1, <2>2, <2>3 DEF Trait!Answer, Trait!MayFail
  <1> QED BY <1>2, <1>4, <1>5, <1>6 DEF LoadStep

\* The end of the process is that of the cache.
LEMMA CrashStep ==
  ASSUME TypeInv, TypeInv', Crash
  PROVE  LoneInv' /\ Trait!Crash
  <1>1. /\ saves' = [s \in Savers |-> None] /\ lone' = {}
        /\ loads' = [l \in Loaders |-> None]
        /\ faults' = faults + 1
        /\ UNCHANGED <<images, meta>>
    BY DEF Crash, dbVars
  <1>2. ASSUME NEW j \in Keys PROVE Held(j)' \subseteq Held(j)
    BY <1>1 DEF Held, Saving
  <1>3. SaveCalls' = [s \in Savers |-> None]
    BY <1>1 DEF SaveCalls
  <1>4. LoadCalls' = [l \in Loaders |-> None]
    BY <1>1 DEF LoadCalls
  <1> QED BY <1>1, <1>2, <1>3, <1>4, ForgetsStep DEF Trait!Crash, LoneInv

\* The scans, the eviction and the drops do what shrink may do.
LEMMA HousekeepingStep ==
  ASSUME TypeInv, TypeInv', LoneInv, SameCalls, OnlyDrops,
         UNCHANGED <<lone, loads>>, faults' \in {faults, faults + 1}
  PROVE  LoneInv' /\ Trait!Forget
  <1>1. LoadCalls' = LoadCalls
    BY DEF LoadCalls
  <1> QED BY <1>1, DropFrame, ForgetsStep DEF Trait!Forget, Trait!MayFail

\* The main thread's steps are housekeeping.
LEMMA MainThreadStep ==
  ASSUME TypeInv,
         \/ StartReport \/ HourPasses \/ MainStep \/ DropFails \/ IteratorFails
         \/ Reopen \/ UNCHANGED vars
  PROVE  /\ SameCalls /\ OnlyDrops /\ UNCHANGED <<lone, loads>>
         /\ faults' \in {faults, faults + 1}
  <1>0. faults' \in {faults, faults + 1}
    <2>1. CASE MainStep
      BY <2>1 DEF MainStep, ScanStep, EvictStep, RefreshSize, ReportAndCompare,
                  ShrinkLoad, OpenFetch, ScanEntry, DropGarbled, StoreSize,
                  OpenGather, GatherEntry, SortQueue, EvictNext, FinishShrink,
                  DropImages, DropMeta
    <2> QED BY <2>1 DEF StartReport, HourPasses, DropFails, IteratorFails,
                        Reopen, vars
  <1> SUFFICES SameCalls /\ OnlyDrops /\ UNCHANGED <<lone, loads>>
    BY <1>0
  <1>1. ASSUME UNCHANGED saves PROVE SameCalls
    BY <1>1 DEF SameCalls
  <1>2. ASSUME NEW k \in Keys, BeginDrop(k)  PROVE SameCalls
    BY <1>2, ContendCalls DEF BeginDrop
  <1>3. ASSUME UNCHANGED <<images, meta>> PROVE OnlyDrops
    BY <1>3 DEF OnlyDrops
  <1>4. CASE ScanEntry \/ GatherEntry
    <2>1. UNCHANGED lone
      BY <1>4 DEF ScanEntry, GatherEntry, DropGarbled, NoDrop, saveLog
    <2> QED BY <1>1, <1>2, <1>3, <1>4, <2>1, ScanFrame
  <1>5. CASE EvictNext
    <2>1. UNCHANGED lone
      BY <1>5 DEF EvictNext, saveLog
    <2> QED BY <1>2, <1>3, <1>5, <2>1, EvictFrame
  <1>6. CASE DropImages \/ DropMeta \/ DropFails
    <2>1. UNCHANGED <<saves, loads, lone>>
      BY <1>6 DEF DropImages, DropMeta, DropFails, saveLog
    <2>2. OnlyDrops
      BY <1>6 DEF OnlyDrops, DropImages, DropMeta, DropFails, dbVars, TypeInv,
                  TypeOK
    <2> QED BY <1>1, <2>1, <2>2
  <1>7. CASE \/ StartReport \/ HourPasses \/ RefreshSize \/ ReportAndCompare
             \/ ShrinkLoad \/ OpenFetch
    BY <1>1, <1>3, <1>7
    DEF StartReport, HourPasses, RefreshSize, ReportAndCompare, ShrinkLoad,
        OpenFetch, NoDrop, dbVars, saveLog
  <1>8. CASE \/ StoreSize \/ OpenGather \/ SortQueue \/ FinishShrink
             \/ IteratorFails \/ Reopen \/ UNCHANGED vars
    BY <1>1, <1>3, <1>8
    DEF StoreSize, OpenGather, SortQueue, FinishShrink, IteratorFails, Reopen,
        NoDrop, dbVars, saveLog, vars
  <1> QED BY <1>4, <1>5, <1>6, <1>7, <1>8 DEF MainStep, ScanStep, EvictStep

\* Every step of the engine is a step of the trait.
LEMMA NextTrait ==
  TypeInv /\ LoneInv /\ [Next]_vars => LoneInv' /\ [Trait!Next]_(Trait!vars)
  <1> SUFFICES ASSUME TypeInv, LoneInv, [Next]_vars
               PROVE  LoneInv' /\ Trait!Next
    OBVIOUS
  <1>0. TypeInv'
    BY NextType
  <1>1. ASSUME NEW s \in Savers, SaveStep(s)  PROVE LoneInv' /\ Trait!Next
    <2>1. ASSUME NEW k \in Keys, NEW e \in Entry, SaveBegin(s, k, e)
          PROVE  LoneInv' /\ Trait!Next
      <3>1. e.content \in Contents
        BY DEF Entry
      <3> QED BY <2>1, <3>1, SaveBeginStep DEF Trait!Next
    <2>2. ASSUME NEW cf \in ColumnFamily, Put(s, cf)
          PROVE  LoneInv' /\ Trait!Next
      BY <1>0, <2>2, PutStep DEF Trait!Next
    <2>3. ASSUME NEW cf \in ColumnFamily, PutFails(s, cf)
          PROVE  LoneInv' /\ Trait!Next
      BY <1>0, <2>3, PutFailsStep DEF Trait!Next
    <2> QED BY <1>1, <2>1, <2>2, <2>3 DEF SaveStep
  <1>2. ASSUME NEW l \in Loaders, LoadStep(l)  PROVE LoneInv' /\ Trait!Next
    BY <1>2, LoadTraitStep DEF Trait!Next
  <1>3. CASE Crash
    BY <1>0, <1>3, CrashStep DEF Trait!Next
  <1>4. CASE \/ StartReport \/ HourPasses \/ MainStep \/ DropFails
             \/ IteratorFails \/ Reopen \/ UNCHANGED vars
    BY <1>0, <1>4, MainThreadStep, HousekeepingStep DEF Trait!Next
  <1> QED BY <1>1, <1>2, <1>3, <1>4 DEF Next

\* save_entry, load_entry and the eviction keep the promise of the ImageCache
\* trait through every interleaving, failure and kill.
THEOREM ImplementsCorrect == Spec => ImplementsImageCache
  <1>1. Init => TypeInv /\ LoneInv /\ Trait!Init
    <2> SUFFICES ASSUME Init PROVE TypeInv /\ LoneInv /\ Trait!Init
      OBVIOUS
    <2>1. TypeInv
      BY InitType
    <2>2. LoneInv /\ faults = 0 /\ SaveCalls = [s \in Savers |-> None]
          /\ LoadCalls = [l \in Loaders |-> None]
      BY DEF Init, LoneInv, SaveCalls, LoadCalls
    <2> QED BY <2>1, <2>2, MappedType DEF Trait!Init
  <1>2. TypeInv /\ LoneInv /\ [Next]_vars
          => (TypeInv /\ LoneInv)' /\ [Trait!Next]_(Trait!vars)
    BY NextType, NextTrait
  <1> QED BY <1>1, <1>2, PTL DEF Spec, ImplementsImageCache, Trait!Spec

=============================================================================
