---------------------------- MODULE FsCacheProofs ----------------------------
(***************************************************************************)
(* FsCache is type correct and implements ImageCache, for every set of     *)
(* keys, payloads, savers and loaders and every bound.                     *)
(***************************************************************************)
EXTENDS FsCache, SumTheorems, TLAPS

\* A save's step keeps the type of the files, the counter and the calls.
LEMMA SaveType ==
  ASSUME TypeOK, NEW s \in Savers, SaveStep(s)
  PROVE  TypeOK'
  <1>1. ASSUME NEW k \in Keys, NEW c \in Contents, SaveBegin(s, k, c)
        PROVE  TypeOK'
    <2>1. [key |-> k, content |-> c, written |-> FALSE] \in SaveOp
      BY DEF SaveOp
    <2>2. nsaves' \in 0 .. MaxSaves
      BY <1>1, BoundsAssumption DEF SaveBegin, TypeOK
    <2> QED BY <1>1, <2>1, <2>2 DEF SaveBegin, mainVars, missVars, TypeOK
  <1>2. CASE Write(s)
    <2>1. /\ saves[s] \in SaveOp
          /\ [saves[s] EXCEPT !.written = TRUE] \in SaveOp
      BY <1>2 DEF Write, TypeOK, SaveOp
    <2>2. files' \in [Keys -> Blobs \cup {None}]
      BY <1>2, <2>1 DEF Write, TypeOK, SaveOp, Blobs
    <2> QED BY <1>2, <2>1, <2>2 DEF Write, mainVars, missVars, TypeOK
  <1>3. CASE Count(s)
    <2>1. Size[saves[s].content] \in Nat
      BY <1>3, SizeAssumption DEF Count, TypeOK, SaveOp, Blobs
    <2> QED BY <1>3, <2>1 DEF Count, mainVars, TypeOK
  <1>4. CASE Lose(s)
    <2>1. files' \in [Keys -> Blobs \cup {None}]
      BY <1>4 DEF Lose, TypeOK, SaveOp, Blobs
    <2>2. faults' \in 0 .. MaxFaults
      BY <1>4, BoundsAssumption DEF Lose, Fault, TypeOK
    <2>3. missed' \in BOOLEAN /\ missing' \in BOOLEAN
      BY <1>4 DEF Lose, missVars, TypeOK
    <2> QED BY <1>4, <2>1, <2>2, <2>3 DEF Lose, mainVars, TypeOK
  <1> QED BY <1>1, <1>2, <1>3, <1>4 DEF SaveStep

\* A load's step keeps the type of the calls.
LEMMA LoadType ==
  ASSUME TypeOK, NEW l \in Loaders, LoadStep(l)
  PROVE  TypeOK'
  <1>1. ASSUME NEW k \in Keys, LoadBegin(l, k)  PROVE TypeOK'
    <2>1. [key |-> k, found |-> None] \in LoadOp
      BY DEF LoadOp
    <2> QED BY <1>1, <2>1 DEF LoadBegin, mainVars, missVars, TypeOK
  <1>2. CASE Read(l)
    <2>1. [loads[l] EXCEPT !.found = files[loads[l].key]] \in LoadOp
      BY <1>2 DEF Read, TypeOK, LoadOp
    <2> QED BY <1>2, <2>1 DEF Read, mainVars, missVars, TypeOK
  <1>3. CASE LoadReturns(l)
    <2>1. faults' \in 0 .. MaxFaults
      BY <1>3, BoundsAssumption DEF LoadReturns, Fault, TypeOK
    <2> QED BY <1>3, <2>1 DEF LoadReturns, mainVars, missVars, TypeOK
  <1> QED BY <1>1, <1>2, <1>3 DEF LoadStep

\* The scans and evictions of the main thread keep their types.
LEMMA MainType ==
  ASSUME TypeOK, MainStep \/ HourPasses \/ EvictFails
  PROVE  TypeOK'
  <1>0. NoFiles \in [Keys -> Blobs \cup {None}]
    BY DEF NoFiles
  <1>1. CASE ScanEntry
    <2>1. PICK k \in rest :
            /\ rest' = rest \ {k}
            /\ \/ /\ sum' = sum + Weight(files[k])
                  /\ UNCHANGED <<faults, missing>>
               \/ Fault /\ missing' = TRUE /\ UNCHANGED sum
      BY <1>1 DEF ScanEntry
    <2>2. k \in Keys /\ Weight(files[k]) \in Nat
      BY <2>1, SizeAssumption DEF TypeOK, Weight
    <2>3. sum' \in Nat
      BY <2>1, <2>2 DEF TypeOK
    <2>5. missing' \in BOOLEAN
      BY <2>1 DEF TypeOK
    <2>4. faults' \in 0 .. MaxFaults
      BY <2>1, BoundsAssumption DEF Fault, TypeOK
    <2> QED BY <1>1, <2>1, <2>3, <2>4, <2>5 DEF ScanEntry, callVars, TypeOK
  <1>2. CASE StoreSize
    BY <1>2 DEF StoreSize, callVars, TypeOK
  <1>3. CASE Report
    <2>1. CASE due
      <3>1. /\ mpc' = "scan" /\ goal' = "report" /\ rest' = Keys /\ sum' = 0
            /\ listing' = NoFiles /\ missing' = FALSE
            /\ UNCHANGED <<files, total, due, callVars, faults, missed>>
        BY <1>3, <2>1 DEF Report, BeginScan
      <3> QED BY <1>0, <3>1 DEF callVars, TypeOK
    <2>2. CASE ~due
      BY <1>3, <2>2 DEF Report, callVars, TypeOK
    <2> QED BY <2>1, <2>2
  <1>4. CASE Compare
    BY <1>4 DEF Compare, callVars, missVars, TypeOK
  <1>5. CASE EvictNext
    BY <1>5 DEF EvictNext, callVars, missVars, TypeOK
  <1>6. CASE EvictDone
    BY <1>0, <1>6 DEF EvictDone, BeginScan, callVars, TypeOK
  <1>7. CASE HourPasses
    BY <1>7 DEF HourPasses, callVars, mainVars, missVars, TypeOK
  <1>8. CASE EvictFails
    <2>1. faults' \in 0 .. MaxFaults
      BY <1>8, BoundsAssumption DEF EvictFails, Fault, TypeOK
    <2> QED BY <1>0, <1>8, <2>1 DEF EvictFails, callVars, missVars, TypeOK
  <1> QED BY <1>1, <1>2, <1>3, <1>4, <1>5, <1>6, <1>7, <1>8
          DEF MainStep, ShrinkStep

\* Every step keeps the type.
LEMMA NextType == TypeOK /\ [Next]_vars => TypeOK'
  <1> SUFFICES ASSUME TypeOK, [Next]_vars  PROVE TypeOK'
    OBVIOUS
  <1>0. NoFiles \in [Keys -> Blobs \cup {None}]
    BY DEF NoFiles
  <1>1. CASE Crash
    <2>1. faults' \in 0 .. MaxFaults
      BY <1>1, BoundsAssumption DEF Crash, Fault, TypeOK
    <2> QED BY <1>0, <1>1, <2>1 DEF Crash, TypeOK
  <1>2. CASE Reopen
    BY <1>0, <1>2 DEF Reopen, BeginScan, callVars, TypeOK
  <1>3. CASE UNCHANGED vars
    BY <1>3 DEF vars, TypeOK
  <1> QED BY <1>1, <1>2, <1>3, SaveType, LoadType, MainType DEF Next

LEMMA InitType == Init => TypeOK
  <1> SUFFICES ASSUME Init PROVE TypeOK
    OBVIOUS
  <1>1. files \in [Keys -> Blobs \cup {None}]
    BY PriorAssumption DEF Init
  <1>2. total = 0 /\ sum = 0 /\ nsaves = 0 /\ faults = 0 /\ rest = Keys
    BY DEF Init
  <1>3. nsaves \in 0 .. MaxSaves /\ faults \in 0 .. MaxFaults
    BY <1>2, BoundsAssumption
  <1>4. /\ saves \in [Savers -> SaveOp \cup {None}]
        /\ loads \in [Loaders -> LoadOp \cup {None}]
        /\ listing \in [Keys -> Blobs \cup {None}]
    BY DEF Init, NoFiles
  <1>5. /\ due \in BOOLEAN /\ missed \in BOOLEAN /\ missing \in BOOLEAN
        /\ mpc = "scan" /\ goal = "new" /\ lone \in SUBSET Savers
    BY DEF Init
  <1> QED BY <1>1, <1>2, <1>3, <1>4, <1>5 DEF TypeOK

\* Files, counter, calls and the main thread of fs.rs keep their types.
THEOREM TypeCorrect == Spec => []TypeOK
  BY InitType, NextType, PTL DEF Spec

-----------------------------------------------------------------------------
(***************************************************************************)
(* The refinement.                                                         *)
(***************************************************************************)
\* A save that met no other save of its key is the only one, and what it has
\* written is still there or was evicted.
LoneInv ==
  \A s \in lone :
    /\ saves[s] # None
    /\ \A t \in Savers :
         (saves[t] # None /\ saves[t].key = saves[s].key) => t = s
    /\ saves[s].written => files[saves[s].key] \in {saves[s].content, None}

\* Files only go.
OnlyEvicts == \A k \in Keys : files'[k] \in {files[k], None}

LEMMA HeldType == TypeOK => held \in [Keys -> SUBSET Contents]
  BY DEF held, Held, Saving, TypeOK, SaveOp

\* A save in progress is mapped to a call in progress.
LEMMA SaveCallType ==
  ASSUME TypeOK, NEW s \in Savers
  PROVE  /\ SaveCalls[s] = None <=> saves[s] = None
         /\ saves[s] # None => /\ SaveCalls[s].key = saves[s].key
                               /\ SaveCalls[s].content = saves[s].content
                               /\ SaveCalls[s].lone = (s \in lone)
  <1> SUFFICES ASSUME saves[s] # None
               PROVE  /\ SaveCalls[s] # None
                      /\ SaveCalls[s].key = saves[s].key
                      /\ SaveCalls[s].content = saves[s].content
                      /\ SaveCalls[s].lone = (s \in lone)
    BY DEF SaveCalls
  <1>1. SaveCalls[s] = [key |-> saves[s].key, content |-> saves[s].content,
                        lone |-> s \in lone]
    BY DEF SaveCalls
  <1>2. saves[s].key \in Keys /\ saves[s].content \in Contents
    BY DEF TypeOK, SaveOp
  <1>3. SaveCalls[s] # None
    <2>1. SaveCalls[s] \in [key : Keys, content : Contents, lone : BOOLEAN]
      BY <1>1, <1>2
    <2> QED BY <2>1, CallsAssumption
  <1>4. SaveCalls[s].lone = (s \in lone)
    BY <1>1
  <1> QED BY <1>1, <1>3, <1>4

\* A load in progress is mapped to a call in progress.
LEMMA LoadCallType ==
  ASSUME TypeOK, NEW l \in Loaders, loads[l] # None
  PROVE  /\ LoadCalls[l] # None /\ LoadCalls[l].key = loads[l].key
         /\ LoadCalls[l].bytes = loads[l].found
         /\ LoadCalls[l].sum = loads[l].found
  <1>1. LoadCalls[l] = [key |-> loads[l].key, bytes |-> loads[l].found,
                        sum |-> loads[l].found]
    BY DEF LoadCalls
  <1>2. loads[l].key \in Keys /\ loads[l].found \in Contents \cup {None}
    BY DEF TypeOK, LoadOp
  <1> QED BY <1>1, <1>2, CallsAssumption

\* What is found under no key grows.
LEMMA ForgetsStep ==
  ASSUME TypeOK', \A k \in Keys : Held(k)' \subseteq Held(k)
  PROVE  Trait!Forgets
  <1>1. (held \in [Keys -> SUBSET Contents])'
    BY HeldType, PTL
  <1>2. \A k \in Keys : held'[k] = Held(k)' /\ held[k] = Held(k)
    BY DEF held
  <1> QED BY <1>1, <1>2 DEF Trait!Forgets

\* save_to_db is entered: the call of save.
LEMMA SaveBeginStep ==
  ASSUME TypeOK, LoneInv, NEW s \in Savers, NEW k \in Keys, NEW c \in Contents,
         SaveBegin(s, k, c)
  PROVE  Trait!Save(s, k, c) /\ LoneInv'
  <1> DEFINE new == [key |-> k, content |-> c, written |-> FALSE]
  <1>1. /\ saves[s] = None /\ saves' = [saves EXCEPT ![s] = new]
        /\ lone' = (lone \ Saving(k)) \cup (IF Saving(k) = {} THEN {s} ELSE {})
        /\ UNCHANGED <<files, loads, faults>>
    BY DEF SaveBegin
  <1>2. new \in SaveOp /\ new # None
    <2>1. new \in SaveOp
      BY DEF SaveOp
    <2> QED BY <2>1, MarkersAssumption
  <1>3. saves'[s] = new /\ \A t \in Savers \ {s} : saves'[t] = saves[t]
    BY <1>1 DEF TypeOK
  <1>4. new.key = k /\ new.content = c /\ new.written = FALSE
    OBVIOUS
  <1> HIDE DEF new
  <1>5. \A j \in Keys : Saving(j)' = Saving(j) \cup (IF j = k THEN {s} ELSE {})
    BY <1>1, <1>2, <1>3, <1>4 DEF Saving
  <1>6. s \notin lone /\ \A j \in Keys : s \notin Saving(j)
    BY <1>1 DEF LoneInv, Saving
  <1>7. ASSUME NEW j \in Keys
        PROVE  Held(j)' = Held(j) \cup (IF j = k THEN {c} ELSE {})
    <2>1. \A t \in Saving(j) : t \in Savers \ {s} /\ saves'[t] = saves[t]
      BY <1>3, <1>6 DEF Saving
    <2>2. {saves'[t].content : t \in Saving(j)'}
            = {saves[t].content : t \in Saving(j)}
                \cup (IF j = k THEN {c} ELSE {})
      BY <1>3, <1>4, <1>5, <2>1
    <2> QED BY <1>1, <2>2 DEF Held
  <1>8. held' = [held EXCEPT ![k] = @ \cup {c}]
    BY <1>7 DEF held
  <1>9. Trait!Saving(k) = Saving(k)
    BY SaveCallType DEF Trait!Saving, Saving
  <1>10. ASSUME NEW t \in Savers
         PROVE  SaveCalls'[t] =
                  IF t = s THEN [key |-> k, content |-> c,
                                 lone |-> Saving(k) = {}]
                  ELSE IF t \in Saving(k)
                    THEN Trait!Met(SaveCalls[t]) ELSE SaveCalls[t]
    <2>1. CASE t = s
      <3>1. s \in lone' <=> Saving(k) = {}
        BY <1>1, <1>6
      <3>2. SaveCalls'[s] = [key |-> k, content |-> c, lone |-> s \in lone']
        BY <1>2, <1>3, <1>4 DEF SaveCalls
      <3> QED BY <2>1, <3>1, <3>2
    <2>2. CASE t # s /\ t \in Saving(k)
      <3>1. (t \in lone') = FALSE /\ saves[t] # None /\ saves'[t] = saves[t]
        BY <1>1, <1>3, <2>2 DEF Saving
      <3>2. SaveCalls'[t] = [key |-> saves[t].key, content |-> saves[t].content,
                             lone |-> FALSE]
        BY <3>1 DEF SaveCalls
      <3>3. /\ SaveCalls[t].key = saves[t].key
            /\ SaveCalls[t].content = saves[t].content
        BY <3>1, SaveCallType
      <3> QED BY <2>2, <3>2, <3>3 DEF Trait!Met
    <2>3. CASE t # s /\ t \notin Saving(k)
      <3>1. t \in lone' <=> t \in lone
        BY <1>1, <2>3
      <3> QED BY <1>3, <2>3, <3>1 DEF SaveCalls
    <2> QED BY <2>1, <2>2, <2>3
  <1>11. SaveCalls' = [t \in Savers |->
                         IF t = s THEN [key |-> k, content |-> c,
                                        lone |-> Trait!Saving(k) = {}]
                         ELSE IF t \in Trait!Saving(k)
                           THEN Trait!Met(SaveCalls[t])
                         ELSE SaveCalls[t]]
    BY <1>9, <1>10 DEF SaveCalls
  <1>12. LoadCalls' = LoadCalls /\ SaveCalls[s] = None
    BY <1>1 DEF LoadCalls, SaveCalls
  <1>13. LoneInv'
    <2> SUFFICES ASSUME NEW r \in lone'
                 PROVE  (/\ saves[r] # None
                         /\ \A t \in Savers :
                              (saves[t] # None /\ saves[t].key = saves[r].key)
                                => t = r
                         /\ saves[r].written =>
                              files[saves[r].key] \in {saves[r].content, None})'
      BY DEF LoneInv
    <2>1. CASE r = s
      BY <1>1, <1>2, <1>3, <1>4, <1>6, <2>1 DEF Saving
    <2>2. CASE r # s
      BY <1>1, <1>3, <1>4, <2>2 DEF LoneInv, Saving, TypeOK
    <2> QED BY <2>1, <2>2
  <1> QED BY <1>1, <1>8, <1>11, <1>12, <1>13 DEF Trait!Save

\* The end of a save that did not change another one.
LEMMA SaveEnds ==
  ASSUME TypeOK, LoneInv, NEW s \in Savers, saves[s] # None,
         saves' = [saves EXCEPT ![s] = None], lone' = lone \ {s},
         \A k \in Keys \ {saves[s].key} : files'[k] = files[k],
         files'[saves[s].key] \in {files[saves[s].key], saves[s].content}
  PROVE  /\ SaveCalls' = [SaveCalls EXCEPT ![s] = None]
         /\ \A k \in Keys : Held(k)' \subseteq Held(k)
         /\ LoneInv'
  <1>1. saves'[s] = None /\ \A t \in Savers \ {s} : saves'[t] = saves[t]
    BY DEF TypeOK
  <1>2. saves[s].key \in Keys /\ s \in Saving(saves[s].key)
    BY DEF TypeOK, SaveOp, Saving
  <1>3. SaveCalls' = [SaveCalls EXCEPT ![s] = None]
    <2>1. ASSUME NEW t \in Savers \ {s}  PROVE SaveCalls'[t] = SaveCalls[t]
      <3>1. t \in lone' <=> t \in lone
        OBVIOUS
      <3> QED BY <1>1, <3>1 DEF SaveCalls
    <2>2. SaveCalls'[s] = None
      BY <1>1 DEF SaveCalls
    <2>3. /\ SaveCalls' = [t \in Savers |-> SaveCalls'[t]]
          /\ SaveCalls = [t \in Savers |-> SaveCalls[t]]
      BY DEF SaveCalls
    <2> QED BY <2>1, <2>2, <2>3
  <1>4. ASSUME NEW k \in Keys PROVE Held(k)' \subseteq Held(k)
    <2>1. ASSUME NEW t \in Saving(k)'
          PROVE  t \in Saving(k) /\ saves'[t] = saves[t]
      BY <1>1, <2>1 DEF Saving
    <2>2. {files'[k]} \cap Contents \subseteq Held(k)
      BY <1>2 DEF Held
    <2> QED BY <2>1, <2>2 DEF Held
  <1>5. ASSUME NEW r \in lone'
        PROVE  (/\ saves[r] # None
                /\ \A t \in Savers :
                     (saves[t] # None /\ saves[t].key = saves[r].key) => t = r
                /\ saves[r].written =>
                     files[saves[r].key] \in {saves[r].content, None})'
    <2>1. r \in lone /\ r \in Savers \ {s} /\ saves'[r] = saves[r]
      BY <1>1 DEF TypeOK
    <2>2. saves[r] # None /\ saves[r].key \in Keys \ {saves[s].key}
      BY <2>1 DEF LoneInv, TypeOK, SaveOp
    <2> QED BY <1>1, <2>1, <2>2 DEF LoneInv
  <1> QED BY <1>3, <1>4, <1>5 DEF LoneInv

\* Write, fetch_add and the loss of a save: a change of what is found, the return
\* and the failure of save.
LEMMA SaveTrait ==
  ASSUME TypeOK, TypeOK', LoneInv, NEW s \in Savers, SaveStep(s)
  PROVE  /\ LoneInv'
         /\ \/ \E k \in Keys, c \in Contents : Trait!Save(s, k, c)
            \/ Trait!Forget \/ Trait!Saved(s) \/ Trait!Fail(s)
  <1>1. ASSUME NEW k \in Keys, NEW c \in Contents, SaveBegin(s, k, c)
        PROVE  LoneInv' /\ Trait!Save(s, k, c)
    BY <1>1, SaveBeginStep
  <1>2. ASSUME Write(s) \/ Count(s) \/ Lose(s)
        PROVE  /\ UNCHANGED loads /\ LoadCalls' = LoadCalls
               /\ saves[s] # None /\ saves[s] \in SaveOp
    BY <1>2 DEF Write, Count, Lose, LoadCalls, TypeOK
  <1>3. CASE Write(s)
    <2> DEFINE k == saves[s].key
               c == saves[s].content
    <2>1. /\ files' = [files EXCEPT ![k] = c] /\ UNCHANGED <<lone, faults>>
          /\ saves' = [saves EXCEPT ![s].written = TRUE]
      BY <1>3 DEF Write
    <2>2. /\ k \in Keys /\ c \in Contents
          /\ files'[k] = c /\ \A j \in Keys \ {k} : files'[j] = files[j]
      BY <1>2, <1>3, <2>1 DEF SaveOp, TypeOK
    <2>3. saves'[s] = [saves[s] EXCEPT !.written = TRUE]
          /\ \A t \in Savers \ {s} : saves'[t] = saves[t]
      BY <2>1 DEF TypeOK
    <2>4. saves'[s] \in SaveOp /\ saves'[s].key = k /\ saves'[s].content = c
          /\ saves'[s].written = TRUE
      BY <1>2, <1>3, <2>3 DEF SaveOp
    <2>5. saves'[s] # None
      BY <2>4, MarkersAssumption
    <2>6. \A t \in Savers : /\ saves'[t] = None <=> saves[t] = None
                            /\ saves'[t] # None =>
                                 /\ saves'[t].key = saves[t].key
                                 /\ saves'[t].content = saves[t].content
      BY <1>2, <1>3, <2>3, <2>4, <2>5
    <2>7. SaveCalls' = SaveCalls
      BY <2>1, <2>6 DEF SaveCalls
    <2>8. ASSUME NEW j \in Keys PROVE Held(j)' \subseteq Held(j)
      <3>1. Saving(j)' = Saving(j)
            /\ \A t \in Saving(j) : saves'[t].content = saves[t].content
        BY <2>6 DEF Saving
      <3>2. {files'[j]} \cap Contents \subseteq Held(j)
        BY <1>2, <1>3, <2>2 DEF Held, Saving
      <3> QED BY <3>1, <3>2 DEF Held
    <2>9. LoneInv'
      <3> SUFFICES ASSUME NEW r \in lone
                   PROVE  (/\ saves[r] # None
                           /\ \A t \in Savers :
                                (saves[t] # None /\ saves[t].key = saves[r].key)
                                  => t = r
                           /\ saves[r].written =>
                                files[saves[r].key] \in {saves[r].content, None})'
        BY <2>1 DEF LoneInv
      <3>1. r \in Savers /\ saves[r] # None
        BY DEF LoneInv, TypeOK
      <3>2. ASSUME NEW t \in Savers, saves'[t] # None,
                   saves'[t].key = saves'[r].key
            PROVE  t = r
        BY <2>6, <3>1, <3>2 DEF LoneInv
      <3>3. CASE r = s
        BY <2>2, <2>4, <2>5, <3>2, <3>3
      <3>4. CASE r # s
        <4>1. saves'[r] = saves[r] /\ saves[r].key \in Keys \ {k}
          BY <1>2, <1>3, <2>3, <3>1, <3>4 DEF LoneInv, TypeOK, SaveOp
        <4> QED BY <2>2, <3>1, <3>2, <4>1 DEF LoneInv
      <3> QED BY <3>3, <3>4
    <2> HIDE DEF k, c
    <2> QED BY <1>2, <1>3, <2>1, <2>7, <2>8, <2>9, ForgetsStep
            DEF Trait!Forget, Trait!MayFail
  <1>4. CASE Count(s)
    <2>1. /\ saves' = [saves EXCEPT ![s] = None] /\ lone' = lone \ {s}
          /\ saves[s].written /\ UNCHANGED <<files, faults>>
      BY <1>4 DEF Count
    <2>2. /\ SaveCalls' = [SaveCalls EXCEPT ![s] = None]
          /\ \A k \in Keys : Held(k)' \subseteq Held(k)
          /\ LoneInv'
      BY <1>2, <1>4, <2>1, SaveEnds
    <2>0. PICK k \in Keys : k = saves[s].key
      BY <1>2, <1>4 DEF SaveOp
    <2>3. ASSUME s \in lone  PROVE held'[k] \subseteq {saves[s].content}
      <3>1. Saving(k)' = {}
        BY <2>0, <2>1, <2>3 DEF LoneInv, Saving, TypeOK
      <3>2. files'[k] \in {saves[s].content, None}
        BY <2>0, <2>1, <2>3 DEF LoneInv
      <3>3. Held(k)' = {files'[k]} \cap Contents
        BY <3>1 DEF Held
      <3>4. held'[k] = Held(k)'
        BY DEF held
      <3> QED BY <3>2, <3>3, <3>4, MarkersAssumption DEF Blobs
    <2> QED BY <1>2, <1>4, <2>0, <2>1, <2>2, <2>3, SaveCallType, ForgetsStep
            DEF Trait!Saved
  <1>5. CASE Lose(s)
    <2>1. /\ saves' = [saves EXCEPT ![s] = None] /\ lone' = lone \ {s}
          /\ faults' = faults + 1
          /\ files' = files \/ files' = [files EXCEPT ![saves[s].key] =
                                                     saves[s].content]
      BY <1>5 DEF Lose, Fault
    <2>2. /\ \A k \in Keys \ {saves[s].key} : files'[k] = files[k]
          /\ files'[saves[s].key] \in {files[saves[s].key], saves[s].content}
      BY <1>2, <1>5, <2>1 DEF TypeOK, SaveOp
    <2>3. /\ SaveCalls' = [SaveCalls EXCEPT ![s] = None]
          /\ \A k \in Keys : Held(k)' \subseteq Held(k)
          /\ LoneInv'
      BY <1>2, <1>5, <2>1, <2>2, SaveEnds
    <2> QED BY <1>2, <1>5, <2>1, <2>3, SaveCallType, ForgetsStep
            DEF Trait!Fail
  <1> QED BY <1>1, <1>3, <1>4, <1>5 DEF SaveStep

\* read_from_db: the call of load, what it finds, and its return.
LEMMA LoadTrait ==
  ASSUME TypeOK, LoneInv, NEW l \in Loaders, LoadStep(l)
  PROVE  /\ LoneInv'
         /\ \/ \E k \in Keys : Trait!Load(l, k)
            \/ Trait!Find(l) \/ Trait!Answer(l)
  <1>1. /\ UNCHANGED <<files, saves, lone>>
        /\ \A m \in Loaders \ {l} : loads'[m] = loads[m]
    BY DEF LoadStep, LoadBegin, Read, LoadReturns, TypeOK
  <1>2. LoneInv' /\ SaveCalls' = SaveCalls /\ held' = held
    BY <1>1 DEF LoneInv, SaveCalls, held, Held, Saving
  <1>3. LoadCalls' = [LoadCalls EXCEPT ![l] = LoadCalls'[l]]
    BY <1>1 DEF LoadCalls
  <1>4. ASSUME NEW k \in Keys, LoadBegin(l, k)  PROVE Trait!Load(l, k)
    <2>1. loads'[l] = [key |-> k, found |-> None] /\ loads[l] = None
          /\ UNCHANGED faults
      BY <1>4 DEF LoadBegin, TypeOK
    <2>2. [key |-> k, found |-> None] \in LoadOp
      BY DEF LoadOp
    <2>3. LoadCalls'[l] = [key |-> k, bytes |-> None, sum |-> None]
          /\ LoadCalls[l] = None
      BY <2>1, <2>2, MarkersAssumption DEF LoadCalls
    <2> QED BY <1>2, <1>3, <2>1, <2>3 DEF Trait!Load
  <1>5. CASE Read(l)
    <2> DEFINE k == loads[l].key
    <2>1. /\ loads[l] # None /\ loads[l] \in LoadOp /\ files[k] \in Contents
          /\ loads'[l] = [loads[l] EXCEPT !.found = files[k]]
          /\ UNCHANGED faults
      BY <1>5 DEF Read, TypeOK
    <2>2. k \in Keys
      BY <2>1 DEF LoadOp
    <2>3. loads'[l] \in LoadOp /\ loads'[l].key = k /\ loads'[l].found = files[k]
      BY <2>1 DEF LoadOp
    <2>4. files[k] \in held[k]
      BY <2>1, <2>2 DEF held, Held
    <2>5. LoadCalls'[l] = [key |-> k, bytes |-> files[k], sum |-> files[k]]
      BY <2>3, MarkersAssumption DEF LoadCalls
    <2>6. LoadCalls[l] # None /\ LoadCalls[l].key = k
      BY <2>1, LoadCallType
    <2> HIDE DEF k
    <2> QED BY <1>2, <1>3, <2>1, <2>4, <2>5, <2>6 DEF Trait!Find
  <1>6. CASE LoadReturns(l)
    <2>1. /\ loads'[l] = None /\ LoadCalls[l] # None
          /\ faults' \in {faults, faults + 1}
      BY <1>6, LoadCallType DEF LoadReturns, Fault, TypeOK
    <2>2. LoadCalls'[l] = None
      BY <2>1 DEF LoadCalls
    <2> QED BY <1>2, <1>3, <2>1, <2>2 DEF Trait!Answer, Trait!MayFail
  <1> QED BY <1>2, <1>4, <1>5, <1>6 DEF LoadStep

\* Scans and evictions do what shrink may do.
LEMMA HousekeepingTrait ==
  ASSUME TypeOK, TypeOK', LoneInv,
         MainStep \/ HourPasses \/ EvictFails \/ Reopen \/ UNCHANGED vars
  PROVE  LoneInv' /\ Trait!Forget
  <1>1. UNCHANGED <<saves, loads, lone>>
    BY DEF MainStep, ShrinkStep, ScanEntry, StoreSize, Report, Compare, EvictNext,
           EvictDone, HourPasses, EvictFails, Reopen, callVars, vars
  <1>2. faults' \in {faults, faults + 1}
    BY DEF MainStep, ShrinkStep, ScanEntry, StoreSize, Report, Compare, EvictNext,
           EvictDone, HourPasses, EvictFails, Reopen, Fault, vars
  <1>3. OnlyEvicts
    <2>1. CASE EvictNext
      BY <2>1 DEF EvictNext, OnlyEvicts, TypeOK
    <2>2. CASE UNCHANGED files
      BY <2>2 DEF OnlyEvicts
    <2> QED BY <2>1, <2>2
            DEF MainStep, ShrinkStep, ScanEntry, StoreSize, Report, Compare,
                EvictDone, HourPasses, EvictFails, Reopen, vars
  <1>4. SaveCalls' = SaveCalls /\ LoadCalls' = LoadCalls
    BY <1>1 DEF SaveCalls, LoadCalls
  <1>5. ASSUME NEW k \in Keys PROVE Held(k)' \subseteq Held(k)
    <2>1. {files'[k]} \cap Contents \subseteq {files[k]} \cap Contents
      BY <1>3, MarkersAssumption DEF OnlyEvicts, Blobs
    <2> QED BY <1>1, <2>1 DEF Held, Saving
  <1>6. LoneInv'
    BY <1>1, <1>3 DEF LoneInv, OnlyEvicts, TypeOK, SaveOp
  <1> QED BY <1>2, <1>4, <1>5, <1>6, ForgetsStep DEF Trait!Forget, Trait!MayFail

\* The end of the process is that of the cache.
LEMMA CrashTrait ==
  ASSUME TypeOK', Crash
  PROVE  LoneInv' /\ Trait!Crash
  <1>1. /\ saves' = [s \in Savers |-> None] /\ lone' = {}
        /\ loads' = [l \in Loaders |-> None]
        /\ faults' = faults + 1 /\ UNCHANGED files
    BY DEF Crash, Fault
  <1>2. ASSUME NEW k \in Keys PROVE Held(k)' \subseteq Held(k)
    BY <1>1 DEF Held, Saving
  <1>3. SaveCalls' = [s \in Savers |-> None]
        /\ LoadCalls' = [l \in Loaders |-> None]
    BY <1>1 DEF SaveCalls, LoadCalls
  <1> QED BY <1>1, <1>2, <1>3, ForgetsStep DEF Trait!Crash, LoneInv

\* Every step of the engine is a step of the trait.
LEMMA NextTrait ==
  TypeOK /\ LoneInv /\ [Next]_vars => LoneInv' /\ [Trait!Next]_(Trait!vars)
  <1> SUFFICES ASSUME TypeOK, LoneInv, [Next]_vars
               PROVE  LoneInv' /\ Trait!Next
    OBVIOUS
  <1>0. TypeOK'
    BY NextType
  <1>1. ASSUME NEW s \in Savers, SaveStep(s)  PROVE LoneInv' /\ Trait!Next
    BY <1>0, <1>1, SaveTrait DEF Trait!Next
  <1>2. ASSUME NEW l \in Loaders, LoadStep(l)  PROVE LoneInv' /\ Trait!Next
    BY <1>2, LoadTrait DEF Trait!Next
  <1>3. CASE Crash
    BY <1>0, <1>3, CrashTrait DEF Trait!Next
  <1>4. CASE MainStep \/ HourPasses \/ EvictFails \/ Reopen \/ UNCHANGED vars
    BY <1>0, <1>4, HousekeepingTrait DEF Trait!Next
  <1> QED BY <1>1, <1>2, <1>3, <1>4 DEF Next

\* save_to_db and read_from_db keep the promise of the ImageCache trait against
\* the evictor, lost tasks, failures and kills.
THEOREM ImplementsCorrect == Spec => ImplementsImageCache
  <1>1. Init => TypeOK /\ LoneInv /\ Trait!Init
    <2> SUFFICES ASSUME Init PROVE TypeOK /\ LoneInv /\ Trait!Init
      OBVIOUS
    <2>1. TypeOK
      BY InitType
    <2>2. LoneInv /\ faults = 0 /\ SaveCalls = [s \in Savers |-> None]
          /\ LoadCalls = [l \in Loaders |-> None]
      BY DEF Init, LoneInv, SaveCalls, LoadCalls
    <2> QED BY <2>1, <2>2, HeldType DEF Trait!Init
  <1>2. TypeOK /\ LoneInv /\ [Next]_vars
          => (TypeOK /\ LoneInv)' /\ [Trait!Next]_(Trait!vars)
    BY NextType, NextTrait
  <1> QED BY <1>1, <1>2, PTL DEF Spec, ImplementsImageCache, Trait!Spec

-----------------------------------------------------------------------------
(***************************************************************************)
(* What total covers.  While it computes, a scan is in the same position   *)
(* as total is afterwards: what it has summed, and the saves that are      *)
(* still to be counted, cover the files it has been past.                  *)
(***************************************************************************)
Files == [Keys -> Blobs \cup {None}]
Calls == [Savers -> SaveOp \cup {None}]

\* The bytes of the files f that a scan with the keys r before it is past.
Past(f, r) == SumFunction([k \in Keys |-> IF k \in r THEN 0 ELSE Weight(f[k])])

\* Pending, of the saves sv.
Uncounted(save) ==
  IF save # None /\ save.written THEN Size[save.content] ELSE 0
PendingOf(sv) == SumFunction([s \in Savers |-> Uncounted(sv[s])])

CoverInv ==
  /\ TotalCoversFiles
  /\ mpc = "scan" /\ ~missing => sum + PendingOf(saves) >= Past(files, rest)
  /\ mpc \in {"idle", "compare", "evict"} => Up

LEMMA WeightType == ASSUME NEW b \in Blobs \cup {None}  PROVE Weight(b) \in Nat
  BY SizeAssumption DEF Weight

LEMMA UncountedType ==
  ASSUME NEW save \in SaveOp \cup {None}  PROVE Uncounted(save) \in Nat
  BY SizeAssumption DEF Uncounted, SaveOp, Blobs

LEMMA PastType ==
  ASSUME NEW f \in Files, NEW r \in SUBSET Keys
  PROVE  Past(f, r) \in Nat
  <1> DEFINE w == [k \in Keys |-> IF k \in r THEN 0 ELSE Weight(f[k])]
  <1>1. w \in [Keys -> Nat]
    BY WeightType DEF Files
  <1> HIDE DEF w
  <1>2. SumFunction(w) \in Nat
    BY <1>1, SumType, FiniteAssumption
  <1> QED BY <1>2 DEF Past, w

\* A scan begins past nothing and ends past everything.
LEMMA PastEnds ==
  ASSUME NEW f \in Files
  PROVE  Past(f, Keys) = 0 /\ Past(f, {}) = Bytes(f)
  <1> DEFINE w == [k \in Keys |-> IF k \in Keys THEN 0 ELSE Weight(f[k])]
  <1>1. w \in [Keys -> Nat] /\ \A k \in Keys : w[k] = 0
    OBVIOUS
  <1> HIDE DEF w
  <1>2. SumFunction(w) = 0
    BY <1>1, SumZero, FiniteAssumption
  <1>3. [k \in Keys |-> IF k \in {} THEN 0 ELSE Weight(f[k])]
          = [k \in Keys |-> Weight(f[k])]
    OBVIOUS
  <1> QED BY <1>2, <1>3 DEF Past, Bytes, w

\* A scan gets past one more file.
LEMMA PastNext ==
  ASSUME NEW f \in Files, NEW r \in SUBSET Keys, NEW k \in r
  PROVE  Past(f, r \ {k}) = Past(f, r) + Weight(f[k])
  <1> DEFINE u == [j \in Keys |-> IF j \in r THEN 0 ELSE Weight(f[j])]
             w == [j \in Keys |-> IF j \in r \ {k} THEN 0 ELSE Weight(f[j])]
  <1>1. u \in [Keys -> Nat] /\ w \in [Keys -> Nat]
    BY WeightType DEF Files
  <1>2. u[k] = 0 /\ w[k] = Weight(f[k]) /\ k \in Keys
        /\ \A j \in Keys \ {k} : w[j] = u[j]
    OBVIOUS
  <1> HIDE DEF u, w
  <1>3. SumFunction(w) + u[k] = SumFunction(u) + w[k]
    BY <1>1, <1>2, SumUpdate, FiniteAssumption
  <1>4. SumFunction(u) \in Nat /\ SumFunction(w) \in Nat
    BY <1>1, SumType, FiniteAssumption
  <1>5. SumFunction(w) = SumFunction(u) + Weight(f[k])
    BY <1>2, <1>3, <1>4
  <1> QED BY <1>5 DEF Past, u, w

\* One file changes.
LEMMA PastWrite ==
  ASSUME NEW f \in Files, NEW g \in Files, NEW r \in SUBSET Keys,
         NEW k \in Keys, \A j \in Keys \ {k} : g[j] = f[j]
  PROVE  Past(g, r) = IF k \in r THEN Past(f, r)
                      ELSE Past(f, r) + Weight(g[k]) - Weight(f[k])
  <1> DEFINE u == [j \in Keys |-> IF j \in r THEN 0 ELSE Weight(f[j])]
             w == [j \in Keys |-> IF j \in r THEN 0 ELSE Weight(g[j])]
  <1>1. u \in [Keys -> Nat] /\ w \in [Keys -> Nat]
    BY WeightType DEF Files
  <1>2. /\ u[k] = IF k \in r THEN 0 ELSE Weight(f[k])
        /\ w[k] = IF k \in r THEN 0 ELSE Weight(g[k])
        /\ \A j \in Keys \ {k} : w[j] = u[j]
    OBVIOUS
  <1> HIDE DEF u, w
  <1>3. SumFunction(w) + u[k] = SumFunction(u) + w[k]
    BY <1>1, <1>2, SumUpdate, FiniteAssumption
  <1>4. SumFunction(u) \in Nat /\ SumFunction(w) \in Nat
    BY <1>1, SumType, FiniteAssumption
  <1>5. Weight(f[k]) \in Nat /\ Weight(g[k]) \in Nat
    BY WeightType DEF Files
  <1>6. SumFunction(w) = IF k \in r THEN SumFunction(u)
                         ELSE SumFunction(u) + Weight(g[k]) - Weight(f[k])
    BY <1>2, <1>3, <1>4, <1>5
  <1> QED BY <1>6 DEF Past, u, w

\* One save changes.
LEMMA PendingUpdate ==
  ASSUME NEW u \in Calls, NEW v \in Calls, NEW s \in Savers,
         \A t \in Savers \ {s} : v[t] = u[t]
  PROVE  /\ PendingOf(u) \in Nat /\ PendingOf(v) \in Nat
         /\ PendingOf(v) = PendingOf(u) + Uncounted(v[s]) - Uncounted(u[s])
  <1> DEFINE a == [t \in Savers |-> Uncounted(u[t])]
             b == [t \in Savers |-> Uncounted(v[t])]
  <1>1. a \in [Savers -> Nat] /\ b \in [Savers -> Nat]
    BY UncountedType DEF Calls
  <1>2. a[s] = Uncounted(u[s]) /\ b[s] = Uncounted(v[s])
        /\ \A t \in Savers \ {s} : b[t] = a[t]
    OBVIOUS
  <1> HIDE DEF a, b
  <1>3. SumFunction(b) + a[s] = SumFunction(a) + b[s]
    BY <1>1, <1>2, SumUpdate, FiniteAssumption
  <1>4. SumFunction(a) \in Nat /\ SumFunction(b) \in Nat
    BY <1>1, SumType, FiniteAssumption
  <1>5. SumFunction(b) = SumFunction(a) + Uncounted(v[s]) - Uncounted(u[s])
    BY <1>1, <1>2, <1>3, <1>4
  <1> QED BY <1>4, <1>5 DEF PendingOf, a, b

LEMMA PendingType == ASSUME NEW u \in Calls  PROVE PendingOf(u) \in Nat
  <1> DEFINE a == [t \in Savers |-> Uncounted(u[t])]
  <1>1. a \in [Savers -> Nat]
    BY UncountedType DEF Calls
  <1> HIDE DEF a
  <1>2. SumFunction(a) \in Nat
    BY <1>1, SumType, FiniteAssumption
  <1> QED BY <1>2 DEF PendingOf, a

\* The steps of a save keep what it has written accounted for.
LEMMA SaveCover ==
  ASSUME TypeOK, TypeOK', CoverInv, NEW s \in Savers, SaveStep(s)
  PROVE  CoverInv'
  <1>0. /\ files \in Files /\ files' \in Files /\ rest \in SUBSET Keys
        /\ saves \in Calls /\ saves' \in Calls
        /\ total \in Nat /\ sum \in Nat
    BY DEF TypeOK, Files, Calls
  <1>1. /\ Bytes(files) = Past(files, {}) /\ Bytes(files') = Past(files', {})
        /\ Pending = PendingOf(saves) /\ Pending' = PendingOf(saves')
    BY <1>0, PastEnds DEF Pending, PendingOf, Uncounted
  <1>2. /\ Past(files, {}) \in Nat /\ Past(files', {}) \in Nat
        /\ Past(files, rest) \in Nat /\ Past(files', rest) \in Nat
    BY <1>0, PastType
  <1>3. /\ PendingOf(saves) \in Nat /\ PendingOf(saves') \in Nat
        /\ PendingOf(saves') = PendingOf(saves) + Uncounted(saves'[s])
                                 - Uncounted(saves[s])
    <2>1. \A t \in Savers \ {s} : saves'[t] = saves[t]
      BY <1>0 DEF SaveStep, SaveBegin, Write, Count, Lose, Calls
    <2> QED BY <1>0, <2>1, PendingUpdate
  <1>4. Uncounted(saves[s]) \in Nat /\ Uncounted(saves'[s]) \in Nat
    BY <1>0, UncountedType DEF Calls
  <1>5. /\ UNCHANGED <<mpc, goal, rest, sum>>
    BY DEF SaveStep, SaveBegin, Write, Count, Lose, mainVars
  <1>6. ASSUME NEW k \in Keys, NEW c \in Contents, SaveBegin(s, k, c)
        PROVE  CoverInv'
    <2>1. saves[s] = None
          /\ saves'[s] = [key |-> k, content |-> c, written |-> FALSE]
      BY <1>0, <1>6 DEF SaveBegin, Calls
    <2>2. Uncounted(saves[s]) = 0 /\ Uncounted(saves'[s]) = 0
      BY <2>1 DEF Uncounted
    <2> QED BY <1>1, <1>3, <1>5, <1>6, <2>2
            DEF CoverInv, TotalCoversFiles, Up, SaveBegin, missVars
  <1>7. CASE Write(s)
    <2> DEFINE k == saves[s].key  c == saves[s].content
    <2>1. /\ saves[s] \in SaveOp /\ k \in Keys /\ c \in Contents
          /\ saves'[s] = [saves[s] EXCEPT !.written = TRUE]
          /\ saves'[s] # None
          /\ ~saves[s].written
      BY <1>0, <1>7, MarkersAssumption DEF Write, Calls, SaveOp
    <2>2. Uncounted(saves[s]) = 0 /\ Uncounted(saves'[s]) = Size[c]
      BY <2>1 DEF Uncounted, SaveOp
    <2>3. /\ files'[k] = c /\ \A j \in Keys \ {k} : files'[j] = files[j]
      BY <1>0, <1>7, <2>1 DEF Write, Files
    <2>4. Weight(files'[k]) = Size[c] /\ Weight(files[k]) \in Nat
      BY <1>0, <2>1, <2>3, WeightType, MarkersAssumption
         DEF Weight, Files, Blobs
    <2> HIDE DEF k, c
    <2>5. /\ Past(files', {}) = Past(files, {}) + Size[c] - Weight(files[k])
          /\ \/ Past(files', rest) = Past(files, rest)
             \/ Past(files', rest) = Past(files, rest) + Size[c]
                                       - Weight(files[k])
      BY <1>0, <2>1, <2>3, <2>4, PastWrite
    <2>6. UNCHANGED <<total, missed, missing>>
      BY <1>7 DEF Write, missVars
    <2>7. Size[c] \in Nat
      BY <1>4, <2>2
    <2>8. PendingOf(saves') = PendingOf(saves) + Size[c]
      BY <1>3, <2>2, <2>7
    <2>9. /\ Past(files', {}) <= Past(files, {}) + Size[c]
          /\ Past(files', rest) <= Past(files, rest) + Size[c]
      BY <1>2, <2>4, <2>5, <2>7
    <2>10. ASSUME Up, ~missed  PROVE total + Pending' >= Bytes(files')
      BY <1>0, <1>1, <1>2, <1>3, <2>7, <2>8, <2>9, <2>10
         DEF CoverInv, TotalCoversFiles
    <2>11. ASSUME mpc = "scan", ~missing
           PROVE  sum + PendingOf(saves') >= Past(files', rest)
      BY <1>0, <1>2, <1>3, <2>7, <2>8, <2>9, <2>11 DEF CoverInv
    <2> QED BY <1>5, <2>6, <2>10, <2>11 DEF CoverInv, TotalCoversFiles, Up
  <1>8. CASE Count(s)
    <2> DEFINE n == Size[saves[s].content]
    <2>1. Uncounted(saves[s]) = n /\ Uncounted(saves'[s]) = 0
      BY <1>0, <1>8 DEF Count, Calls, Uncounted
    <2>2. /\ total' = total + n /\ missing' = (missing \/ mpc = "scan")
          /\ UNCHANGED <<files, missed>>
      BY <1>8 DEF Count
    <2>3. n \in Nat
      BY <1>4, <2>1
    <2> HIDE DEF n
    <2>4. total' + PendingOf(saves') = total + PendingOf(saves)
      BY <1>0, <1>3, <2>1, <2>2, <2>3
    <2> QED BY <1>1, <1>5, <2>2, <2>4 DEF CoverInv, TotalCoversFiles, Up
  <1>9. CASE Lose(s)
    <2>1. Uncounted(saves[s]) = 0 /\ Uncounted(saves'[s]) = 0
      BY <1>0, <1>9 DEF Lose, Calls, Uncounted
    <2>2. PendingOf(saves') = PendingOf(saves) /\ UNCHANGED total
      BY <1>3, <1>9, <2>1 DEF Lose
    <2>3. CASE UNCHANGED <<files, missed, missing>>
      BY <1>1, <1>5, <2>2, <2>3 DEF CoverInv, TotalCoversFiles, Up
    <2>4. CASE missed' = TRUE /\ missing' = (mpc = "scan")
      BY <1>5, <2>4 DEF CoverInv, TotalCoversFiles, Up
    <2> QED BY <1>9, <2>3, <2>4 DEF Lose, missVars
  <1> QED BY <1>6, <1>7, <1>8, <1>9 DEF SaveStep

\* A scan reads the next file.
LEMMA ScanCover ==
  ASSUME TypeOK, CoverInv, ScanEntry
  PROVE  CoverInv'
  <1>1. PICK k \in rest :
          /\ rest' = rest \ {k}
          /\ \/ /\ sum' = sum + Weight(files[k])
                /\ UNCHANGED <<faults, missing>>
             \/ Fault /\ missing' = TRUE /\ UNCHANGED sum
    BY DEF ScanEntry
  <1>2. /\ files \in Files /\ rest \in SUBSET Keys /\ saves \in Calls
        /\ sum \in Nat
    BY DEF TypeOK, Files, Calls
  <1>3. UNCHANGED <<files, total, saves, mpc, goal, missed>> /\ mpc = "scan"
    BY DEF ScanEntry, callVars
  <1>4. Past(files, rest') = Past(files, rest) + Weight(files[k])
    BY <1>1, <1>2, PastNext
  <1>5. /\ Past(files, rest) \in Nat /\ PendingOf(saves) \in Nat
        /\ Weight(files[k]) \in Nat
    BY <1>1, <1>2, PastType, PendingType, WeightType DEF Files
  <1>6. CASE sum' = sum + Weight(files[k]) /\ UNCHANGED missing
    <2>1. ~missing => sum' + PendingOf(saves) >= Past(files, rest')
      BY <1>2, <1>3, <1>4, <1>5, <1>6 DEF CoverInv
    <2> QED BY <1>3, <1>6, <2>1 DEF CoverInv, TotalCoversFiles, Up, Pending
  <1>7. CASE missing' = TRUE
    BY <1>3, <1>7 DEF CoverInv, TotalCoversFiles, Up, Pending
  <1> QED BY <1>1, <1>6, <1>7

\* A scan begins: nothing is summed, and nothing is past.
LEMMA BeginCover ==
  ASSUME TypeOK, CoverInv, NEW g, BeginScan(g),
         UNCHANGED <<files, total, saves, missed>>, g # "new" => Up
  PROVE  CoverInv'
  <1>1. files \in Files /\ saves \in Calls
    BY DEF TypeOK, Files, Calls
  <1>2. Past(files', rest') = 0 /\ sum' = 0 /\ goal' = g
    BY <1>1, PastEnds DEF BeginScan
  <1>3. PendingOf(saves') \in Nat
    BY <1>1, PendingType
  <1>4. sum' + PendingOf(saves') >= Past(files', rest')
    BY <1>2, <1>3
  <1>5. mpc' = "scan" /\ Pending' = Pending /\ Bytes(files') = Bytes(files)
    BY DEF BeginScan, Pending
  <1>6. Up' => Up
    BY <1>2 DEF Up
  <1> QED BY <1>4, <1>5, <1>6 DEF CoverInv, TotalCoversFiles

\* The steps of the main thread keep total above what it covers.
LEMMA MainCover ==
  ASSUME TypeOK, TypeOK', CoverInv,
         MainStep \/ HourPasses \/ EvictFails \/ Crash \/ Reopen
  PROVE  CoverInv'
  <1>1. /\ files \in Files /\ files' \in Files /\ saves \in Calls
        /\ total \in Nat /\ sum \in Nat
    BY DEF TypeOK, Files, Calls
  <1>2. /\ Bytes(files) = Past(files, {}) /\ Bytes(files') = Past(files', {})
        /\ Past(files, {}) \in Nat /\ Past(files', {}) \in Nat
        /\ Pending = PendingOf(saves) /\ PendingOf(saves) \in Nat
    BY <1>1, PastEnds, PastType, PendingType DEF Pending, PendingOf, Uncounted
  <1>3. CASE ScanEntry
    BY <1>3, ScanCover
  <1>4. CASE StoreSize
    <2>1. /\ total' = sum /\ missed' = missing /\ mpc = "scan" /\ rest = {}
          /\ mpc' \in {"compare", "idle"} /\ goal' = "report"
          /\ UNCHANGED <<files, saves>>
      BY <1>4 DEF StoreSize, callVars
    <2>2. ~missed' => total' + Pending' >= Bytes(files')
      BY <1>2, <2>1 DEF CoverInv, Pending
    <2> QED BY <2>1, <2>2 DEF CoverInv, TotalCoversFiles, Up
  <1>5. CASE Report \/ EvictDone \/ Reopen
    <2>1. CASE Report /\ ~due
      BY <2>1 DEF Report, callVars, CoverInv, TotalCoversFiles, Up, Pending
    <2>2. CASE Report /\ due
      <3>1. BeginScan("report") /\ UNCHANGED <<files, total, saves, missed>>
        BY <2>2 DEF Report, callVars
      <3> QED BY <2>2, <3>1, BeginCover DEF Report, CoverInv
    <2>3. CASE EvictDone
      <3>1. BeginScan("shrink") /\ UNCHANGED <<files, total, saves, missed>>
        BY <2>3 DEF EvictDone, callVars
      <3> QED BY <2>3, <3>1, BeginCover DEF EvictDone, CoverInv
    <2>4. CASE Reopen
      <3>1. BeginScan("new") /\ UNCHANGED <<files, total, saves, missed>>
        BY <2>4 DEF Reopen, callVars
      <3> QED BY <3>1, BeginCover
    <2> QED BY <1>5, <2>1, <2>2, <2>3, <2>4
  <1>6. CASE Compare
    BY <1>6 DEF Compare, callVars, missVars, CoverInv, TotalCoversFiles, Up,
                Pending
  <1>7. CASE EvictNext
    <2>1. PICK k \in Keys : files' = [files EXCEPT ![k] = None]
      BY <1>7 DEF EvictNext, Stored
    <2>2. files'[k] = None /\ \A j \in Keys \ {k} : files'[j] = files[j]
      BY <1>1, <2>1 DEF Files
    <2>3. Past(files', {}) = Past(files, {}) + Weight(files'[k])
                               - Weight(files[k])
      BY <1>1, <2>2, PastWrite
    <2>4. Weight(files'[k]) = 0 /\ Weight(files[k]) \in Nat
      BY <1>1, <2>2, WeightType DEF Weight, Files
    <2>5. Bytes(files') <= Bytes(files) /\ Bytes(files') \in Nat
          /\ Bytes(files) \in Nat
      BY <1>2, <2>3, <2>4
    <2>6. UNCHANGED <<total, saves, goal, missed, mpc>> /\ mpc # "scan"
      BY <1>7 DEF EvictNext, callVars, missVars
    <2>7. total + Pending >= Bytes(files) => total + Pending >= Bytes(files')
      BY <1>1, <1>2, <2>5
    <2> QED BY <2>6, <2>7 DEF CoverInv, TotalCoversFiles, Up, Pending
  <1>8. CASE HourPasses
    BY <1>8 DEF HourPasses, callVars, mainVars, missVars, CoverInv,
                TotalCoversFiles, Up, Pending
  <1>9. CASE EvictFails
    BY <1>9 DEF EvictFails, callVars, missVars, CoverInv, TotalCoversFiles, Up,
                Pending
  <1>10. CASE Crash
    BY <1>10 DEF Crash, CoverInv, TotalCoversFiles, Up
  <1> QED BY <1>3, <1>4, <1>5, <1>6, <1>7, <1>8, <1>9, <1>10
          DEF MainStep, ShrinkStep

LEMMA NextCover == TypeOK /\ CoverInv /\ [Next]_vars => CoverInv'
  <1> SUFFICES ASSUME TypeOK, CoverInv, [Next]_vars  PROVE CoverInv'
    OBVIOUS
  <1>0. TypeOK'
    BY NextType
  <1>1. ASSUME NEW s \in Savers, SaveStep(s)  PROVE CoverInv'
    BY <1>0, <1>1, SaveCover
  <1>2. ASSUME NEW l \in Loaders, LoadStep(l)  PROVE CoverInv'
    BY <1>2 DEF LoadStep, LoadBegin, Read, LoadReturns, mainVars, missVars,
                CoverInv, TotalCoversFiles, Up, Pending
  <1>3. CASE UNCHANGED vars
    BY <1>3 DEF vars, CoverInv, TotalCoversFiles, Up, Pending
  <1> QED BY <1>0, <1>1, <1>2, <1>3, MainCover DEF Next

\* total and the saves about to be added to it cover the files, unless a save
\* was counted during the scan that produced it, was written but never counted,
\* or the iterator met an error.
THEOREM CoverCorrect == Spec => []TotalCoversFiles
  <1>1. Init => TypeOK /\ CoverInv
    <2> SUFFICES ASSUME Init  PROVE CoverInv
      BY InitType
    <2>1. files \in Files /\ saves \in Calls
      BY InitType DEF TypeOK, Files, Calls
    <2>2. Past(files, rest) = 0 /\ sum = 0 /\ ~Up /\ mpc = "scan"
      BY <2>1, PastEnds DEF Init, Up
    <2>3. PendingOf(saves) \in Nat
      BY <2>1, PendingType
    <2> QED BY <2>2, <2>3 DEF CoverInv, TotalCoversFiles
  <1>2. TypeOK /\ CoverInv /\ [Next]_vars => (TypeOK /\ CoverInv)'
    BY NextType, NextCover
  <1>3. CoverInv => TotalCoversFiles
    BY DEF CoverInv
  <1> QED BY <1>1, <1>2, <1>3, PTL DEF Spec

-----------------------------------------------------------------------------
(***************************************************************************)
(* The part of TotalHeals that is no liveness: a scan that begins once     *)
(* saves and faults are over makes total exact, and nothing the main       *)
(* thread does afterwards, evictions included, leaves it inexact for       *)
(* longer than an eviction and its scan take.                              *)
(***************************************************************************)
Exact ==
  /\ mpc = "scan" => sum = Past(files, rest)
  /\ mpc \in {"idle", "compare"} => total = Bytes(files)

ScanBegun == mpc = "scan" /\ rest = Keys /\ sum = 0

Quiet == Next /\ UNCHANGED <<saves, faults>>

LEMMA QuietStep == TypeOK /\ Exact /\ [Quiet]_vars => Exact'
  <1> SUFFICES ASSUME TypeOK, Exact, [Quiet]_vars  PROVE Exact'
    OBVIOUS
  <1>1. files \in Files /\ rest \in SUBSET Keys /\ sum \in Nat
        /\ faults \in Nat
    BY DEF TypeOK, Files
  <1>2. ASSUME UNCHANGED <<files, total, mpc, rest, sum>>  PROVE Exact'
    BY <1>2 DEF Exact
  <1>3. ASSUME NEW s \in Savers, SaveStep(s), UNCHANGED saves  PROVE FALSE
    <2>1. saves \in [Savers -> SaveOp \cup {None}]
      BY DEF TypeOK
    <2>2. ASSUME NEW k \in Keys, NEW c \in Contents, SaveBegin(s, k, c)
          PROVE  FALSE
      <3>1. [key |-> k, content |-> c, written |-> FALSE] \in SaveOp
        BY DEF SaveOp
      <3>2. saves'[s] # None /\ saves[s] = None
        BY <2>1, <2>2, <3>1, MarkersAssumption DEF SaveBegin
      <3> QED BY <1>3, <3>2
    <2>3. CASE Write(s)
      <3>1. saves[s] \in SaveOp
        BY <2>1, <2>3 DEF Write
      <3>2. saves'[s].written = TRUE /\ ~saves[s].written
        BY <2>1, <2>3, <3>1 DEF Write, SaveOp
      <3> QED BY <1>3, <3>2
    <2>4. CASE Count(s) \/ Lose(s)
      <3>1. saves'[s] = None /\ saves[s] # None
        BY <2>1, <2>4 DEF Count, Lose
      <3> QED BY <1>3, <3>1
    <2> QED BY <1>3, <2>2, <2>3, <2>4 DEF SaveStep
  <1>4. ASSUME NEW l \in Loaders, LoadStep(l)  PROVE Exact'
    BY <1>2, <1>4 DEF LoadStep, LoadBegin, Read, LoadReturns, mainVars
  <1>5. CASE ScanEntry /\ UNCHANGED faults
    <2>1. PICK k \in rest : rest' = rest \ {k} /\ sum' = sum + Weight(files[k])
      BY <1>1, <1>5 DEF ScanEntry, Fault
    <2>2. Past(files, rest') = Past(files, rest) + Weight(files[k])
      BY <1>1, <2>1, PastNext
    <2> QED BY <1>5, <2>1, <2>2 DEF ScanEntry, Exact
  <1>6. CASE StoreSize
    BY <1>1, <1>6, PastEnds DEF StoreSize, Exact
  <1>7. ASSUME NEW g, BeginScan(g), UNCHANGED files  PROVE Exact'
    <2>1. mpc' = "scan" /\ sum' = 0 /\ rest' = Keys
      BY <1>7 DEF BeginScan
    <2>2. Past(files', rest') = 0
      BY <1>1, <1>7, <2>1, PastEnds
    <2> QED BY <2>1, <2>2 DEF Exact
  <1>8. CASE Report \/ EvictDone \/ Reopen
    <2>1. CASE Report /\ ~due
      BY <2>1 DEF Report, Exact
    <2> QED BY <1>7, <1>8, <2>1 DEF Report, EvictDone, Reopen
  <1>9. CASE Compare \/ HourPasses
    BY <1>9 DEF Compare, HourPasses, mainVars, Exact
  <1>10. CASE EvictNext
    BY <1>10 DEF EvictNext, Exact
  <1>11. CASE (EvictFails \/ Crash) /\ UNCHANGED faults
    BY <1>1, <1>11 DEF EvictFails, Crash, Fault
  <1>12. CASE UNCHANGED vars
    BY <1>2, <1>12 DEF vars
  <1> QED BY <1>3, <1>4, <1>5, <1>6, <1>8, <1>9, <1>10, <1>11, <1>12
          DEF Quiet, Next, MainStep, ShrinkStep

\* fs.rs, update_real_size: from a scan that begins when saves and faults are
\* over, total is exact whenever report may read it.
THEOREM QuietScanHeals ==
  TypeOK /\ ScanBegun /\ [][Quiet]_vars => []Exact
  <1>1. TypeOK /\ ScanBegun => Exact
    BY PastEnds DEF TypeOK, ScanBegun, Exact, Files
  <1>2. TypeOK /\ [Quiet]_vars => TypeOK'
    BY NextType DEF Quiet
  <1> QED BY <1>1, <1>2, QuietStep, PTL

=============================================================================
