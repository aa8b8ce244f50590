------------------------------ MODULE ImageCache ------------------------------
(***************************************************************************)
(* What a cache engine promises to the request handlers: the load, save    *)
(* and shrink of the ImageCache trait (src/cache/mod.rs), with calls that  *)
(* overlap, fail and are cut short.  An engine is free to forget images at *)
(* any time, and the saves of one key that overlap may mix; but it may     *)
(* never answer with an image nobody saved under the key, and once a save  *)
(* that had its key to itself has returned true, an older image is never   *)
(* answered again.  RocksCache and FsCache implement this specification.   *)
(***************************************************************************)
EXTENDS Naturals

CONSTANTS
  Keys,      \* ImageKey
  Contents,  \* image payloads
  Savers,    \* calls of save under way at the same time
  Loaders,   \* calls of load under way at the same time
  None       \* absence of a value

SaveOp == [key : Keys, content : Contents, lone : BOOLEAN]
LoadOp == [key : Keys, bytes : Contents \cup {None},
           sum : Contents \cup {None}]

VARIABLES
  held,   \* held[k]: the images, or parts of them, a load of k may find
  saves,  \* save in progress; lone: no other save of its key has met it
  loads,  \* load in progress: the payload its bytes and its checksum are of
  errors  \* failures so far, of the store below or of the process

vars == <<held, saves, loads, errors>>

TypeOK == /\ held \in [Keys -> SUBSET Contents]
          /\ saves \in [Savers -> SaveOp \cup {None}]
          /\ loads \in [Loaders -> LoadOp \cup {None}]
          /\ errors \in Nat

Init == /\ held \in [Keys -> SUBSET Contents]
        /\ saves = [s \in Savers |-> None]
        /\ loads = [l \in Loaders |-> None]
        /\ errors = 0

Saving(k) == {s \in Savers : saves[s] # None /\ saves[s].key = k}

\* A save that has met another one of its key, or an error.
Met(save) == [key |-> save.key, content |-> save.content, lone |-> FALSE]

\* Nothing is found in a step that was not to be found before.
Forgets == /\ held' \in [Keys -> SUBSET Contents]
           /\ \A k \in Keys : held'[k] \subseteq held[k]

\* Some failure may be met.
MayFail == errors' \in {errors, errors + 1}

-----------------------------------------------------------------------------
\* save is called: from now on its image may be found, perhaps in part.
Save(s, k, c) ==
  /\ saves[s] = None
  /\ held' = [held EXCEPT ![k] = @ \cup {c}]
  /\ saves' = [t \in Savers |->
                 IF t = s
                   THEN [key |-> k, content |-> c, lone |-> Saving(k) = {}]
                 ELSE IF t \in Saving(k)
                   THEN Met(saves[t]) ELSE saves[t]]
  /\ UNCHANGED <<loads, errors>>

\* save returns true: it met no error, and what a lone save has replaced is gone
\* for good.
Saved(s) ==
  /\ saves[s] # None
  /\ Forgets
  /\ saves[s].lone => held'[saves[s].key] \subseteq {saves[s].content}
  /\ saves' = [saves EXCEPT ![s] = None]
  /\ UNCHANGED <<loads, errors>>

\* save meets an error: it returns false, now or after what it began is over.
Fail(s) ==
  /\ saves[s] # None
  /\ Forgets
  /\ saves' \in {[saves EXCEPT ![s] = None],
                 [saves EXCEPT ![s] = Met(saves[s])]}
  /\ errors' = errors + 1
  /\ UNCHANGED loads

\* load is called, finds the bytes or the checksum, or neither, and returns.
Load(l, k) ==
  /\ loads[l] = None
  /\ loads' = [loads EXCEPT ![l] = [key |-> k, bytes |-> None, sum |-> None]]
  /\ UNCHANGED <<held, saves, errors>>

Find(l) ==
  /\ loads[l] # None
  /\ LET k == loads[l].key
         found == held[k] \cup {None} IN
     \E b \in found \cup {loads[l].bytes}, m \in found \cup {loads[l].sum} :
       loads' = [loads EXCEPT ![l] = [key |-> k, bytes |-> b, sum |-> m]]
  /\ UNCHANGED <<held, saves, errors>>

Answer(l) ==
  /\ loads[l] # None
  /\ loads' = [loads EXCEPT ![l] = None]
  /\ MayFail /\ UNCHANGED <<held, saves>>

\* shrink, or the engine's housekeeping.
Forget == Forgets /\ MayFail /\ UNCHANGED <<saves, loads>>

\* The process ends; some of what the engine held is there when it restarts.
Crash == /\ Forgets
         /\ saves' = [s \in Savers |-> None]
         /\ loads' = [l \in Loaders |-> None]
         /\ errors' = errors + 1

Next == \/ \E s \in Savers : \/ \E k \in Keys, c \in Contents : Save(s, k, c)
                             \/ Saved(s) \/ Fail(s)
        \/ \E l \in Loaders : \/ \E k \in Keys : Load(l, k)
                              \/ Find(l) \/ Answer(l)
        \/ Forget \/ Crash

Spec == Init /\ [][Next]_vars

-----------------------------------------------------------------------------
(***************************************************************************)
(* What the promise amounts to.                                            *)
(***************************************************************************)
\* A save of k begins.
Begins(k) == \E s \in Savers, c \in Contents : Save(s, k, c)

\* Whatever load l answers, it is image c or nothing.
Only(l, c) ==
  /\ loads[l] # None
  /\ held[loads[l].key] \subseteq {c}
  /\ loads[l].bytes \in {c, None} /\ loads[l].sum \in {c, None}

\* A load that can find but one image, and meets no save of its key, answers
\* with the bytes and the checksum of that image, or with nothing.
LoadStaysPure ==
  [][\A l \in Loaders, c \in Contents :
       (Only(l, c) /\ loads'[l] # None /\ ~Begins(loads[l].key))
         => Only(l, c)']_vars

=============================================================================
