------------------------- MODULE ImageRequestsProofs -------------------------
(***************************************************************************)
(* Proofs about ImageRequests: what streams leave in the cache, whatever   *)
(* the number of requests, keys and chunks, and how requests are counted.  *)
(***************************************************************************)
EXTENDS ImageRequests, FiniteSetTheorems, TLAPS

Facts == INSTANCE ImageCacheProofs WITH Contents <- Length, Savers <- Requests,
                                        Loaders <- Requests

\* Where a request stands: it has a key once accepted, failures left while it
\* polls, and no result before it is done.
Staged ==
  \A r \in Requests :
    /\ stage[r] \in Active => key[r] \in Keys
    /\ stage[r] \in {"new", "load", "poll", "sleep"} => tries[r] < Retry
    /\ stage[r] = "new" => key[r] = None
    /\ stage[r] # "done" => answer[r] = None /\ save[r] = None
                            /\ served[r] = None
    /\ save[r] # None => key[r] \in Keys

\* The calls of the cache are those of the requests.
Calling ==
  \A r \in Requests :
    /\ loads[r] # None => stage[r] = "load" /\ loads[r].key = key[r]
    /\ saves[r] # None => save[r] = "running"

TypeInv == TypeOK /\ Staged /\ Calling

\* TypeInv without the cache.
RequestsInv == RequestsTyped /\ Staged

\* The initial state has the types.
LEMMA InitType == Init => TypeInv
  <1> SUFFICES ASSUME Init PROVE TypeInv
    OBVIOUS
  <1>1. RequestsTyped /\ Staged
    BY ChunksAssumption, RetryAssumption, NoneAssumption
       DEF Init, RequestsTyped, Staged, Active, Agg, SaveTask, Length, Counters
  <1>2. Cache!TypeOK /\ errors <= MaxErrors /\ Calling
    BY MaxErrorsAssumption DEF Init, Cache!Init, Cache!TypeOK, Calling
  <1> QED BY <1>1, <1>2 DEF TypeInv, TypeOK

\* The requests use the cache as the trait has it: a step is a step of
\* ImageCache, or leaves the cache alone.
LEMMA CallsStep ==
  ASSUME TypeInv, [Next]_vars
  PROVE  [Cache!Next]_calls
  <1>1. ASSUME NEW r \in Requests,
               \/ Reject(r) \/ PollFails(r) \/ Wake(r) \/ PollRefused(r)
               \/ PollOk(r) \/ Chunk(r) \/ StreamError(r) \/ StreamEnd(r)
               \/ Finish(r) \/ SaveLost(r)
        PROVE  UNCHANGED calls
    BY <1>1 DEF Reject, PollFails, Wake, PollRefused, PollOk, Chunk, StreamError,
                StreamEnd, Finish, SaveLost
  <1>2. ASSUME NEW r \in Requests, NEW k \in Keys, Accept(r, k)
        PROVE  Cache!Next
    BY <1>2 DEF Accept, Cache!Next
  <1>3. ASSUME NEW r \in Requests, Find(r)  PROVE Cache!Next
    BY <1>3 DEF Find, Cache!Next
  <1>4. ASSUME NEW r \in Requests, LoadHit(r) \/ LoadMiss(r) \/ Disconnect(r)
        PROVE  Cache!Next \/ UNCHANGED calls
    BY <1>4 DEF LoadHit, LoadMiss, Disconnect, Returns, Cache!Next
  <1>5. ASSUME NEW r \in Requests, SaveBegins(r)  PROVE Cache!Next
    <2>1. key[r] \in Keys /\ len[r] \in Length
      BY <1>5, NoneAssumption
         DEF SaveBegins, TypeInv, Staged, TypeOK, RequestsTyped, SaveTask
    <2> QED BY <1>5, <2>1 DEF SaveBegins, Cache!Next
  <1>6. ASSUME NEW r \in Requests, SaveEnds(r) \/ SaveFails(r)  PROVE Cache!Next
    BY <1>6 DEF SaveEnds, SaveFails, Cache!Next
  <1>7. CASE Shrink
    BY <1>7 DEF Shrink, Cache!Next
  <1>8. CASE UNCHANGED vars
    BY <1>8 DEF vars, calls
  <1> QED BY <1>1, <1>2, <1>3, <1>4, <1>5, <1>6, <1>7, <1>8 DEF Next, Handle

\* The failures of the cache stay below their bound.
LEMMA ErrorsBound ==
  ASSUME TypeInv, [Next]_vars
  PROVE  errors' <= MaxErrors
  <1> USE DEF TypeInv, TypeOK
  <1>1. ASSUME NEW r \in Requests,
               \/ Reject(r) \/ PollFails(r) \/ Wake(r) \/ PollRefused(r)
               \/ PollOk(r) \/ Chunk(r) \/ StreamError(r) \/ StreamEnd(r)
               \/ Finish(r) \/ SaveLost(r)
        PROVE  errors' <= MaxErrors
    BY <1>1 DEF Reject, PollFails, Wake, PollRefused, PollOk, Chunk, StreamError,
                StreamEnd, Finish, SaveLost, calls
  <1>2. ASSUME NEW r \in Requests,
               \/ \E k \in Keys : Accept(r, k)
               \/ Find(r) \/ SaveBegins(r) \/ SaveEnds(r)
        PROVE  errors' <= MaxErrors
    BY <1>2 DEF Accept, Find, SaveBegins, SaveEnds, Cache!Load, Cache!Find,
                Cache!Save, Cache!Saved
  <1>3. ASSUME NEW r \in Requests,
               LoadHit(r) \/ LoadMiss(r) \/ Disconnect(r) \/ SaveFails(r)
        PROVE  errors' <= MaxErrors
    BY <1>3 DEF LoadHit, LoadMiss, Disconnect, SaveFails, Returns, calls
  <1>4. CASE Shrink
    BY <1>4 DEF Shrink
  <1>5. CASE UNCHANGED vars
    BY <1>5 DEF vars
  <1> QED BY <1>1, <1>2, <1>3, <1>4, <1>5 DEF Next, Handle

\* The cache keeps its types, as ImageCache does.
LEMMA CacheType ==
  ASSUME TypeInv, [Next]_vars
  PROVE  Cache!TypeOK'
  <1>1. [Cache!Next]_calls
    BY CallsStep
  <1>2. [Facts!Next]_(Facts!vars)
    BY <1>1 DEF calls, Facts!vars, Cache!Next, Facts!Next, Cache!Save,
       Facts!Save, Cache!Saved, Facts!Saved, Cache!Fail, Facts!Fail,
       Cache!Load, Facts!Load, Cache!Find, Facts!Find, Cache!Answer,
       Facts!Answer, Cache!Forget, Facts!Forget, Cache!Crash, Facts!Crash,
       Cache!Forgets, Facts!Forgets, Cache!MayFail, Facts!MayFail,
       Cache!Saving, Facts!Saving, Cache!Met, Facts!Met
  <1>3. Cache!TypeOK
    BY DEF TypeInv, TypeOK
  <1>4. Facts!TypeOK
    BY <1>3 DEF Facts!TypeOK, Cache!TypeOK,
       Facts!SaveOp, Cache!SaveOp, Facts!LoadOp, Cache!LoadOp
  <1>5. Facts!TypeOK'
    BY <1>2, <1>4, Facts!NextType
  <1>6. Cache!TypeOK'
    BY <1>5 DEF Facts!TypeOK, Cache!TypeOK,
       Facts!SaveOp, Cache!SaveOp, Facts!LoadOp, Cache!LoadOp
  <1> QED BY <1>6

\* A request that ends keeps the types of what says so.
LEMMA DoneType ==
  ASSUME TypeInv, NEW r \in Requests, NEW a, a \in Outcomes, Done(r, a)
  PROVE  /\ stage' \in [Requests -> Active \cup {"new", "done"}]
         /\ answer' \in [Requests -> Outcomes \cup {None}]
         /\ stage'[r] = "done"
         /\ \A q \in Requests : q # r => /\ stage'[q] = stage[q]
                                       /\ answer'[q] = answer[q]
  BY DEF Done, TypeInv, TypeOK, RequestsTyped

\* What poll_next and Drop make of the aggregator and the counters has types.
LEMMA StreamType ==
  ASSUME TypeInv, NEW r \in Requests, stage[r] \in Active, DropStream(r)
  PROVE  /\ agg' \in [Requests -> Agg \cup {None}]
         /\ save' \in [Requests -> SaveTask \cup {None}]
         /\ {failed', misses', bytesDown', bytesUp'} \subseteq Nat
         /\ \A q \in Requests : q # r => save'[q] = save[q]
  BY ChunksAssumption
     DEF DropStream, TypeInv, TypeOK, RequestsTyped, Staged, Agg, SaveTask, Length, Counters

\* md_service and the cache responder keep the types.
LEMMA HandlerType ==
  ASSUME TypeInv, NEW r \in Requests,
         \/ Reject(r) \/ \E k \in Keys : Accept(r, k)
         \/ LoadHit(r) \/ LoadMiss(r) \/ PollFails(r) \/ Wake(r)
         \/ PollRefused(r) \/ PollOk(r)
  PROVE  RequestsInv'
  <1> USE DEF TypeInv, TypeOK, RequestsInv, Active
  <1>1. CASE Reject(r)
    <2>1. RequestsTyped'
      <3>1. Done(r, "rejected") /\ "rejected" \in Outcomes
        BY <1>1 DEF Reject, Outcomes
      <3> QED BY <1>1, <3>1, DoneType DEF Reject, RequestsTyped, Counters, stream
    <2>2. Staged'
      BY <1>1 DEF Reject, RequestsTyped, Staged, Done, stream
    <2> QED BY <2>1, <2>2
  <1>2. ASSUME NEW k \in Keys, Accept(r, k)
        PROVE  RequestsInv'
    <2>1. RequestsTyped'
      BY <1>2 DEF Accept, RequestsTyped, Counters, stream
    <2>2. Staged'
      BY <1>2 DEF Accept, RequestsTyped, Staged, Done, stream
    <2> QED BY <2>1, <2>2
  <1>3. CASE LoadHit(r)
    <2>1. RequestsTyped'
      <3>1. /\ loads[r].bytes \in Length /\ loads[r].bytes \in Nat
            /\ loads[r].sum \in Length
        <4>1. loads[r].bytes # None /\ loads[r].sum # None /\ loads[r] # None
          BY <1>3 DEF LoadHit, Found, Returns, Cache!Answer
        <4>2. loads[r] \in Cache!LoadOp
          BY <4>1 DEF Cache!TypeOK
        <4> HIDE DEF TypeInv
        <4> QED BY <4>1, <4>2, ChunksAssumption DEF Length, Cache!LoadOp
      <3>2. Counters' \subseteq Nat
        <4>1. hits \in Nat /\ bytesUp \in Nat
          BY DEF RequestsTyped, Counters
        <4>2. hits' \in Nat /\ bytesUp' \in Nat
          <5>1. /\ hits' = hits + 1
                /\ bytesUp' = bytesUp \/ bytesUp' = bytesUp + loads[r].bytes
            BY <1>3, Zenon DEF LoadHit
          <5> QED BY <3>1, <4>1, <5>1
        <4>3. UNCHANGED <<counter, misses, failed, dropped, bytesDown, pulled>>
          BY <1>3, Zenon DEF LoadHit
        <4> QED BY <4>2, <4>3 DEF RequestsTyped, Counters
      <3>3. /\ served' \in [Requests -> Reply \cup {None}]
            /\ UNCHANGED <<key, tries, stream, save>>
        <4>1. /\ [bytes |-> loads[r].bytes, etag |-> loads[r].sum] \in Reply
              /\ [bytes |-> None, etag |-> loads[r].sum] \in Reply
          BY <3>1 DEF Reply
        <4>2. PICK reply \in Reply : served' = [served EXCEPT ![r] = reply]
          BY <1>3, <4>1, Zenon DEF LoadHit
        <4>3. UNCHANGED <<key, tries, stream, save>>
          BY <1>3, Zenon DEF LoadHit
        <4> QED BY <4>2, <4>3 DEF RequestsTyped
      <3>4. PICK o \in {"hit", "not modified"} : Done(r, o)
        BY <1>3 DEF LoadHit
      <3>5. o \in Outcomes
        BY DEF Outcomes
      <3> QED BY <3>2, <3>3, <3>4, <3>5, DoneType DEF RequestsTyped, stream
    <2>2. Staged'
      BY <1>3 DEF LoadHit, RequestsTyped, Staged, Done, stream
    <2> QED BY <2>1, <2>2
  <1>4. CASE LoadMiss(r) \/ Wake(r) \/ PollOk(r)
    <2>1. RequestsTyped'
      BY <1>4 DEF LoadMiss, Wake, PollOk, RequestsTyped, Counters, Agg, counters,
                  stream
    <2>2. Staged'
      BY <1>4 DEF LoadMiss, Wake, PollOk, RequestsTyped, Staged, counters, stream
    <2> QED BY <2>1, <2>2
  <1>5. CASE PollFails(r)
    <2>1. /\ tries[r] \in 0 .. Retry - 1
          /\ tries' = [tries EXCEPT ![r] = tries[r] + 1]
          /\ tries' \in [Requests -> 0 .. Retry]
      <3>1. stage[r] = "poll" /\ tries' = [tries EXCEPT ![r] = tries[r] + 1]
        BY <1>5 DEF PollFails
      <3>2. tries \in [Requests -> 0 .. Retry] /\ tries[r] < Retry
        BY <3>1 DEF RequestsTyped, Staged
      <3> HIDE DEF RequestsInv
      <3> QED BY <3>1, <3>2, RetryAssumption
    <2>2. CASE tries[r] + 1 >= Retry
      <3>1. Done(r, "bad gateway") /\ "bad gateway" \in Outcomes
        BY <1>5, <2>2 DEF PollFails, Outcomes
      <3>2. Counters' \subseteq Nat
        <4>1. failed \in Nat
          BY DEF RequestsTyped, Counters
        <4>2. failed' \in Nat
          <5>1. failed' = failed + 1
            BY <1>5, <2>2, Zenon DEF PollFails
          <5> QED BY <4>1, <5>1
        <4> QED BY <1>5, <4>2 DEF PollFails, RequestsTyped, Counters
      <3>3. UNCHANGED <<key, stream, save, served>>
        BY <1>5 DEF PollFails
      <3>4. RequestsTyped'
        BY <2>1, <3>1, <3>2, <3>3, DoneType DEF RequestsTyped, stream
      <3>5. Staged'
        BY <2>1, <3>1, <3>3 DEF RequestsTyped, Staged, Done, stream
      <3> QED BY <3>4, <3>5
    <2>3. CASE ~(tries[r] + 1 >= Retry)
      <3>1. RequestsTyped'
        BY <1>5, <2>1, <2>3 DEF PollFails, RequestsTyped, Counters, stream
      <3>2. Staged'
        BY <1>5, <2>1, <2>3, RetryAssumption
           DEF PollFails, RequestsTyped, Staged, Done, stream
      <3> QED BY <3>1, <3>2
    <2> QED BY <2>2, <2>3
  <1>6. CASE PollRefused(r)
    <2>1. RequestsTyped'
      <3>1. Counters' \subseteq Nat
        <4>1. failed \in Nat
          BY DEF RequestsTyped, Counters
        <4>2. failed' \in Nat
          <5>1. failed' = failed \/ failed' = failed + 1
            BY <1>6, Zenon DEF PollRefused
          <5> QED BY <4>1, <5>1
        <4> QED BY <1>6, <4>2 DEF PollRefused, RequestsTyped, Counters
      <3>2. UNCHANGED <<key, tries, stream, save, served>>
        BY <1>6 DEF PollRefused
      <3>3. PICK o \in {"not found", "bad gateway"} : Done(r, o)
        BY <1>6 DEF PollRefused
      <3>4. o \in Outcomes
        BY DEF Outcomes
      <3> QED BY <3>1, <3>2, <3>3, <3>4, DoneType DEF RequestsTyped, stream
    <2>2. Staged'
      BY <1>6 DEF PollRefused, RequestsTyped, Staged, Done, stream
    <2> QED BY <2>1, <2>2
  <1> QED BY <1>1, <1>2, <1>3, <1>4, <1>5, <1>6

\* The stream, its end and the task it spawns keep the types.
LEMMA TailType ==
  ASSUME TypeInv, NEW r \in Requests,
         \/ Chunk(r) \/ StreamError(r) \/ StreamEnd(r) \/ Finish(r)
         \/ Disconnect(r) \/ SaveBegins(r) \/ SaveLost(r)
         \/ SaveEnds(r) \/ SaveFails(r)
  PROVE  RequestsInv'
  <1>1. CASE Chunk(r) \/ StreamError(r) \/ StreamEnd(r)
    BY <1>1, ChunksAssumption
       DEF Chunk, StreamError, StreamEnd, Streaming, TypeInv, TypeOK, RequestsInv, RequestsTyped, Staged,
           Active, Agg, SaveTask, Length, Counters, counters
  <1>2. CASE SaveBegins(r) \/ SaveLost(r) \/ SaveEnds(r) \/ SaveFails(r)
    <2>1. /\ UNCHANGED requests
          /\ save' \in [Requests -> SaveTask \cup {None}]
          /\ save[r] # None /\ \A q \in Requests : q # r => save'[q] = save[q]
      BY <1>2, NoneAssumption
         DEF SaveBegins, SaveLost, SaveEnds, SaveFails, TypeInv, TypeOK,
             RequestsTyped, Calling, SaveTask, Cache!Saved, Cache!Fail
    <2> QED BY <2>1
        DEF requests, TypeInv, TypeOK, RequestsInv, RequestsTyped, Staged,
            Counters
  <1>3. ASSUME stage[r] = "stream", DropStream(r), NEW a \in Outcomes, Done(r, a),
               UNCHANGED <<key, tries, len, body, served, counter, hits,
                           dropped, pulled>>
        PROVE  RequestsInv'
    <2>1. RequestsTyped'
      BY <1>3, StreamType DEF Done, TypeInv, TypeOK, RequestsInv, RequestsTyped, Active, Counters
    <2>2. Staged'
      BY <1>3, StreamType DEF Done, TypeInv, TypeOK, RequestsInv, RequestsTyped, Staged, Active
    <2> QED BY <2>1, <2>2 DEF RequestsInv
  <1>4. CASE Finish(r)
    BY <1>4, <1>3 DEF Finish, Outcomes
  <1>5. CASE Disconnect(r) /\ stage[r] = "stream"
    BY <1>5, <1>3 DEF Disconnect, Outcomes
  <1>6. CASE Disconnect(r) /\ stage[r] # "stream"
    <2>1. Done(r, "cancelled") /\ "cancelled" \in Outcomes
      BY <1>6 DEF Disconnect, Outcomes
    <2>2. RequestsTyped'
      BY <1>6, <2>1, DoneType DEF Disconnect, TypeInv, TypeOK, RequestsInv, RequestsTyped, Counters
    <2>3. Staged'
      BY <1>6, <2>1 DEF Disconnect, Done, TypeInv, TypeOK, RequestsInv, RequestsTyped, Staged, Active
    <2> QED BY <2>2, <2>3 DEF RequestsInv
  <1> QED BY <1>1, <1>2, <1>4, <1>5, <1>6

\* Find and Shrink touch the cache only.
LEMMA CacheOnly ==
  ASSUME \/ \E r \in Requests : Find(r)
         \/ Shrink \/ UNCHANGED vars
  PROVE  UNCHANGED <<requests, save>>
  BY DEF Find, Shrink, vars, requests, stream, counters

\* Every step keeps the requests as they should be.
LEMMA RequestsType ==
  ASSUME TypeInv, [Next]_vars
  PROVE  RequestsInv'
  <1>1. ASSUME UNCHANGED <<requests, save>>  PROVE RequestsInv'
    BY <1>1 DEF requests, TypeInv, TypeOK, RequestsInv, RequestsTyped, Staged,
                Counters
  <1> QED BY <1>1, CacheOnly, HandlerType, TailType DEF Next, Handle

\* Every step keeps the calls of the cache with the requests.
LEMMA NextCalling ==
  ASSUME TypeInv, [Next]_vars
  PROVE  Calling'
  <1> USE DEF TypeInv, TypeOK, RequestsTyped, Cache!TypeOK, Calling
  <1>1. ASSUME NEW r \in Requests,
               \/ Reject(r) \/ PollFails(r) \/ Wake(r) \/ PollRefused(r)
               \/ PollOk(r) \/ Chunk(r) \/ StreamError(r) \/ StreamEnd(r)
        PROVE  Calling'
    BY <1>1 DEF Reject, PollFails, Wake, PollRefused, PollOk, Chunk, StreamError,
                StreamEnd, Streaming, Done, calls
  <1>2. ASSUME NEW r \in Requests, NEW k \in Keys, Accept(r, k)
        PROVE  Calling'
    BY <1>2 DEF Accept, Cache!Load
  <1>3. ASSUME NEW r \in Requests, Find(r)
        PROVE  Calling'
    BY <1>3 DEF Find, Cache!Find
  <1>4. ASSUME NEW r \in Requests, LoadHit(r) \/ LoadMiss(r)
        PROVE  Calling'
    BY <1>4 DEF LoadHit, LoadMiss, Returns, Done, Cache!Answer
  <1>5. ASSUME NEW r \in Requests, Finish(r) \/ Disconnect(r)
        PROVE  Calling'
    <2>1. stage[r] # "done" /\ (stage[r] = "load" \/ UNCHANGED calls)
      BY <1>5 DEF Finish, Disconnect, Active
    <2>2. saves[r] = None
      BY <2>1, NoneAssumption DEF Staged, SaveTask
    <2>3. /\ UNCHANGED <<saves, key>> /\ stage' = [stage EXCEPT ![r] = "done"]
          /\ \A q \in Requests : q # r => save'[q] = save[q]
      BY <1>5 DEF Finish, Disconnect, DropStream, Done, Returns, Cache!Answer,
                  calls
    <2>4. loads' = loads \/ loads' = [loads EXCEPT ![r] = None]
      BY <1>5 DEF Finish, Disconnect, Returns, Cache!Answer, calls
    <2>5. loads'[r] = None
      BY <1>5, <2>4 DEF Finish, Disconnect, Returns, Cache!Answer, calls
    <2> QED BY <2>2, <2>3, <2>4, <2>5
  <1>6. ASSUME NEW r \in Requests, SaveBegins(r)
        PROVE  Calling'
    <2>1. \A q \in Requests : q # r /\ saves'[q] # None => saves[q] # None
      BY <1>6 DEF SaveBegins, Cache!Save, Cache!Saving
    <2> QED BY <1>6, <2>1 DEF SaveBegins, Cache!Save, requests
  <1>7. ASSUME NEW r \in Requests, SaveLost(r)
        PROVE  Calling'
    BY <1>7 DEF SaveLost, calls, requests
  <1>8. ASSUME NEW r \in Requests, SaveEnds(r) \/ SaveFails(r)
        PROVE  Calling'
    BY <1>8 DEF SaveEnds, SaveFails, Cache!Saved, Cache!Fail, requests
  <1>9. CASE Shrink \/ UNCHANGED vars
    BY <1>9 DEF Shrink, Cache!Forget, vars, requests
  <1> QED BY <1>1, <1>2, <1>3, <1>4, <1>5, <1>6, <1>7, <1>8, <1>9
          DEF Next, Handle

\* Every step keeps the types.
LEMMA NextType == TypeInv /\ [Next]_vars => TypeInv'
  BY CacheType, ErrorsBound, RequestsType, NextCalling
     DEF TypeInv, TypeOK, RequestsInv

\* Requests, streams, tasks, counters and calls of the cache have their types in
\* every state.
THEOREM TypeCorrect == Spec => []TypeOK
  <1>1. TypeInv => TypeOK
    BY DEF TypeInv
  <1> QED BY <1>1, InitType, NextType, PTL DEF Spec

\* The request path, whatever its requests do, uses the cache as ImageCache
\* has it, and so inherits what is proved of ImageCache.
THEOREM CallsCorrect == Spec => Cache!Spec
  <1>1. Init => Cache!Init
    BY DEF Init
  <1>2. TypeInv /\ [Next]_vars => [Cache!Next]_(Cache!vars)
    BY CallsStep DEF calls, Cache!vars
  <1> QED BY <1>1, <1>2, InitType, NextType, PTL DEF Spec, Cache!Spec

-----------------------------------------------------------------------------
(***************************************************************************)
(* What a stream leaves.  A stream that failed has poisoned its            *)
(* aggregator, so that Drop can queue part of an image only for a stream   *)
(* that was cut or that upstream ended short.                              *)
(***************************************************************************)
StreamInv ==
  \A r \in Requests :
    /\ stage[r] \notin {"stream", "done"} => body[r] = "open"
    /\ stage[r] = "stream" /\ body[r] = "failed" => agg[r] = "Poisoned"
    /\ save[r] = "queued" => len[r] = Chunks \/ answer[r] = "cut" \/ Short(r)

\* A load has found whole images only, unless a stream of its key was cut.
LoadsWhole ==
  \A r \in Requests :
    loads[r] # None /\ loads[r].key \notin CutKeys
      => loads[r].bytes \in {Chunks, None} /\ loads[r].sum \in {Chunks, None}

WholeInv == StreamInv /\ BrokenNeverSaved /\ WholeUnlessCut /\ LoadsWhole

\* The save task of a request touches the cache and its own state.
LEMMA TaskOnly ==
  ASSUME NEW r \in Requests,
         SaveBegins(r) \/ SaveLost(r) \/ SaveEnds(r) \/ SaveFails(r)
  PROVE  UNCHANGED requests
  BY DEF SaveBegins, SaveLost, SaveEnds, SaveFails

\* It was there before, and is there afterwards.
LEMMA TaskStays ==
  ASSUME TypeInv, NEW r \in Requests,
         SaveBegins(r) \/ SaveLost(r) \/ SaveEnds(r) \/ SaveFails(r)
  PROVE  /\ save[r] # None /\ save'[r] # None /\ save'[r] # "queued"
         /\ \A q \in Requests : q # r => save'[q] = save[q]
  BY NoneAssumption
     DEF SaveBegins, SaveLost, SaveEnds, SaveFails, TypeInv, TypeOK,
         RequestsTyped, Calling, SaveTask, Cache!Saved, Cache!Fail

\* A request that is over stays as it is, but for its save.
LEMMA DoneStays ==
  ASSUME TypeInv, [Next]_vars, NEW r \in Requests, stage[r] = "done"
  PROVE  UNCHANGED <<stage[r], key[r], agg[r], len[r], body[r], answer[r],
                     served[r]>>
  <1> USE DEF TypeInv, TypeOK, RequestsTyped
  <1>1. ASSUME NEW q \in Requests,
               \/ Reject(q) \/ \E k \in Keys : Accept(q, k)
               \/ LoadHit(q) \/ LoadMiss(q) \/ PollFails(q) \/ Wake(q)
               \/ PollRefused(q) \/ PollOk(q)
        PROVE  UNCHANGED <<stage[r], key[r], agg[r], len[r], body[r],
                           answer[r], served[r]>>
    BY <1>1 DEF Reject, Accept, LoadHit, Found, LoadMiss, PollFails, Wake,
                PollRefused, PollOk, Done, stream
  <1>2. ASSUME NEW q \in Requests, Chunk(q) \/ StreamError(q) \/ StreamEnd(q)
        PROVE  UNCHANGED <<stage[r], key[r], agg[r], len[r], body[r],
                           answer[r], served[r]>>
    BY <1>2 DEF Chunk, StreamError, StreamEnd, Streaming, stream
  <1>3. ASSUME NEW q \in Requests, Finish(q) \/ Disconnect(q)
        PROVE  UNCHANGED <<stage[r], key[r], agg[r], len[r], body[r],
                           answer[r], served[r]>>
    BY <1>3 DEF Finish, Disconnect, DropStream, Done, Active
  <1>4. CASE UNCHANGED requests
    BY <1>4 DEF requests
  <1> QED BY <1>1, <1>2, <1>3, <1>4, CacheOnly, TaskOnly DEF Next, Handle

\* A body that has ended stays as it is.
LEMMA EndedStays ==
  ASSUME TypeInv, StreamInv, [Next]_vars, NEW r \in Requests, body[r] = "ended"
  PROVE  UNCHANGED <<key[r], len[r], body[r]>>
  <1> USE DEF TypeInv, TypeOK, RequestsTyped
  <1>0. stage[r] \in {"stream", "done"}
    BY DEF StreamInv
  <1>1. ASSUME NEW q \in Requests,
               \/ Reject(q) \/ \E k \in Keys : Accept(q, k)
               \/ LoadHit(q) \/ LoadMiss(q) \/ PollFails(q) \/ Wake(q)
               \/ PollRefused(q) \/ PollOk(q)
        PROVE  UNCHANGED <<key[r], len[r], body[r]>>
    BY <1>0, <1>1 DEF Reject, Accept, LoadHit, LoadMiss, PollFails, Wake,
                      PollRefused, PollOk, stream
  <1>2. ASSUME NEW q \in Requests, Chunk(q) \/ StreamError(q) \/ StreamEnd(q)
        PROVE  UNCHANGED <<key[r], len[r], body[r]>>
    BY <1>2 DEF Chunk, StreamError, StreamEnd, Streaming
  <1>3. ASSUME NEW q \in Requests, Finish(q) \/ Disconnect(q)
        PROVE  UNCHANGED <<key[r], len[r], body[r]>>
    BY <1>3 DEF Finish, Disconnect
  <1>4. CASE UNCHANGED requests
    BY <1>4 DEF requests
  <1> QED BY <1>1, <1>2, <1>3, <1>4, CacheOnly, TaskOnly DEF Next, Handle

\* A key of which a stream was cut stays one.
LEMMA CutKeysGrow ==
  ASSUME TypeInv, StreamInv, [Next]_vars
  PROVE  CutKeys \subseteq CutKeys'
  <1>1. ASSUME NEW r \in Requests, answer[r] = "cut"
        PROVE  answer'[r] = "cut" /\ key'[r] = key[r]
    <2>1. stage[r] = "done"
      BY <1>1, NoneAssumption DEF TypeInv, Staged, Outcomes
    <2> QED BY <1>1, <2>1, DoneStays
  <1>2. ASSUME NEW r \in Requests, Short(r)
        PROVE  Short(r)' /\ key'[r] = key[r]
    BY <1>2, EndedStays DEF Short
  <1> QED BY <1>1, <1>2 DEF CutKeys

\* Every step keeps what is known of streams and their saves.
LEMMA NextStream ==
  TypeInv /\ StreamInv /\ BrokenNeverSaved /\ [Next]_vars
    => StreamInv' /\ BrokenNeverSaved'
  <1> SUFFICES ASSUME TypeInv, StreamInv, BrokenNeverSaved, [Next]_vars
               PROVE  StreamInv' /\ BrokenNeverSaved'
    OBVIOUS
  <1> USE NoneAssumption DEF TypeInv, TypeOK, RequestsTyped, Staged, StreamInv,
          BrokenNeverSaved, SaveTask, Short
  <1>1. ASSUME NEW q \in Requests,
               \/ Reject(q) \/ \E k \in Keys : Accept(q, k)
               \/ LoadHit(q) \/ PollFails(q) \/ PollRefused(q)
        PROVE  StreamInv' /\ BrokenNeverSaved'
    <2>1. stage[q] \notin {"stream", "done"}
      BY <1>1 DEF Reject, Accept, LoadHit, Found, PollFails, PollRefused
    <2>2. /\ UNCHANGED <<stream, save>>
          /\ \A r \in Requests : r # q => /\ stage'[r] = stage[r]
                                        /\ answer'[r] = answer[r]
      <3>1. CASE Reject(q) \/ \E k \in Keys : Accept(q, k)
        BY <3>1 DEF Reject, Accept, Done
      <3>2. CASE LoadHit(q)
        BY <3>2 DEF LoadHit, Done
      <3>3. CASE PollFails(q) \/ PollRefused(q)
        BY <3>3 DEF PollFails, PollRefused, Done
      <3> QED BY <1>1, <3>1, <3>2, <3>3
    <2> QED BY <2>1, <2>2 DEF stream
  <1>2. ASSUME NEW q \in Requests, LoadMiss(q) \/ Wake(q) \/ PollOk(q)
        PROVE  StreamInv' /\ BrokenNeverSaved'
    BY <1>2 DEF LoadMiss, Wake, PollOk, stream
  <1>3. ASSUME NEW q \in Requests, Chunk(q) \/ StreamError(q) \/ StreamEnd(q)
        PROVE  StreamInv' /\ BrokenNeverSaved'
    BY <1>3 DEF Chunk, StreamError, StreamEnd, Streaming
  <1>4. ASSUME NEW q \in Requests, Finish(q) \/ Disconnect(q)
        PROVE  StreamInv' /\ BrokenNeverSaved'
    <2>1. /\ UNCHANGED <<len, body>> /\ stage'[q] = "done"
          /\ \A r \in Requests :
               r # q => UNCHANGED <<stage[r], answer[r], agg[r], save[r]>>
      BY <1>4 DEF Finish, Disconnect, DropStream, Done
    <2>2. \A r \in Requests : Short(r)' <=> Short(r)
      BY <2>1 DEF Short
    <2>3. save'[q] \in {save[q], "queued"} /\ stage[q] \in Active
      BY <1>4 DEF Finish, Disconnect, DropStream, Active
    <2>4. stage[q] # "done" /\ save[q] = None
      BY <2>3 DEF Active
    <2>5. CASE save'[q] = "queued"
      <3>1. agg[q] = "Stable" /\ stage[q] = "stream"
        BY <1>4, <2>4, <2>5 DEF Finish, Disconnect, DropStream
      <3>2. body[q] # "failed"
        BY <3>1
      <3>3. answer'[q] = "cut" \/ body[q] = "ended"
        BY <1>4, <3>1, <3>2 DEF Finish, Disconnect, Done
      <3>4. len[q] = Chunks \/ len[q] < Chunks
        BY ChunksAssumption DEF Length
      <3> QED BY <2>1, <2>2, <3>2, <3>3, <3>4
    <2>6. CASE save'[q] = save[q]
      BY <2>1, <2>2, <2>4, <2>6
    <2> QED BY <2>3, <2>5, <2>6
  <1>5. ASSUME NEW q \in Requests,
               SaveBegins(q) \/ SaveLost(q) \/ SaveEnds(q) \/ SaveFails(q)
        PROVE  StreamInv' /\ BrokenNeverSaved'
    BY <1>5, TaskOnly, TaskStays DEF requests
  <1>6. CASE UNCHANGED <<requests, save>>
    BY <1>6 DEF requests
  <1> QED BY <1>1, <1>2, <1>3, <1>4, <1>5, <1>6, CacheOnly DEF Next, Handle

\* What a step can make of the images a load may find.
LEMMA HeldStep ==
  ASSUME TypeInv, [Next]_vars, NEW k \in Keys
  PROVE  \A c \in held'[k] :
           \/ c \in held[k]
           \/ \E r \in Requests : save[r] = "queued" /\ key[r] = k /\ c = len[r]
  <1> DEFINE Goal ==
        \A c \in held'[k] :
          \/ c \in held[k]
          \/ \E r \in Requests : save[r] = "queued" /\ key[r] = k /\ c = len[r]
  <1> USE DEF TypeInv, TypeOK, Cache!TypeOK
  <1>1. CASE UNCHANGED held
    BY <1>1
  <1>2. CASE Cache!Forgets
    BY <1>2 DEF Cache!Forgets
  <1>3. ASSUME NEW r \in Requests,
               \/ Reject(r) \/ \E j \in Keys : Accept(r, j)
               \/ LoadHit(r) \/ LoadMiss(r) \/ PollFails(r) \/ Wake(r)
               \/ PollRefused(r) \/ PollOk(r) \/ Chunk(r) \/ StreamError(r)
               \/ StreamEnd(r) \/ Finish(r) \/ Disconnect(r) \/ SaveLost(r)
               \/ Find(r)
        PROVE  UNCHANGED held
    BY <1>3 DEF Reject, Accept, LoadHit, LoadMiss, PollFails, Wake, PollRefused,
                PollOk, Chunk, StreamError, StreamEnd, Finish, Disconnect,
                SaveLost, Find, Returns, calls, Cache!Load, Cache!Answer,
                Cache!Find
  <1>4. ASSUME NEW r \in Requests, SaveBegins(r)
        PROVE  Goal
    BY <1>4 DEF SaveBegins, Cache!Save
  <1>5. ASSUME NEW r \in Requests, SaveEnds(r) \/ SaveFails(r)
        PROVE  Cache!Forgets
    BY <1>5 DEF SaveEnds, SaveFails, Cache!Saved, Cache!Fail
  <1>6. CASE Shrink
    BY <1>2, <1>6 DEF Shrink, Cache!Forget
  <1>7. CASE UNCHANGED vars
    BY <1>1, <1>7 DEF vars
  <1> QED BY <1>1, <1>2, <1>3, <1>4, <1>5, <1>6, <1>7 DEF Next, Handle

\* What a load may find in a step.
Findable(r) == held[loads[r].key] \cup {None}

\* What a step can make of a load.
LEMMA LoadStep ==
  ASSUME TypeInv, [Next]_vars, NEW r \in Requests, loads'[r] # None
  PROVE  \/ loads'[r] = loads[r]
         \/ loads'[r].bytes = None /\ loads'[r].sum = None
         \/ /\ loads[r] # None /\ loads'[r].key = loads[r].key
            /\ loads'[r].bytes \in Findable(r) \cup {loads[r].bytes}
            /\ loads'[r].sum \in Findable(r) \cup {loads[r].sum}
  <1> DEFINE Goal ==
         \/ loads'[r] = loads[r]
         \/ loads'[r].bytes = None /\ loads'[r].sum = None
         \/ /\ loads[r] # None /\ loads'[r].key = loads[r].key
            /\ loads'[r].bytes \in Findable(r) \cup {loads[r].bytes}
            /\ loads'[r].sum \in Findable(r) \cup {loads[r].sum}
  <1> USE DEF TypeInv, TypeOK, Cache!TypeOK
  <1>1. ASSUME NEW q \in Requests, NEW k \in Keys, Accept(q, k)
        PROVE  Goal
    BY <1>1 DEF Accept, Cache!Load
  <1>2. ASSUME NEW q \in Requests, Find(q)
        PROVE  Goal
    <2>1. CASE q # r
      BY <1>2, <2>1 DEF Find, Cache!Find
    <2>2. CASE q = r
      <3>1. PICK b \in Findable(r) \cup {loads[r].bytes},
                 m \in Findable(r) \cup {loads[r].sum} :
              loads' = [loads EXCEPT ![r] = [key |-> loads[r].key,
                                             bytes |-> b, sum |-> m]]
        BY <1>2, <2>2 DEF Find, Cache!Find, Findable
      <3>2. loads'[r] = [key |-> loads[r].key, bytes |-> b, sum |-> m]
        BY <3>1
      <3> QED BY <1>2, <2>2, <3>2 DEF Find, Cache!Find
    <2> QED BY <2>1, <2>2
  <1>3. ASSUME NEW q \in Requests, LoadHit(q) \/ LoadMiss(q) \/ Disconnect(q)
        PROVE  Goal
    BY <1>3 DEF LoadHit, LoadMiss, Disconnect, Returns, Cache!Answer, calls
  <1>4. ASSUME NEW q \in Requests,
               \/ Reject(q) \/ PollFails(q) \/ Wake(q) \/ PollRefused(q)
               \/ PollOk(q) \/ Chunk(q) \/ StreamError(q) \/ StreamEnd(q)
               \/ Finish(q) \/ SaveLost(q)
        PROVE  Goal
    BY <1>4 DEF Reject, PollFails, Wake, PollRefused, PollOk, Chunk, StreamError,
                StreamEnd, Finish, SaveLost, calls
  <1>5. ASSUME NEW q \in Requests, SaveBegins(q) \/ SaveEnds(q) \/ SaveFails(q)
        PROVE  Goal
    BY <1>5 DEF SaveBegins, SaveEnds, SaveFails, Cache!Save, Cache!Saved,
                Cache!Fail
  <1>6. CASE Shrink \/ UNCHANGED vars
    BY <1>6 DEF Shrink, Cache!Forget, vars
  <1> QED BY <1>1, <1>2, <1>3, <1>4, <1>5, <1>6 DEF Next, Handle

\* What a step can make of the answer to a HIT, and of its key.
LEMMA ServedStep ==
  ASSUME TypeInv, [Next]_vars, NEW r \in Requests, served'[r] # None
  PROVE  /\ key'[r] = key[r]
         /\ \/ served'[r] = served[r]
            \/ /\ loads[r] # None /\ loads[r].key = key[r]
               /\ loads[r].bytes # None /\ loads[r].sum # None
               /\ served'[r].bytes \in {loads[r].bytes, None}
               /\ served'[r].etag = loads[r].sum
  <1> DEFINE Goal ==
         /\ key'[r] = key[r]
         /\ \/ served'[r] = served[r]
            \/ /\ loads[r] # None /\ loads[r].key = key[r]
               /\ loads[r].bytes # None /\ loads[r].sum # None
               /\ served'[r].bytes \in {loads[r].bytes, None}
               /\ served'[r].etag = loads[r].sum
  <1> USE DEF TypeInv, TypeOK, RequestsTyped
  <1>1. ASSUME NEW q \in Requests, NEW k \in Keys, Accept(q, k)
        PROVE  Goal
    BY <1>1 DEF Accept, Staged
  <1>2. ASSUME NEW q \in Requests, LoadHit(q)
        PROVE  Goal
    <2>1. UNCHANGED key
      BY <1>2 DEF LoadHit
    <2>2. CASE q # r
      BY <1>2, <2>1, <2>2 DEF LoadHit
    <2>3. CASE q = r
      <3>1. /\ loads[r] # None /\ loads[r].key = key[r]
            /\ loads[r].bytes # None /\ loads[r].sum # None
        BY <1>2, <2>3 DEF LoadHit, Found, Returns, Cache!Answer, Calling
      <3>2. PICK b \in {loads[r].bytes, None} :
              served' = [served EXCEPT ![r] = [bytes |-> b,
                                               etag |-> loads[r].sum]]
        BY <1>2, <2>3, Zenon DEF LoadHit
      <3>3. served'[r] = [bytes |-> b, etag |-> loads[r].sum]
        BY <3>2
      <3> QED BY <2>1, <3>1, <3>3
    <2> QED BY <2>2, <2>3
  <1>3. ASSUME NEW q \in Requests,
               \/ Reject(q) \/ LoadMiss(q) \/ PollFails(q) \/ Wake(q)
               \/ PollRefused(q) \/ PollOk(q) \/ Chunk(q) \/ StreamError(q)
               \/ StreamEnd(q) \/ Finish(q) \/ Disconnect(q)
        PROVE  Goal
    BY <1>3 DEF Reject, LoadMiss, PollFails, Wake, PollRefused, PollOk, Chunk,
                StreamError, StreamEnd, Finish, Disconnect
  <1>4. CASE UNCHANGED requests
    BY <1>4 DEF requests
  <1> QED BY <1>1, <1>2, <1>3, <1>4, CacheOnly, TaskOnly DEF Next, Handle

\* Every step keeps the loads of keys without a cut stream whole.
LEMMA NextLoads ==
  TypeInv /\ WholeInv /\ [Next]_vars => LoadsWhole'
  <1> SUFFICES ASSUME TypeInv, WholeInv, [Next]_vars, NEW r \in Requests,
                      loads'[r] # None, loads'[r].key \notin CutKeys'
               PROVE  /\ loads'[r].bytes \in {Chunks, None}
                      /\ loads'[r].sum \in {Chunks, None}
    BY DEF LoadsWhole
  <1>1. loads'[r].key \notin CutKeys
    BY CutKeysGrow DEF WholeInv
  <1>2. CASE loads'[r] = loads[r]
    BY <1>1, <1>2 DEF WholeInv, LoadsWhole
  <1>3. CASE /\ loads[r] # None /\ loads'[r].key = loads[r].key
             /\ loads'[r].bytes \in Findable(r) \cup {loads[r].bytes}
             /\ loads'[r].sum \in Findable(r) \cup {loads[r].sum}
    <2>1. loads[r].key \in Keys
      BY <1>3 DEF TypeInv, TypeOK, Cache!TypeOK, Cache!LoadOp
    <2>2. held[loads[r].key] \subseteq {Chunks}
      BY <1>1, <1>3, <2>1 DEF WholeInv, WholeUnlessCut
    <2>3. loads[r].bytes \in {Chunks, None} /\ loads[r].sum \in {Chunks, None}
      BY <1>1, <1>3 DEF WholeInv, LoadsWhole
    <2> QED BY <1>3, <2>2, <2>3 DEF Findable
  <1> QED BY <1>2, <1>3, LoadStep

\* Every step keeps keys without a cut stream whole.
LEMMA NextWhole ==
  TypeInv /\ WholeInv /\ StreamInv' /\ [Next]_vars => WholeUnlessCut'
  <1> SUFFICES ASSUME TypeInv, WholeInv, StreamInv', [Next]_vars,
                      NEW k \in Keys, k \notin CutKeys'
               PROVE  /\ held'[k] \subseteq {Chunks}
                      /\ \A r \in Requests : key'[r] = k =>
                           /\ save'[r] = "queued" => len'[r] = Chunks
                           /\ served'[r] # None =>
                                /\ served'[r].bytes \in {Chunks, None}
                                /\ served'[r].etag = Chunks
    BY DEF WholeUnlessCut
  <1>0. k \notin CutKeys
    BY CutKeysGrow DEF WholeInv
  <1>1. /\ held[k] \subseteq {Chunks}
        /\ \A r \in Requests : key[r] = k =>
             /\ save[r] = "queued" => len[r] = Chunks
             /\ served[r] # None => /\ served[r].bytes \in {Chunks, None}
                                    /\ served[r].etag = Chunks
    BY <1>0 DEF WholeInv, WholeUnlessCut
  <1>2. held'[k] \subseteq {Chunks}
    BY <1>1, HeldStep
  <1>3. ASSUME NEW r \in Requests, key'[r] = k, save'[r] = "queued"
        PROVE  len'[r] = Chunks
    <2>1. answer'[r] # "cut" /\ ~Short(r)'
      BY <1>3 DEF CutKeys
    <2> QED BY <1>3, <2>1 DEF StreamInv
  <1>4. ASSUME NEW r \in Requests, key'[r] = k, served'[r] # None
        PROVE  served'[r].bytes \in {Chunks, None} /\ served'[r].etag = Chunks
    <2>1. key[r] = k
      BY <1>4, ServedStep
    <2>2. CASE served'[r] = served[r]
      BY <1>1, <1>4, <2>1, <2>2
    <2>3. CASE /\ loads[r] # None /\ loads[r].key = key[r]
               /\ loads[r].bytes # None /\ loads[r].sum # None
               /\ served'[r].bytes \in {loads[r].bytes, None}
               /\ served'[r].etag = loads[r].sum
      BY <1>0, <2>1, <2>3 DEF WholeInv, LoadsWhole
    <2> QED BY <1>4, <2>2, <2>3, ServedStep
  <1> QED BY <1>2, <1>3, <1>4

\* The initial state is whole.
LEMMA InitWhole == Init => WholeInv
  BY NoneAssumption
     DEF Init, Cache!Init, WholeInv, StreamInv, BrokenNeverSaved, WholeUnlessCut,
         LoadsWhole, SaveTask

\* WholeInv holds together with the types.
LEMMA WholeStays == Spec => [](TypeInv /\ WholeInv)
  <1>1. TypeInv /\ WholeInv /\ [Next]_vars => TypeInv' /\ WholeInv'
    BY NextType, NextStream, NextWhole, NextLoads DEF WholeInv
  <1> QED BY <1>1, InitType, InitWhole, PTL DEF Spec

\* A stream that reported an upstream error to actix never reaches the cache.
THEOREM BrokenCorrect == Spec => []BrokenNeverSaved
  <1>1. WholeInv => BrokenNeverSaved
    BY DEF WholeInv
  <1> QED BY <1>1, WholeStays, PTL

\* Unless a stream of the very image was cut, or ended short by upstream, an image
\* is cached, queued for saving, sent from the cache and named by an ETag as a
\* whole or not at all.
THEOREM WholeCorrect == Spec => []WholeUnlessCut
  <1>1. WholeInv => WholeUnlessCut
    BY DEF WholeInv
  <1> QED BY <1>1, WholeStays, PTL

-----------------------------------------------------------------------------
(***************************************************************************)
(* Each request is counted once: a step that ends a request moves it into  *)
(* one of the sets below and raises the counter of that set.               *)
(***************************************************************************)
Turned == Cardinality(With({"rejected"}))
Hits == Cardinality(With({"hit", "not modified"}))
Ends == Cardinality(With({"bad gateway", "streamed", "broken", "cut"}))
SavesOf == {r \in Requests : save[r] # None}
Accepted == {r \in Requests : key[r] # None}
Tally == <<Turned, Hits, Ends>>

\* A stream under way still has its bytes, or is poisoned.
AggInv ==
  \A r \in Requests : stage[r] = "stream" => agg[r] \in {"Stable", "Poisoned"}

\* EachCountedOnce, by the sizes of the sets.
Counted == /\ dropped = Turned /\ hits = Hits /\ misses + failed = Ends
           /\ misses = Cardinality(SavesOf) /\ counter = Cardinality(Accepted)

\* One more request makes a set one larger.
LEMMA OneMore ==
  ASSUME NEW S \in SUBSET Requests, NEW r \in Requests, r \notin S
  PROVE  Cardinality(S \cup {r}) = Cardinality(S) + 1
  BY RequestsAssumption, FS_Subset, FS_AddElement

\* The sizes of the sets are numbers.
LEMMA TallyType ==
  /\ Turned \in Nat /\ Hits \in Nat /\ Ends \in Nat
  /\ Cardinality(SavesOf) \in Nat /\ Cardinality(Accepted) \in Nat
  BY RequestsAssumption, FS_Subset, FS_CardinalityType
     DEF Turned, Hits, Ends, With, SavesOf, Accepted

\* A request that ends joins the set of its outcome.
LEMMA WithDone ==
  ASSUME TypeInv, NEW r \in Requests, stage[r] # "done",
         NEW a, a \in Outcomes, Done(r, a), NEW O \in SUBSET Outcomes
  PROVE  Cardinality(With(O)') =
           IF a \in O THEN Cardinality(With(O)) + 1 ELSE Cardinality(With(O))
  <1>1. answer[r] = None /\ r \notin With(O)
    BY NoneAssumption DEF TypeInv, Staged, With
  <1>2. With(O)' = IF a \in O THEN With(O) \cup {r} ELSE With(O)
    BY <1>1 DEF With, Done, TypeInv, TypeOK, RequestsTyped
  <1>3. With(O) \in SUBSET Requests
    BY DEF With
  <1> QED BY <1>1, <1>2, <1>3, OneMore

\* What an outcome does to the three sets.
LEMMA TallyDone ==
  ASSUME TypeInv, NEW r \in Requests, stage[r] # "done",
         NEW a, a \in Outcomes, Done(r, a)
  PROVE  /\ a = "rejected" => Tally' = <<Turned + 1, Hits, Ends>>
         /\ a \in {"hit", "not modified"} => Tally' = <<Turned, Hits + 1, Ends>>
         /\ a \in {"bad gateway", "streamed", "broken", "cut"}
              => Tally' = <<Turned, Hits, Ends + 1>>
         /\ a \in {"not found", "cancelled"} => UNCHANGED Tally
  <1> DEFINE T == {"rejected"}
             H == {"hit", "not modified"}
             E == {"bad gateway", "streamed", "broken", "cut"}
  <1>1. T \in SUBSET Outcomes /\ H \in SUBSET Outcomes /\ E \in SUBSET Outcomes
    BY DEF Outcomes
  <1>2. Turned' = IF a \in T THEN Turned + 1 ELSE Turned
    BY <1>1, WithDone DEF Turned
  <1>3. Hits' = IF a \in H THEN Hits + 1 ELSE Hits
    BY <1>1, WithDone DEF Hits
  <1>4. Ends' = IF a \in E THEN Ends + 1 ELSE Ends
    BY <1>1, WithDone DEF Ends
  <1> QED BY <1>2, <1>3, <1>4, Zenon DEF Tally

\* Where neither answers, saves nor keys change, the sets are the same.
LEMMA TallyFrame ==
  /\ UNCHANGED answer => UNCHANGED Tally
  /\ UNCHANGED save => UNCHANGED SavesOf
  /\ UNCHANGED key => UNCHANGED Accepted
  BY DEF Tally, Turned, Hits, Ends, With, SavesOf, Accepted

\* A step that leaves the sets and the counters alone keeps them equal.
LEMMA CountedFrame ==
  ASSUME Counted, UNCHANGED <<Tally, SavesOf, Accepted>>,
         UNCHANGED <<counter, hits, misses, failed, dropped>>
  PROVE  Counted'
  BY DEF Counted, Tally

\* The counters are numbers.
LEMMA CountersType ==
  ASSUME TypeInv
  PROVE  /\ counter \in Nat /\ hits \in Nat /\ misses \in Nat
         /\ failed \in Nat /\ dropped \in Nat
  BY DEF TypeInv, TypeOK, RequestsTyped, Counters

\* md_service and the cache responder keep the counters with the sets.
LEMMA HandlerCounted ==
  ASSUME TypeInv, Counted, NEW r \in Requests,
         \/ Reject(r) \/ \E k \in Keys : Accept(r, k)
         \/ LoadHit(r) \/ PollFails(r) \/ PollRefused(r)
  PROVE  Counted'
  <1>1. CASE Reject(r)
    <2>1. Done(r, "rejected") /\ stage[r] # "done" /\ "rejected" \in Outcomes
      BY <1>1 DEF Reject, Outcomes
    <2>2. Tally' = <<Turned + 1, Hits, Ends>>
      BY <2>1, TallyDone
    <2>3. UNCHANGED <<SavesOf, Accepted, counter, hits, misses, failed>>
          /\ dropped' = dropped + 1
      BY <1>1, TallyFrame, Zenon DEF Reject
    <2> QED BY <2>2, <2>3 DEF Counted, Tally
  <1>2. ASSUME NEW k \in Keys, Accept(r, k)
        PROVE  Counted'
    <2>1. r \notin Accepted /\ Accepted' = Accepted \cup {r}
      BY <1>2, NoneAssumption DEF Accept, Accepted, TypeInv, TypeOK, RequestsTyped, Staged
    <2>2. Cardinality(Accepted') = Cardinality(Accepted) + 1
      BY <2>1, OneMore DEF Accepted
    <2>3. UNCHANGED <<Tally, SavesOf, hits, misses, failed, dropped>>
          /\ counter' = counter + 1
      BY <1>2, TallyFrame, Zenon DEF Accept
    <2> QED BY <2>2, <2>3 DEF Counted, Tally
  <1>3. CASE LoadHit(r)
    <2>1. UNCHANGED <<SavesOf, Accepted, counter, misses, failed, dropped>>
          /\ hits' = hits + 1
      BY <1>3, TallyFrame, Zenon DEF LoadHit
    <2>2. Tally' = <<Turned, Hits + 1, Ends>>
      <3>1. PICK o \in {"hit", "not modified"} : Done(r, o)
        BY <1>3 DEF LoadHit
      <3>2. o \in Outcomes /\ stage[r] # "done"
        BY <1>3 DEF Outcomes, LoadHit, Found
      <3> QED BY <3>1, <3>2, TallyDone
    <2> QED BY <2>1, <2>2 DEF Counted, Tally
  <1>4. CASE PollFails(r) \/ PollRefused(r)
    <2>1. UNCHANGED <<SavesOf, Accepted, counter, misses, hits, dropped>>
      BY <1>4, TallyFrame, Zenon DEF PollFails, PollRefused
    <2>2. stage[r] # "done"
      BY <1>4 DEF PollFails, PollRefused
    <2>3. \/ UNCHANGED <<failed, answer>>
          \/ failed' = failed + 1 /\ Done(r, "bad gateway")
          \/ UNCHANGED failed /\ Done(r, "not found")
      BY <1>4, Zenon DEF PollFails, PollRefused
    <2>4. "bad gateway" \in Outcomes /\ "not found" \in Outcomes
      BY DEF Outcomes
    <2>5. \/ UNCHANGED <<Tally, failed>>
          \/ Tally' = <<Turned, Hits, Ends + 1>> /\ failed' = failed + 1
      BY <2>2, <2>3, <2>4, TallyFrame, TallyDone
    <2> QED BY <2>1, <2>5, CountersType DEF Counted, Tally
  <1> QED BY <1>1, <1>2, <1>3, <1>4

\* The end of a stream keeps the counters with the sets.
LEMMA DropCounted ==
  ASSUME TypeInv, Counted, AggInv, NEW r \in Requests, stage[r] = "stream",
         NEW a, a \in {"streamed", "broken", "cut"}, Done(r, a), DropStream(r),
         UNCHANGED <<key, counter, hits, dropped>>
  PROVE  Counted'
  <1>1. Tally' = <<Turned, Hits, Ends + 1>>
    BY TallyDone DEF Outcomes
  <1>2. UNCHANGED Accepted
    BY TallyFrame
  <1>3. CASE agg[r] = "Stable"
    <2>1. misses' = misses + 1 /\ failed' = failed
      BY <1>3, Zenon DEF DropStream
    <2>2. r \notin SavesOf /\ SavesOf' = SavesOf \cup {r}
      BY <1>3, NoneAssumption
         DEF DropStream, SavesOf, TypeInv, TypeOK, RequestsTyped, Staged, SaveTask
    <2>3. Cardinality(SavesOf') = Cardinality(SavesOf) + 1
      BY <2>2, OneMore DEF SavesOf
    <2> QED BY <1>1, <1>2, <2>1, <2>3, CountersType DEF Counted, Tally
  <1>4. CASE agg[r] # "Stable"
    <2>1. UNCHANGED <<misses, save>> /\ failed' = failed + 1
      BY <1>4 DEF DropStream, AggInv
    <2>2. UNCHANGED SavesOf
      BY <2>1, TallyFrame
    <2> QED BY <1>1, <1>2, <2>1, <2>2, CountersType DEF Counted, Tally
  <1> QED BY <1>3, <1>4

\* Every step keeps the counters with the sets.
LEMMA NextCounted ==
  ASSUME TypeInv, Counted, AggInv, [Next]_vars
  PROVE  Counted'
  <1>1. ASSUME NEW r \in Requests,
               \/ LoadMiss(r) \/ Wake(r) \/ PollOk(r)
               \/ Chunk(r) \/ StreamError(r) \/ StreamEnd(r)
        PROVE  Counted'
    <2>1. UNCHANGED <<answer, save, key, counter, hits, misses, failed, dropped>>
      BY <1>1 DEF LoadMiss, Wake, PollOk, Chunk, StreamError, StreamEnd, counters
    <2> QED BY <2>1, TallyFrame, CountedFrame
  <1>2. ASSUME NEW r \in Requests,
               SaveBegins(r) \/ SaveLost(r) \/ SaveEnds(r) \/ SaveFails(r)
        PROVE  Counted'
    <2>1. UNCHANGED <<answer, key, counter, hits, misses, failed, dropped>>
      BY <1>2, TaskOnly DEF requests
    <2>2. UNCHANGED SavesOf
      BY <1>2, TaskStays DEF SavesOf
    <2> QED BY <2>1, <2>2, TallyFrame, CountedFrame
  <1>3. ASSUME NEW r \in Requests, Finish(r)
        PROVE  Counted'
    <2>1. /\ stage[r] = "stream" /\ DropStream(r)
          /\ UNCHANGED <<key, counter, hits, dropped>>
      BY <1>3 DEF Finish
    <2>2. Done(r, "streamed") \/ Done(r, "broken")
      BY <1>3 DEF Finish
    <2> QED BY <2>1, <2>2, DropCounted
  <1>4. ASSUME NEW r \in Requests, Disconnect(r), stage[r] = "stream"
        PROVE  Counted'
    BY <1>4, DropCounted DEF Disconnect
  <1>5. ASSUME NEW r \in Requests, Disconnect(r), stage[r] # "stream"
        PROVE  Counted'
    <2>1. /\ stage[r] # "done" /\ Done(r, "cancelled")
          /\ UNCHANGED <<key, save, counter, hits, misses, failed, dropped>>
      BY <1>5 DEF Disconnect, Active
    <2>2. UNCHANGED Tally
      BY <2>1, TallyDone DEF Outcomes
    <2> QED BY <2>1, <2>2, TallyFrame, CountedFrame
  <1>6. CASE UNCHANGED <<requests, save>>
    <2>1. UNCHANGED <<answer, save, key, counter, hits, misses, failed, dropped>>
      BY <1>6 DEF requests
    <2> QED BY <2>1, TallyFrame, CountedFrame
  <1> QED BY <1>1, <1>2, <1>3, <1>4, <1>5, <1>6, HandlerCounted, CacheOnly
          DEF Next, Handle

\* Every step keeps the bytes of a stream or has them poisoned.
LEMMA NextAgg == TypeInv /\ AggInv /\ [Next]_vars => AggInv'
  <1> SUFFICES ASSUME TypeInv, AggInv, [Next]_vars PROVE AggInv'
    OBVIOUS
  <1> USE DEF TypeInv, TypeOK, RequestsTyped, AggInv
  <1>1. ASSUME NEW q \in Requests,
               \/ Reject(q) \/ \E k \in Keys : Accept(q, k)
               \/ LoadHit(q) \/ PollFails(q) \/ PollRefused(q)
               \/ LoadMiss(q) \/ Wake(q) \/ PollOk(q)
        PROVE  AggInv'
    BY <1>1 DEF Reject, Accept, LoadHit, PollFails, PollRefused, LoadMiss, Wake,
                PollOk, Done, stream
  <1>2. ASSUME NEW q \in Requests,
               \/ Chunk(q) \/ StreamError(q) \/ StreamEnd(q) \/ Finish(q)
               \/ Disconnect(q)
        PROVE  AggInv'
    BY <1>2 DEF Chunk, StreamError, StreamEnd, Finish, Disconnect, DropStream,
                Done, stream
  <1>3. CASE UNCHANGED requests
    BY <1>3 DEF requests
  <1> QED BY <1>1, <1>2, <1>3, CacheOnly, TaskOnly DEF Next, Handle

\* Nothing has been counted initially.
LEMMA InitCounted == Init => Counted /\ AggInv
  <1> SUFFICES ASSUME Init PROVE Counted /\ AggInv
    OBVIOUS
  <1>1. SavesOf = {} /\ Accepted = {}
    BY DEF Init, SavesOf, Accepted
  <1>2. With({"rejected"}) = {} /\ With({"hit", "not modified"}) = {}
    BY NoneAssumption DEF Init, With, Outcomes
  <1>3. With({"bad gateway", "streamed", "broken", "cut"}) = {}
    BY NoneAssumption DEF Init, With, Outcomes
  <1>4. Turned = 0 /\ Hits = 0 /\ Ends = 0
    BY <1>2, <1>3, FS_EmptySet DEF Turned, Hits, Ends
  <1>5. Cardinality(SavesOf) = 0 /\ Cardinality(Accepted) = 0
    BY <1>1, FS_EmptySet
  <1>6. counter = 0 /\ hits = 0 /\ misses = 0 /\ failed = 0 /\ dropped = 0
    BY DEF Init
  <1>7. AggInv
    BY DEF Init, AggInv
  <1> QED BY <1>4, <1>5, <1>6, <1>7 DEF Counted

\* Every request that is over is in exactly one counter, by its outcome; a 404
\* from upstream and a handler that was cancelled are in none.
THEOREM CountedCorrect == Spec => []EachCountedOnce
  <1>1. TypeInv /\ Counted /\ AggInv /\ [Next]_vars
          => TypeInv' /\ Counted' /\ AggInv'
    BY NextType, NextCounted, NextAgg
  <1>2. Counted => EachCountedOnce
    BY DEF Counted, EachCountedOnce, Turned, Hits, Ends, SavesOf, Accepted
  <1> QED BY <1>1, <1>2, InitType, InitCounted, PTL DEF Spec

-----------------------------------------------------------------------------
(***************************************************************************)
(* BytesBalance compares counters with what streams received.  A chunk is  *)
(* a pair of a request and a number, so that the sums are the sizes of     *)
(* sets of pairs, and one sum is at most the other by inclusion.           *)
(***************************************************************************)
Pairs == Requests \X (1 .. Chunks)
Come == {p \in Pairs : p[2] <= len[p[1]]}
Down == {p \in Come : save[p[1]] # None}

Pulls == pulled = Cardinality(Come) /\ bytesDown = Cardinality(Down)

Ups == bytesUp >= bytesDown /\ (With({"hit"}) = {} => bytesUp = bytesDown)

\* Sets of chunks are finite, and those counted as downloaded have come.
LEMMA PairsFinite ==
  /\ IsFiniteSet(Pairs) /\ IsFiniteSet(Come) /\ IsFiniteSet(Down)
  /\ Cardinality(Come) \in Nat /\ Cardinality(Down) \in Nat
  /\ Cardinality(Down) <= Cardinality(Come)
  <1>1. IsFiniteSet(1 .. Chunks)
    BY ChunksAssumption, FS_Interval
  <1>2. IsFiniteSet(Pairs)
    BY <1>1, RequestsAssumption, FS_Product DEF Pairs
  <1>3. Come \in SUBSET Pairs /\ Down \in SUBSET Come
    BY DEF Come, Down
  <1>4. IsFiniteSet(Come)
    BY <1>2, <1>3, FS_Subset
  <1>5. IsFiniteSet(Down) /\ Cardinality(Down) <= Cardinality(Come)
    BY <1>3, <1>4, FS_Subset
  <1> QED BY <1>2, <1>4, <1>5, FS_CardinalityType

\* Where neither lengths nor saves change, the sets are the same.
LEMMA PullsFrame ==
  ASSUME Pulls, UNCHANGED <<len, pulled, bytesDown>>,
         \A r \in Requests : save'[r] # None <=> save[r] # None
  PROVE  Pulls'
  <1>1. Come' = Come
    BY DEF Come
  <1>2. Down' = Down
    BY <1>1 DEF Down, Come, Pairs
  <1> QED BY <1>1, <1>2 DEF Pulls

\* A chunk that comes is one more.
LEMMA ChunkPulls ==
  ASSUME TypeInv, Pulls, NEW r \in Requests, Chunk(r)
  PROVE  Pulls'
  <1> DEFINE new == <<r, len[r] + 1>>
  <1> USE DEF TypeInv, TypeOK, RequestsTyped
  <1>1. /\ len' = [len EXCEPT ![r] = len[r] + 1] /\ len[r] < Chunks
        /\ pulled' = pulled + 1 /\ UNCHANGED <<save, bytesDown>>
        /\ stage[r] = "stream"
    BY DEF Chunk, Streaming, counters
  <1>2. \A q \in Requests : len[q] \in Nat
    BY ChunksAssumption DEF Length
  <1>3. new \in Pairs /\ new \notin Come
    BY <1>1, <1>2, ChunksAssumption DEF Pairs, Come
  <1>4. save[r] = None
    BY <1>1 DEF Staged
  <1>5. Come' = Come \cup {new}
    <2>1. \A q \in Requests : len'[q] = IF q = r THEN len[r] + 1 ELSE len[q]
      BY <1>1
    <2>2. ASSUME NEW q \in Requests, NEW i \in 1 .. Chunks
          PROVE  <<q, i>> \in Come' <=> <<q, i>> \in Come \cup {new}
      <3>1. <<q, i>> \in Come' <=> i <= len'[q]
        BY DEF Come, Pairs
      <3>2. <<q, i>> \in Come <=> i <= len[q]
        BY DEF Come, Pairs
      <3>3. i <= len'[q] <=> i <= len[q] \/ (q = r /\ i = len[r] + 1)
        BY <1>2, <2>1, ChunksAssumption
      <3> QED BY <3>1, <3>2, <3>3
    <2>3. Come' \subseteq Pairs /\ Come \cup {new} \subseteq Pairs
      BY <1>3 DEF Come, Pairs
    <2> QED BY <2>2, <2>3 DEF Pairs
  <1>6. Down' = Down
    BY <1>1, <1>4, <1>5 DEF Down, Come, Pairs
  <1>7. Cardinality(Come') = Cardinality(Come) + 1
    BY <1>3, <1>5, PairsFinite, FS_AddElement
  <1> QED BY <1>1, <1>6, <1>7 DEF Pulls

\* What a stream saves and counts has come.
LEMMA DropPulls ==
  ASSUME TypeInv, Pulls, NEW r \in Requests, stage[r] = "stream",
         DropStream(r), UNCHANGED <<len, pulled>>
  PROVE  Pulls'
  <1> USE DEF TypeInv, TypeOK, RequestsTyped
  <1>1. CASE agg[r] # "Stable"
    BY <1>1, PullsFrame DEF DropStream
  <1>2. CASE agg[r] = "Stable"
    <2> DEFINE mine == {r} \X (1 .. len[r])
    <2>1. /\ save' = [save EXCEPT ![r] = "queued"]
          /\ bytesDown' = bytesDown + len[r]
      BY <1>2, Zenon DEF DropStream
    <2>2. save[r] = None /\ len[r] \in Nat /\ len[r] <= Chunks
      BY ChunksAssumption DEF Staged, Length
    <2>3. Come' = Come
      BY DEF Come
    <2>4. \A q \in Requests :
            save'[q] # None <=> (q = r \/ save[q] # None)
      BY <2>1, NoneAssumption DEF SaveTask
    <2>5. Down' = Down \cup mine
      <3>1. ASSUME NEW q \in Requests, NEW i \in 1 .. Chunks
            PROVE  <<q, i>> \in Down' <=> <<q, i>> \in Down \cup mine
        <4>1. <<q, i>> \in Down' <=> i <= len[q] /\ save'[q] # None
          BY <2>3 DEF Down, Come, Pairs
        <4>2. <<q, i>> \in Down <=> i <= len[q] /\ save[q] # None
          BY DEF Down, Come, Pairs
        <4>3. <<q, i>> \in mine <=> q = r /\ i <= len[r]
          BY <2>2, ChunksAssumption
        <4> QED BY <2>4, <4>1, <4>2, <4>3
      <3>2. Down' \subseteq Pairs /\ Down \subseteq Pairs
        BY DEF Down, Come, Pairs
      <3>3. mine \subseteq Pairs
        BY <2>2, ChunksAssumption DEF Pairs
      <3> HIDE DEF mine
      <3> QED BY <3>1, <3>2, <3>3 DEF Pairs
    <2>6. Down \cap mine = {}
      BY <2>2 DEF Down, Come, Pairs
    <2>7. IsFiniteSet(mine) /\ Cardinality(mine) = len[r]
      <3>1. IsFiniteSet(1 .. len[r]) /\ Cardinality(1 .. len[r]) = len[r]
        BY <2>2, FS_Interval
      <3>2. IsFiniteSet({r}) /\ Cardinality({r}) = 1
        BY FS_Singleton
      <3>3. /\ IsFiniteSet({r} \X (1 .. len[r]))
            /\ Cardinality({r} \X (1 .. len[r]))
                 = Cardinality({r}) * Cardinality(1 .. len[r])
        BY <3>1, <3>2, FS_Product
      <3> QED BY <2>2, <3>1, <3>2, <3>3
    <2>8. Cardinality(Down') = Cardinality(Down) + len[r]
      <3> HIDE DEF mine
      <3>1. Cardinality(Down \cup mine)
              = Cardinality(Down) + Cardinality(mine) - Cardinality(Down \cap mine)
        BY <2>7, PairsFinite, FS_Union
      <3>2. Cardinality(Down \cap mine) = 0
        BY <2>6, FS_EmptySet
      <3> QED BY <2>2, <2>5, <2>7, <3>1, <3>2, PairsFinite
    <2> QED BY <2>1, <2>3, <2>8 DEF Pulls
  <1> QED BY <1>1, <1>2

\* Every step keeps the sums.
LEMMA NextPulls == TypeInv /\ Pulls /\ [Next]_vars => Pulls'
  <1> SUFFICES ASSUME TypeInv, Pulls, [Next]_vars PROVE Pulls'
    OBVIOUS
  <1>1. ASSUME NEW r \in Requests,
               \/ Reject(r) \/ \E k \in Keys : Accept(r, k)
               \/ LoadHit(r) \/ LoadMiss(r) \/ PollFails(r) \/ Wake(r)
               \/ PollRefused(r) \/ PollOk(r) \/ StreamError(r) \/ StreamEnd(r)
        PROVE  Pulls'
    <2>1. UNCHANGED <<len, save, pulled, bytesDown>>
      BY <1>1, Zenon DEF Reject, Accept, LoadHit, LoadMiss, PollFails, Wake,
                  PollRefused, PollOk, StreamError, StreamEnd, counters, stream
    <2> QED BY <2>1, PullsFrame
  <1>2. ASSUME NEW r \in Requests, Finish(r)
        PROVE  Pulls'
    BY <1>2, DropPulls DEF Finish
  <1>3. ASSUME NEW r \in Requests, Disconnect(r)
        PROVE  Pulls'
    <2>1. CASE stage[r] = "stream"
      BY <1>3, <2>1, DropPulls DEF Disconnect
    <2>2. CASE stage[r] # "stream"
      <3>1. UNCHANGED <<len, save, pulled, bytesDown>>
        BY <1>3, <2>2, Zenon DEF Disconnect
      <3> QED BY <3>1, PullsFrame
    <2> QED BY <2>1, <2>2
  <1>4. ASSUME NEW r \in Requests,
               SaveBegins(r) \/ SaveLost(r) \/ SaveEnds(r) \/ SaveFails(r)
        PROVE  Pulls'
    <2>1. UNCHANGED <<len, pulled, bytesDown>>
      BY <1>4, TaskOnly DEF requests
    <2> QED BY <1>4, <2>1, TaskStays, PullsFrame
  <1>5. CASE UNCHANGED <<requests, save>>
    BY <1>5, PullsFrame DEF requests
  <1> QED BY <1>1, <1>2, <1>3, <1>4, <1>5, ChunkPulls, CacheOnly
          DEF Next, Handle

\* A HIT stays one.
LEMMA HitsStay ==
  ASSUME TypeInv, [Next]_vars
  PROVE  With({"hit"}) \subseteq With({"hit"})'
  <1>1. ASSUME NEW r \in Requests, answer[r] = "hit"
        PROVE  answer'[r] = "hit"
    <2>1. stage[r] = "done"
      BY <1>1, NoneAssumption DEF TypeInv, Staged, Outcomes
    <2> QED BY <1>1, <2>1, DoneStays
  <1> QED BY <1>1 DEF With

\* What is sent is what is downloaded, and what HITs add.
LEMMA NextUps == TypeInv /\ Ups /\ [Next]_vars => Ups'
  <1> SUFFICES ASSUME TypeInv, Ups, [Next]_vars PROVE Ups'
    OBVIOUS
  <1>0. bytesUp \in Nat /\ bytesDown \in Nat
    BY DEF TypeInv, TypeOK, RequestsTyped, Counters
  <1>1. ASSUME NEW n \in Nat, bytesUp' = bytesUp + n, bytesDown' = bytesDown + n
        PROVE  Ups'
    BY <1>0, <1>1, HitsStay DEF Ups
  <1>2. ASSUME UNCHANGED <<bytesUp, bytesDown>>  PROVE Ups'
    BY <1>0, <1>1, <1>2
  <1>3. ASSUME NEW r \in Requests, DropStream(r)  PROVE Ups'
    <2>1. len[r] \in Nat
      BY ChunksAssumption DEF TypeInv, TypeOK, RequestsTyped, Length
    <2>2. \/ UNCHANGED <<bytesUp, bytesDown>>
          \/ bytesUp' = bytesUp + len[r] /\ bytesDown' = bytesDown + len[r]
      BY <1>3, Zenon DEF DropStream
    <2> QED BY <1>1, <1>2, <2>1, <2>2
  <1>4. ASSUME NEW r \in Requests,
               \/ Reject(r) \/ \E k \in Keys : Accept(r, k)
               \/ LoadMiss(r) \/ PollFails(r) \/ Wake(r) \/ PollRefused(r)
               \/ PollOk(r) \/ Chunk(r) \/ StreamError(r) \/ StreamEnd(r)
        PROVE  UNCHANGED <<bytesUp, bytesDown>>
    BY <1>4, Zenon DEF Reject, Accept, LoadMiss, PollFails, Wake, PollRefused,
                PollOk, Chunk, StreamError, StreamEnd, counters
  <1>5. ASSUME NEW r \in Requests, LoadHit(r)  PROVE Ups'
    <2>1. stage[r] = "load" /\ loads[r].bytes # None /\ loads[r] # None
      BY <1>5 DEF LoadHit, Found, Returns, Cache!Answer
    <2>2. loads[r].bytes \in Nat
      <3>1. loads[r] \in Cache!LoadOp
        BY <2>1 DEF TypeInv, TypeOK, Cache!TypeOK
      <3> QED BY <2>1, <3>1, ChunksAssumption DEF Cache!LoadOp, Length
    <2>3. CASE UNCHANGED <<bytesUp, bytesDown>>
      BY <1>2, <2>3
    <2>4. CASE /\ Done(r, "hit") /\ bytesUp' = bytesUp + loads[r].bytes
               /\ UNCHANGED bytesDown
      <3>1. answer'[r] = "hit"
        BY <2>4 DEF Done, TypeInv, TypeOK, RequestsTyped
      <3>2. With({"hit"})' # {}
        BY <3>1 DEF With
      <3> QED BY <1>0, <2>2, <2>4, <3>2 DEF Ups
    <2> QED BY <1>5, <2>3, <2>4, Zenon DEF LoadHit
  <1>6. ASSUME NEW r \in Requests, Finish(r) \/ Disconnect(r)
        PROVE  DropStream(r) \/ UNCHANGED <<bytesUp, bytesDown>>
    BY <1>6, Zenon DEF Finish, Disconnect
  <1>7. CASE UNCHANGED requests
    BY <1>2, <1>7 DEF requests
  <1> QED BY <1>2, <1>3, <1>4, <1>5, <1>6, <1>7, CacheOnly, TaskOnly
          DEF Next, Handle

\* No byte is counted as downloaded that did not come, and what is counted as
\* sent beyond the downloads came out of the cache.
THEOREM BalanceCorrect == Spec => []BytesBalance
  <1>1. Init => Pulls /\ Ups
    <2> SUFFICES ASSUME Init PROVE Pulls /\ Ups
      OBVIOUS
    <2>1. Come = {}
      BY DEF Init, Come, Pairs
    <2>2. Down = {}
      BY <2>1 DEF Down
    <2>3. pulled = 0 /\ bytesDown = 0 /\ bytesUp = 0
      BY DEF Init
    <2> QED BY <2>1, <2>2, <2>3, FS_EmptySet DEF Pulls, Ups
  <1>2. Pulls /\ Ups => BytesBalance
    BY PairsFinite DEF Pulls, Ups, BytesBalance
  <1>3. TypeInv /\ Pulls /\ Ups /\ [Next]_vars => TypeInv' /\ Pulls' /\ Ups'
    BY NextType, NextPulls, NextUps
  <1> QED BY <1>1, <1>2, <1>3, InitType, PTL DEF Spec

-----------------------------------------------------------------------------
(***************************************************************************)
(* RequestsAdvance: every request has but so many steps before it.         *)
(***************************************************************************)
\* What is left to do is a natural number.
LEMMA WorkType ==
  ASSUME NEW r \in Requests
  PROVE  /\ TypeInv => Work(r) \in Nat
         /\ TypeInv' => Work(r)' \in Nat
  <1> USE RetryAssumption, ChunksAssumption
  <1>1. ASSUME TypeInv  PROVE Work(r) \in Nat
    <2>1. /\ stage[r] \in {"load", "poll", "sleep", "stream", "new", "done"}
          /\ tries[r] \in 0 .. Retry /\ len[r] \in 0 .. Chunks
      BY <1>1 DEF TypeInv, TypeOK, RequestsTyped, Active, Length
    <2> QED BY <2>1 DEF Work
  <1>2. ASSUME TypeInv'  PROVE Work(r)' \in Nat
    <2>1. /\ stage'[r] \in {"load", "poll", "sleep", "stream", "new", "done"}
          /\ tries'[r] \in 0 .. Retry /\ len'[r] \in 0 .. Chunks
      BY <1>2 DEF TypeInv, TypeOK, RequestsTyped, Active, Length
    <2> QED BY <2>1 DEF Work
  <1> QED BY <1>1, <1>2

\* It depends on the request's own state only.
LEMMA WorkFrame ==
  ASSUME NEW r \in Requests,
         stage'[r] = stage[r], tries'[r] = tries[r], body'[r] = body[r],
         len'[r] = len[r], save'[r] = save[r]
  PROVE  Work(r)' = Work(r)
  BY Zenon DEF Work

\* A step of one request leaves the others where they are.
LEMMA OthersStay ==
  ASSUME TypeInv, NEW r \in Requests, NEW q \in Requests, q # r,
         \/ Reject(r) \/ \E k \in Keys : Accept(r, k)
         \/ Find(r) \/ Handle(r) \/ Disconnect(r)
         \/ SaveBegins(r) \/ SaveLost(r) \/ SaveEnds(r) \/ SaveFails(r)
  PROVE  Work(q)' = Work(q)
  <1> USE DEF TypeInv, TypeOK, RequestsTyped, Done, stream, requests
  <1>1. CASE Reject(r) \/ (\E k \in Keys : Accept(r, k)) \/ Find(r)
    BY <1>1, WorkFrame DEF Reject, Accept, Find
  <1>2. CASE LoadHit(r) \/ LoadMiss(r)
    BY <1>2, WorkFrame DEF LoadHit, LoadMiss
  <1>3. CASE PollFails(r)
    <2>1. stage'[q] = stage[q] /\ tries'[q] = tries[q]
      BY <1>3 DEF PollFails
    <2> QED BY <1>3, <2>1, WorkFrame DEF PollFails
  <1>4. CASE Wake(r) \/ PollRefused(r) \/ PollOk(r)
    BY <1>4, WorkFrame DEF Wake, PollRefused, PollOk
  <1>5. CASE Chunk(r) \/ StreamError(r) \/ StreamEnd(r)
    BY <1>5, WorkFrame DEF Chunk, StreamError, StreamEnd
  <1>6. CASE Finish(r) \/ Disconnect(r)
    <2>1. stage'[q] = stage[q]
      BY <1>6 DEF Finish, Disconnect
    <2>2. save'[q] = save[q]
      BY <1>6 DEF Finish, Disconnect, DropStream
    <2> QED BY <1>6, <2>1, <2>2, WorkFrame DEF Finish, Disconnect
  <1>7. CASE SaveBegins(r) \/ SaveLost(r) \/ SaveEnds(r) \/ SaveFails(r)
    BY <1>7, WorkFrame DEF SaveBegins, SaveLost, SaveEnds, SaveFails
  <1> QED BY <1>1, <1>2, <1>3, <1>4, <1>5, <1>6, <1>7 DEF Handle

\* A handler that polls upstream has failures left, so that its polls end.
LEMMA HandlerAdvances ==
  ASSUME TypeInv, NEW r \in Requests,
         \/ \E k \in Keys : Accept(r, k)
         \/ LoadHit(r) \/ LoadMiss(r) \/ Reject(r)
         \/ PollFails(r) \/ Wake(r) \/ PollRefused(r) \/ PollOk(r)
  PROVE  Work(r)' < Work(r)
  <1> USE RetryAssumption, ChunksAssumption
  <1>1. /\ tries[r] \in 0 .. Retry /\ len[r] \in 0 .. Chunks
        /\ stage[r] \in {"new", "load", "poll", "sleep"} => tries[r] < Retry
        /\ r \in DOMAIN stage /\ r \in DOMAIN tries /\ r \in DOMAIN save
    BY DEF TypeInv, TypeOK, RequestsTyped, Staged, Length
  <1>2. CASE \E k \in Keys : Accept(r, k)
    <2>1. stage[r] = "new" /\ stage'[r] = "load"
      BY <1>1, <1>2 DEF Accept
    <2> QED BY <2>1 DEF Work
  <1>3. CASE LoadMiss(r)
    <2>1. stage[r] = "load" /\ stage'[r] = "poll" /\ tries' = tries
      BY <1>1, <1>3 DEF LoadMiss
    <2> QED BY <1>1, <2>1 DEF Work
  <1>4. CASE LoadHit(r) \/ PollRefused(r) \/ Reject(r)
    <2>1. /\ stage[r] \in {"new", "load", "poll"} /\ stage'[r] = "done"
          /\ save' = save
      BY <1>1, <1>4 DEF LoadHit, PollRefused, Reject, Found, Done
    <2>2. Work(r)' <= 2
      BY <2>1 DEF Work
    <2>3. Work(r) >= 3 /\ Work(r) \in Nat
      BY <1>1, <2>1, WorkType DEF Work
    <2>4. Work(r)' \in {0, 1, 2}
      BY <2>1 DEF Work
    <2> QED BY <2>2, <2>3, <2>4
  <1>5. CASE PollFails(r)
    <2>1. stage[r] = "poll" /\ tries'[r] = tries[r] + 1
      BY <1>1, <1>5 DEF PollFails
    <2>2. CASE tries[r] + 1 >= Retry
      <3>1. stage'[r] = "done" /\ save' = save
        BY <1>1, <1>5, <2>2 DEF PollFails, Done
      <3>2. Work(r)' \in {0, 1, 2}
        BY <3>1 DEF Work
      <3>3. Work(r) >= 3
        BY <1>1, <2>1 DEF Work
      <3> QED BY <3>2, <3>3, WorkType
    <2>3. CASE ~(tries[r] + 1 >= Retry)
      <3>1. stage'[r] = "sleep"
        BY <1>1, <1>5, <2>3 DEF PollFails
      <3> QED BY <1>1, <2>1, <3>1 DEF Work
    <2> QED BY <2>2, <2>3
  <1>6. CASE Wake(r)
    <2>1. stage[r] = "sleep" /\ stage'[r] = "poll" /\ tries' = tries
      BY <1>1, <1>6 DEF Wake
    <2> QED BY <1>1, <2>1 DEF Work
  <1>7. CASE PollOk(r)
    <2>1. stage[r] = "poll" /\ stage'[r] = "stream" /\ len' = len
      BY <1>1, <1>7 DEF PollOk
    <2> QED BY <1>1, <2>1 DEF Work
  <1> QED BY <1>2, <1>3, <1>4, <1>5, <1>6, <1>7

\* A stream has its chunks and its end before it, and whatever drops it leaves
\* a save at most.
LEMMA StreamAdvances ==
  ASSUME TypeInv, NEW r \in Requests,
         \/ Chunk(r) \/ StreamError(r) \/ StreamEnd(r) \/ Finish(r)
         \/ Disconnect(r)
  PROVE  Work(r)' < Work(r)
  <1> USE RetryAssumption, ChunksAssumption
  <1>1. /\ tries[r] \in 0 .. Retry /\ len[r] \in 0 .. Chunks
        /\ r \in DOMAIN stage /\ r \in DOMAIN len /\ r \in DOMAIN body
        /\ stage[r] \in Active \cup {"new", "done"}
    BY DEF TypeInv, TypeOK, RequestsTyped, Length
  <1>2. CASE Chunk(r)
    <2>1. /\ stage[r] = "stream" /\ body[r] = "open" /\ len[r] < Chunks
          /\ stage' = stage /\ body' = body /\ len'[r] = len[r] + 1
      BY <1>1, <1>2 DEF Chunk, Streaming
    <2> QED BY <1>1, <2>1 DEF Work
  <1>3. CASE StreamError(r) \/ StreamEnd(r)
    <2>1. /\ stage[r] = "stream" /\ body[r] = "open"
          /\ stage' = stage /\ body'[r] # "open"
      BY <1>1, <1>3 DEF StreamError, StreamEnd, Streaming
    <2> QED BY <1>1, <2>1 DEF Work
  <1>4. CASE Finish(r) \/ Disconnect(r)
    <2>1. stage[r] \in Active /\ stage'[r] = "done"
      BY <1>1, <1>4 DEF Finish, Disconnect, Done, Active
    <2>2. Work(r)' \in {0, 1, 2}
      BY <2>1 DEF Work
    <2>3. Work(r) >= 3
      BY <1>1, <2>1 DEF Work, Active
    <2> QED BY <2>2, <2>3, WorkType
  <1> QED BY <1>2, <1>3, <1>4

\* The task that saves the image runs once; a failure of the cache may end it.
LEMMA TaskAdvances ==
  ASSUME TypeInv, NEW r \in Requests
  PROVE  /\ SaveBegins(r) \/ SaveLost(r) \/ SaveEnds(r) => Work(r)' < Work(r)
         /\ SaveFails(r) => Work(r)' <= Work(r)
  <1>1. /\ save[r] # None => stage[r] = "done"
        /\ saves[r] # None => save[r] = "running"
        /\ r \in DOMAIN save
    BY DEF TypeInv, TypeOK, RequestsTyped, Staged, Calling
  <1>2. "queued" # None /\ "running" # None /\ "over" # None
    BY NoneAssumption DEF SaveTask
  <1>3. ASSUME SaveBegins(r)  PROVE Work(r)' < Work(r)
    <2>1. /\ save[r] = "queued" /\ save'[r] = "running"
          /\ stage[r] = "done" /\ stage'[r] = "done"
      BY <1>1, <1>2, <1>3 DEF SaveBegins, requests
    <2> QED BY <2>1 DEF Work
  <1>4. ASSUME SaveLost(r)  PROVE Work(r)' < Work(r)
    <2>1. /\ save[r] = "queued" /\ save'[r] = "over"
          /\ stage[r] = "done" /\ stage'[r] = "done"
      BY <1>1, <1>2, <1>4 DEF SaveLost, requests
    <2> QED BY <2>1 DEF Work
  <1>5. ASSUME SaveEnds(r)  PROVE Work(r)' < Work(r)
    <2>1. /\ save[r] = "running" /\ save'[r] = "over"
          /\ stage[r] = "done" /\ stage'[r] = "done"
      BY <1>1, <1>2, <1>5 DEF SaveEnds, Cache!Saved, requests
    <2> QED BY <2>1 DEF Work
  <1>6. ASSUME SaveFails(r)  PROVE Work(r)' <= Work(r)
    <2>1. /\ save[r] = "running" /\ save'[r] \in {"over", "running"}
          /\ stage[r] = "done" /\ stage'[r] = "done"
      BY <1>1, <1>2, <1>6 DEF SaveFails, Cache!Fail, requests
    <2> QED BY <2>1 DEF Work
  <1> QED BY <1>3, <1>4, <1>5, <1>6

\* Every accepted request settles: each step of its own decreases a natural
\* number that no other step increases, so that it takes 2 * Retry + Chunks + 6
\* of them at most.
THEOREM RequestsAdvanceCorrect == Spec => RequestsAdvance
  <1>1. ASSUME TypeInv, [Next]_vars, NEW r \in Requests
        PROVE  /\ Handle(r) \/ Disconnect(r) \/ SaveBegins(r) \/ SaveLost(r)
                     \/ SaveEnds(r) => Work(r)' < Work(r)
               /\ Work(r)' <= Work(r)
    <2>1. Work(r) \in Nat /\ Work(r)' \in Nat
      <3>1. TypeInv'
        BY <1>1, NextType
      <3> QED BY <1>1, <3>1, WorkType
    <2>2. Handle(r) \/ Disconnect(r) \/ SaveBegins(r) \/ SaveLost(r)
            \/ SaveEnds(r) => Work(r)' < Work(r)
      BY <1>1, HandlerAdvances, StreamAdvances, TaskAdvances DEF Handle
    <2>3. Reject(r) \/ (\E k \in Keys : Accept(r, k)) => Work(r)' < Work(r)
      BY <1>1, HandlerAdvances
    <2>4. Find(r) \/ Shrink \/ UNCHANGED vars => Work(r)' = Work(r)
      BY WorkFrame DEF Find, Shrink, vars, requests, stream
    <2>5. SaveFails(r) => Work(r)' <= Work(r)
      BY <1>1, TaskAdvances
    <2>6. ASSUME NEW q \in Requests, q # r,
                 \/ Reject(q) \/ \E k \in Keys : Accept(q, k)
                 \/ Find(q) \/ Handle(q) \/ Disconnect(q)
                 \/ SaveBegins(q) \/ SaveLost(q) \/ SaveEnds(q) \/ SaveFails(q)
          PROVE  Work(r)' = Work(r)
      BY <1>1, <2>6, OthersStay
    <2>7. Work(r)' <= Work(r)
      BY <1>1, <2>1, <2>2, <2>3, <2>4, <2>5, <2>6 DEF Next
    <2> QED BY <2>2, <2>7
  <1>2. Spec => []TypeInv
    BY InitType, NextType, PTL DEF Spec
  <1>3. TypeInv /\ [Next]_vars =>
          [\A r \in Requests :
             /\ Handle(r) \/ Disconnect(r) \/ SaveBegins(r) \/ SaveLost(r)
                  \/ SaveEnds(r) => Work(r)' < Work(r)
             /\ Work(r)' <= Work(r)]_vars
    BY <1>1
  <1> QED BY <1>2, <1>3, PTL DEF Spec, RequestsAdvance

=============================================================================
