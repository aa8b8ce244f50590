---------------------------- MODULE ImageRequests ----------------------------
(***************************************************************************)
(* The path of a request for an image: md_service (src/http/mod.rs), the   *)
(* cache responder (src/http/handler.rs) and the stream that proxies a     *)
(* MISS (src/http/chunked.rs).  Requests run concurrently on the workers   *)
(* of the server and share the cache, the request counter and the metrics. *)
(*                                                                         *)
(* An image is the sequence of the chunks upstream sends for its key; what *)
(* is streamed or cached of it is a prefix, represented by its length.     *)
(*                                                                         *)
(* The cache is an engine that keeps the promise of ImageCache: loads and  *)
(* saves take time, overlap and fail, and images vanish.  A request is its *)
(* own loader and its own saver.                                           *)
(*                                                                         *)
(* The connection of a request may end at any moment, because the client   *)
(* leaves or because the server is stopped by force for a new certificate: *)
(* actix then drops the handler's future or the response body.             *)
(***************************************************************************)
EXTENDS Integers, FiniteSets

CONSTANTS
  Requests,  \* requests that may arrive
  Keys,      \* image keys
  Chunks,    \* chunks of a whole image
  Retry,     \* the `retry` of start_poll_upstream_retry (3 in the code)
  MaxErrors, \* bound: failures of the cache
  None       \* absence of a value

Length == 0 .. Chunks
Active == {"load", "poll", "sleep", "stream"}
Agg == {"Stable", "Taken", "Poisoned"}
SaveTask == {"queued", "running", "over"}
Outcomes == {"rejected", "hit", "not modified", "not found", "bad gateway",
             "streamed", "broken", "cut", "cancelled"}

\* What the answer to a HIT says of the image: its body, None in a 304, and the
\* ETag, which is the checksum the cache has stored.
Reply == [bytes : Length \cup {None}, etag : Length]

ASSUME ChunksAssumption == Chunks \in Nat \ {0}
ASSUME RetryAssumption == Retry \in Nat \ {0}
ASSUME RequestsAssumption == IsFiniteSet(Requests)
ASSUME MaxErrorsAssumption == MaxErrors \in Nat
ASSUME NoneAssumption ==
  /\ None \notin Keys \cup Length \cup Reply
  /\ None \notin [key : Keys, content : Length, lone : BOOLEAN]
               \cup [key : Keys, bytes : Length \cup {None},
                     sum : Length \cup {None}]
  /\ None \notin Agg \cup SaveTask \cup Outcomes

VARIABLES
  held,      \* the cache: the images of a key that a load may find
  saves,     \* the call of save that the task of a request has under way
  loads,     \* the call of load that a request awaits
  errors,    \* failures of the cache
  stage,     \* "new", where the handler or the stream is, or "done"
  key,       \* the image key of an accepted request
  tries,     \* `count` of start_poll_upstream_retry
  agg,       \* BytesAgg: "Stable", "Taken" or "Poisoned"; None before
  len,       \* length of the aggregator's bytes
  body,      \* what poll_next last said: "open", "ended" or "failed"
  save,      \* the task spawned by Drop: None, "queued", "running" or "over"
  answer,    \* what became of the request, None while it is under way
  served,    \* the answer to a HIT
  counter,   \* request_counter
  hits, misses, failed, dropped, \* *_requests_total
  bytesDown, bytesUp,            \* bytes_*_total
  pulled     \* history: chunks received from upstream

calls == <<held, saves, loads, errors>>
counters == <<counter, hits, misses, failed, dropped, bytesDown, bytesUp>>
stream == <<agg, len, body>>
vars == <<held, saves, loads, errors, stage, key, tries, agg, len, body, save,
          answer, served, counter, hits, misses, failed, dropped, bytesDown,
          bytesUp, pulled>>

Cache == INSTANCE ImageCache WITH Contents <- Length, Savers <- Requests,
                                  Loaders <- Requests

-----------------------------------------------------------------------------
Init ==
  /\ Cache!Init /\ held = [k \in Keys |-> {}]
  /\ stage = [r \in Requests |-> "new"]
  /\ key = [r \in Requests |-> None]
  /\ tries = [r \in Requests |-> 0]
  /\ agg = [r \in Requests |-> None]
  /\ len = [r \in Requests |-> 0]
  /\ body = [r \in Requests |-> "open"]
  /\ save = [r \in Requests |-> None]
  /\ answer = [r \in Requests |-> None]
  /\ served = [r \in Requests |-> None]
  /\ counter = 0 /\ hits = 0 /\ misses = 0 /\ failed = 0 /\ dropped = 0
  /\ bytesDown = 0 /\ bytesUp = 0 /\ pulled = 0

\* The request is over, with outcome a.
Done(r, a) == /\ stage' = [stage EXCEPT ![r] = "done"]
              /\ answer' = [answer EXCEPT ![r] = a]

-----------------------------------------------------------------------------
(***************************************************************************)
(* md_service: a bad archive type, a token that does not verify or a       *)
(* missing token turns the request away; the counter that the shutdown     *)
(* watches counts the others only.                                         *)
(***************************************************************************)
Reject(r) ==
  /\ stage[r] = "new"
  /\ dropped' = dropped + 1
  /\ Done(r, "rejected")
  /\ UNCHANGED <<calls, key, tries, stream, save, served, counter, hits,
                 misses, failed, bytesDown, bytesUp, pulled>>

Accept(r, k) ==
  /\ stage[r] = "new"
  /\ counter' = counter + 1
  /\ key' = [key EXCEPT ![r] = k]
  /\ stage' = [stage EXCEPT ![r] = "load"]
  /\ Cache!Load(r, k)
  /\ UNCHANGED <<tries, stream, save, answer, served, hits, misses, failed,
                 dropped, bytesDown, bytesUp, pulled>>

\* The engine reads the image and its checksum, in one access or in two.
Find(r) ==
  /\ Cache!Find(r)
  /\ UNCHANGED <<stage, key, tries, stream, save, answer, served, counters,
                 pulled>>

\* load returns, or its caller is dropped.
Returns(r) == Cache!Answer(r) /\ errors' <= MaxErrors

\* An entry takes both.
Found(r) == stage[r] = "load" /\ loads[r].bytes # None /\ loads[r].sum # None

\* Mutant: an image the browser already has is counted as sent.
LoadHitCountsUnsent(r) ==
  /\ Found(r) /\ Returns(r)
  /\ hits' = hits + 1
  /\ bytesUp' = bytesUp + loads[r].bytes
  /\ \E sent \in {loads[r].bytes, None} :
       /\ Done(r, IF sent = None THEN "not modified" ELSE "hit")
       /\ served' = [served EXCEPT ![r] = [bytes |-> sent, etag |-> loads[r].sum]]
  /\ UNCHANGED <<key, tries, stream, save, counter, misses, failed, dropped,
                 bytesDown, pulled>>

(***************************************************************************)
(* response_from_cache.  A HIT is answered and counted at once, with the   *)
(* image or, if the browser says it has the one of the ETag, with a 304; a *)
(* failed load is a MISS.                                                  *)
(***************************************************************************)
LoadHit(r) ==
  /\ Found(r) /\ Returns(r)
  /\ hits' = hits + 1
  /\ \/ /\ Done(r, "hit") /\ bytesUp' = bytesUp + loads[r].bytes
        /\ served' = [served EXCEPT ![r] = [bytes |-> loads[r].bytes,
                                            etag |-> loads[r].sum]]
     \/ /\ Done(r, "not modified") /\ UNCHANGED bytesUp
        /\ served' = [served EXCEPT ![r] = [bytes |-> None,
                                            etag |-> loads[r].sum]]
  /\ UNCHANGED <<key, tries, stream, save, counter, misses, failed, dropped,
                 bytesDown, pulled>>

LoadMiss(r) ==
  /\ stage[r] = "load" /\ Returns(r)
  /\ stage' = [stage EXCEPT ![r] = "poll"]
  /\ UNCHANGED <<key, tries, stream, save, answer, served, counters,
                 pulled>>

\* Mutant: the retry limit is compared before the failure is counted.
PollFailsOnceMore(r) ==
  /\ stage[r] = "poll"
  /\ tries' = [tries EXCEPT ![r] = @ + 1]
  /\ IF tries[r] >= Retry
       THEN failed' = failed + 1 /\ Done(r, "bad gateway")
       ELSE stage' = [stage EXCEPT ![r] = "sleep"] /\ UNCHANGED <<failed, answer>>
  /\ UNCHANGED <<calls, key, stream, save, served, counter, hits, misses,
                 dropped, bytesDown, bytesUp, pulled>>

\* Mutant: failures are not counted, so that every one of them is retried.
PollFailsForever(r) ==
  /\ stage[r] = "poll"
  /\ stage' = [stage EXCEPT ![r] = "sleep"]
  /\ UNCHANGED <<calls, key, tries, stream, save, answer, served, counters,
                 pulled>>

(***************************************************************************)
(* start_poll_upstream_retry and handle_cache_miss.  Only a request that   *)
(* got no response is retried; whatever the status, a response is final.   *)
(***************************************************************************)
PollFails(r) ==
  /\ stage[r] = "poll"
  /\ tries' = [tries EXCEPT ![r] = @ + 1]
  /\ IF tries[r] + 1 >= Retry
       THEN failed' = failed + 1 /\ Done(r, "bad gateway")
       ELSE stage' = [stage EXCEPT ![r] = "sleep"] /\ UNCHANGED <<failed, answer>>
  /\ UNCHANGED <<calls, key, stream, save, served, counter, hits, misses,
                 dropped, bytesDown, bytesUp, pulled>>

Wake(r) ==
  /\ stage[r] = "sleep"
  /\ stage' = [stage EXCEPT ![r] = "poll"]
  /\ UNCHANGED <<calls, key, tries, stream, save, answer, served, counters,
                 pulled>>

\* Upstream answers with another status than 200.
PollRefused(r) ==
  /\ stage[r] = "poll"
  /\ \/ Done(r, "not found") /\ UNCHANGED failed
     \/ Done(r, "bad gateway") /\ failed' = failed + 1
  /\ UNCHANGED <<calls, key, tries, stream, save, served, counter, hits,
                 misses, dropped, bytesDown, bytesUp, pulled>>

\* 200 OK: the body of the response is a ChunkedUpstreamPoll.
PollOk(r) ==
  /\ stage[r] = "poll"
  /\ stage' = [stage EXCEPT ![r] = "stream"]
  /\ agg' = [agg EXCEPT ![r] = "Stable"]
  /\ UNCHANGED <<calls, key, tries, len, body, save, answer, served, counters,
                 pulled>>

-----------------------------------------------------------------------------
(***************************************************************************)
(* ChunkedUpstreamPoll: poll_next, which actix calls until it returns an   *)
(* error or the end, and Drop.                                             *)
(***************************************************************************)
Streaming(r) == stage[r] = "stream" /\ body[r] = "open"

Chunk(r) ==
  /\ Streaming(r) /\ len[r] < Chunks
  /\ len' = [len EXCEPT ![r] = @ + 1]
  /\ pulled' = pulled + 1
  /\ UNCHANGED <<calls, stage, key, tries, agg, body, save, answer, served,
                 counters>>

\* Mutant: an upstream error is reported, but the bytes stay with the stream.
StreamErrorKeepsBytes(r) ==
  /\ Streaming(r)
  /\ body' = [body EXCEPT ![r] = "failed"]
  /\ UNCHANGED <<calls, stage, key, tries, agg, len, save, answer, served,
                 counters, pulled>>

\* The connection to upstream breaks, or its 300 seconds are over.
StreamError(r) ==
  /\ Streaming(r)
  /\ agg' = [agg EXCEPT ![r] = "Poisoned"]
  /\ body' = [body EXCEPT ![r] = "failed"]
  /\ UNCHANGED <<calls, stage, key, tries, len, save, answer, served, counters,
                 pulled>>

\* The body ends.  poll_next takes any end as that of the image and compares no
\* length: upstream may have closed the body short of it without an error.
StreamEnd(r) ==
  /\ Streaming(r)
  /\ body' = [body EXCEPT ![r] = "ended"]
  /\ UNCHANGED <<calls, stage, key, tries, agg, len, save, answer, served,
                 counters, pulled>>

\* Mutant: the aggregator is taken before it is asked whether it was poisoned.
DropStreamUncounted(r) ==
  IF agg[r] = "Stable"
    THEN /\ agg' = [agg EXCEPT ![r] = "Taken"]
         /\ save' = [save EXCEPT ![r] = "queued"]
         /\ misses' = misses + 1
         /\ bytesDown' = bytesDown + len[r] /\ bytesUp' = bytesUp + len[r]
         /\ UNCHANGED failed
    ELSE UNCHANGED <<agg, save, misses, failed, bytesDown, bytesUp>>

\* Drop takes the aggregator: bytes it yields are saved by a spawned task and
\* counted as a MISS, a poisoned one counts as a failure.
DropStream(r) ==
  IF agg[r] = "Stable"
    THEN /\ agg' = [agg EXCEPT ![r] = "Taken"]
         /\ save' = [save EXCEPT ![r] = "queued"]
         /\ misses' = misses + 1
         /\ bytesDown' = bytesDown + len[r] /\ bytesUp' = bytesUp + len[r]
         /\ UNCHANGED failed
    ELSE /\ failed' = IF agg[r] = "Poisoned" THEN failed + 1 ELSE failed
         /\ UNCHANGED <<agg, save, misses, bytesDown, bytesUp>>

\* actix is done with the body.
Finish(r) ==
  /\ stage[r] = "stream" /\ body[r] # "open"
  /\ DropStream(r)
  /\ Done(r, IF body[r] = "ended" THEN "streamed" ELSE "broken")
  /\ UNCHANGED <<calls, key, tries, len, body, served, counter, hits, dropped,
                 pulled>>

\* The connection ends while the handler is at an await, or during the body.
Disconnect(r) ==
  /\ stage[r] \in Active
  /\ IF stage[r] = "load" THEN Returns(r) ELSE UNCHANGED calls
  /\ IF stage[r] = "stream"
       THEN DropStream(r) /\ Done(r, "cut")
       ELSE /\ Done(r, "cancelled")
            /\ UNCHANGED <<agg, save, failed, misses, bytesDown, bytesUp>>
  /\ UNCHANGED <<key, tries, len, body, served, counter, hits, dropped, pulled>>

-----------------------------------------------------------------------------
(***************************************************************************)
(* The task that Drop spawns, and what becomes of the cache meanwhile.     *)
(***************************************************************************)
requests == <<stage, key, tries, agg, len, body, answer, served, counter, hits,
              misses, failed, dropped, bytesDown, bytesUp, pulled>>

SaveBegins(r) ==
  /\ save[r] = "queued"
  /\ save' = [save EXCEPT ![r] = "running"]
  /\ Cache!Save(r, key[r], len[r])
  /\ UNCHANGED requests

\* The worker is stopped before it runs the task.
SaveLost(r) ==
  /\ save[r] = "queued"
  /\ save' = [save EXCEPT ![r] = "over"]
  /\ UNCHANGED <<calls, requests>>

SaveEnds(r) ==
  /\ Cache!Saved(r)
  /\ save' = [save EXCEPT ![r] = "over"]
  /\ UNCHANGED requests

\* The engine fails; what the save has begun may go on.
SaveFails(r) ==
  /\ Cache!Fail(r) /\ errors' <= MaxErrors
  /\ save' = [save EXCEPT ![r] = IF saves'[r] = None THEN "over" ELSE @]
  /\ UNCHANGED requests

\* The main thread shrinks the cache, or the engine loses images by itself.
Shrink ==
  /\ Cache!Forget /\ errors' <= MaxErrors
  /\ UNCHANGED <<save, requests>>

-----------------------------------------------------------------------------
Handle(r) == \/ LoadHit(r) \/ LoadMiss(r)
             \/ PollFails(r) \/ Wake(r) \/ PollRefused(r) \/ PollOk(r)
             \/ Chunk(r) \/ StreamError(r) \/ StreamEnd(r) \/ Finish(r)

Next == \/ \E r \in Requests :
             \/ Reject(r) \/ \E k \in Keys : Accept(r, k)
             \/ Find(r) \/ Handle(r) \/ Disconnect(r)
             \/ SaveBegins(r) \/ SaveLost(r) \/ SaveEnds(r) \/ SaveFails(r)
        \/ Shrink

\* Workers run their handlers and tasks; upstream answers, sends the next chunk
\* or is timed out after 300 seconds; a client that stays reads what it is sent.
\* Clients need not arrive nor leave.
Fairness == \A r \in Requests :
              /\ WF_vars(Handle(r))
              /\ WF_vars(SaveBegins(r) \/ SaveLost(r)) /\ WF_vars(SaveEnds(r))

Spec == Init /\ [][Next]_vars /\ Fairness

-----------------------------------------------------------------------------
(***************************************************************************)
(* Properties.                                                             *)
(***************************************************************************)
Counters == {counter, hits, misses, failed, dropped, bytesDown, bytesUp, pulled}

RequestsTyped ==
  /\ stage \in [Requests -> Active \cup {"new", "done"}]
  /\ key \in [Requests -> Keys \cup {None}]
  /\ tries \in [Requests -> 0 .. Retry]
  /\ agg \in [Requests -> Agg \cup {None}]
  /\ len \in [Requests -> Length]
  /\ body \in [Requests -> {"open", "ended", "failed"}]
  /\ save \in [Requests -> SaveTask \cup {None}]
  /\ answer \in [Requests -> Outcomes \cup {None}]
  /\ served \in [Requests -> Reply \cup {None}]
  /\ Counters \subseteq Nat

\* Type correctness of the handlers, streams, tasks and counters of src/http,
\* and of the calls they have the cache answer.
TypeOK == RequestsTyped /\ Cache!TypeOK /\ errors <= MaxErrors

\* The stream of r has ended, as poll_next sees it, without all of the image.
Short(r) == body[r] = "ended" /\ len[r] < Chunks

\* The keys of which some stream was dropped before its end, or came to an end
\* too early that upstream did not call an error.
CutKeys == {key[r] : r \in {q \in Requests : answer[q] = "cut" \/ Short(q)}}

\* chunked.rs, handler.rs: whatever upstream errors, retries, failed or lost
\* saves, overlapping misses, loads and evictions there were, an image is cached,
\* queued for saving, sent from the cache or named by an ETag in part only if a
\* stream of that very image was cut, by a disconnect or by an upstream that
\* ended the body short without an error.
WholeUnlessCut ==
  \A k \in Keys \ CutKeys :
    /\ held[k] \subseteq {Chunks}
    /\ \A r \in Requests : key[r] = k =>
         /\ save[r] = "queued" => len[r] = Chunks
         /\ served[r] # None => served[r].bytes \in {Chunks, None}
                                /\ served[r].etag = Chunks

\* poll_next and Drop: a stream that reported an upstream error never reaches
\* the cache, however it is dropped afterwards.
BrokenNeverSaved == \A r \in Requests : body[r] = "failed" => save[r] = None

With(outcomes) == {r \in Requests : answer[r] \in outcomes}

\* The metrics of http/mod.rs, handler.rs and chunked.rs: a request that is over
\* was counted once, by what became of it.  A 404 from upstream and a handler
\* dropped before it had a response are the two that no counter shows.
EachCountedOnce ==
  /\ dropped = Cardinality(With({"rejected"}))
  /\ hits = Cardinality(With({"hit", "not modified"}))
  /\ misses + failed = Cardinality(With({"bad gateway", "streamed", "broken",
                                         "cut"}))
  /\ misses = Cardinality({r \in Requests : save[r] # None})
  /\ counter = Cardinality({r \in Requests : key[r] # None})

\* chunked.rs, handler.rs: no byte is counted as downloaded that did not come,
\* and what is counted as sent beyond the downloads came out of the cache.
BytesBalance ==
  /\ bytesDown <= pulled
  /\ bytesUp >= bytesDown
  /\ With({"hit"}) = {} => bytesUp = bytesDown

\* handler.rs, chunked.rs: an accepted request comes to an end and its save is
\* settled, by the retry limit and the timeout of the upstream client.
RequestsSettle ==
  \A r \in Requests :
    stage[r] = "load" ~> (stage[r] = "done" /\ save[r] \in {None, "over"})

\* What an accepted request still has before it at most: polls and the sleeps
\* between them, chunks, the end of the body, and the task that saves it.
Work(r) ==
  CASE stage[r] = "new" -> 2 * Retry + Chunks + 6
    [] stage[r] = "load" -> 2 * Retry + Chunks + 5
    [] stage[r] = "sleep" -> 2 * (Retry - tries[r]) + Chunks + 5
    [] stage[r] = "poll" -> 2 * (Retry - tries[r]) + Chunks + 4
    [] stage[r] = "stream" -> IF body[r] = "open" THEN Chunks - len[r] + 4 ELSE 3
    [] stage[r] = "done" -> CASE save[r] = "queued" -> 2
                              [] save[r] = "running" -> 1
                              [] OTHER -> 0

\* Why an accepted request settles: each step of its handler, its stream or its
\* task, and a disconnect, brings it closer to the end, and no failure of the
\* cache, no eviction and no other request takes it farther.
RequestsAdvance ==
  [][\A r \in Requests :
       /\ Handle(r) \/ Disconnect(r) \/ SaveBegins(r) \/ SaveLost(r) \/ SaveEnds(r)
            => Work(r)' < Work(r)
       /\ Work(r)' <= Work(r)]_vars

\* What the doc of ChunkedUpstreamPoll (src/http/chunked.rs:72) promises: the
\* cache is saved to once the stream is completely done.
SavedIsWhole == \A k \in Keys : held[k] \subseteq {Chunks}

=============================================================================
