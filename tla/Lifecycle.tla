------------------------------ MODULE Lifecycle ------------------------------
(***************************************************************************)
(* The main thread of the client (src/main.rs: ping_backend, run and       *)
(* shutdown) with what it drives: the store of the last ping               *)
(* (src/backend.rs), the token verifier the workers use, and the HTTP      *)
(* server, which has to be stopped and spawned anew to change its          *)
(* certificate (HttpServerLifecycle in src/http/mod.rs).  The API of the   *)
(* network is external; it renews its certificate and its token key when   *)
(* it likes, and a ping or its answer may be lost.                         *)
(*                                                                         *)
(* A certificate is the number of its renewal (created_at).  Seconds are   *)
(* counted during the grace period only; the minutes between two pings are *)
(* a flag.  Of the request counter, shutdown asks only whether it moved.   *)
(***************************************************************************)
EXTENDS Integers

CONSTANTS
  TokenKeys,    \* token keys the API may hand out
  BadKeys,      \* those of them that push_key_b64 rejects
  Graces,       \* values max_grace_period may be configured to
  Sleep,        \* seconds between two looks at the counter (5 in the code)
  MaxInFlight,  \* bound: requests in flight at the same time
  MaxRenewals,  \* bound: renewals of the API's certificate and key
  None          \* absence of a value

ASSUME GracesAssumption == Graces \subseteq Int
ASSUME SleepAssumption == Sleep \in Nat \ {0}
ASSUME BoundsAssumption == MaxInFlight \in Nat /\ MaxRenewals \in Nat
ASSUME BadKeysAssumption == BadKeys \subseteq TokenKeys

Cert == 0 .. MaxRenewals
PingStore == [tls : Cert, key : TokenKeys]
Response == [tls : Cert \cup {None}, key : TokenKeys]

ASSUME NoneAssumption ==
  None \notin Cert /\ None \notin TokenKeys \cup PingStore \cup Response

VARIABLES
  pc,         \* where the main thread is
  kill,       \* KILL_FLAG
  due,        \* 60 seconds have passed since last_ping
  sent,       \* tls_created_at of the ping under way
  resp,       \* the response under way to the client, or being processed
  pingInfo,   \* Backend::ping_info
  verifier,   \* the key of GlobalState::verifier, None before the first
  crt,        \* the certificate run() holds
  server,     \* "none", "up", "draining" or "down"
  served,     \* the certificate the server was spawned with
  fresh,      \* request_counter has moved since shutdown last looked at it
  inFlight,   \* requests in flight
  grace,      \* max_grace_period: negative for none, 0 for no limit
  waited,     \* seconds of the grace period
  told,       \* the API was told to stop
  dying,      \* shutdown was called because no server could be created
  apiTls, apiKey, renewals, \* the API
  badKey      \* history: a malformed token key has been received

api == <<apiTls, apiKey, renewals>>
pingVars == <<due, sent, resp>>
serverVars == <<server, served, fresh, inFlight>>
endVars == <<grace, waited, told, dying>>
vars == <<pc, kill, due, sent, resp, pingInfo, verifier, crt, server, served,
          fresh, inFlight, grace, waited, told, dying, apiTls, apiKey, renewals,
          badKey>>

First == server = "none"
Ended == pc \in {"exited", "panicked"}

Init ==
  /\ pc = "ping" /\ kill = FALSE /\ due = FALSE
  /\ sent = None /\ resp = None
  /\ pingInfo = None /\ verifier = None /\ crt = None
  /\ server = "none" /\ served = None /\ fresh = FALSE /\ inFlight = 0
  /\ grace \in Graces /\ waited = 0 /\ told = FALSE /\ dying = FALSE
  /\ apiTls = 0 /\ apiKey \in TokenKeys \ BadKeys /\ renewals = 0
  /\ badKey = FALSE

-----------------------------------------------------------------------------
(***************************************************************************)
(* Around the main thread.                                                 *)
(***************************************************************************)
\* The API renews its certificate, its token key, or both.
ApiRenews ==
  /\ renewals < MaxRenewals /\ renewals' = renewals + 1
  /\ apiTls' \in {apiTls, renewals + 1}
  /\ apiKey' \in TokenKeys
  /\ UNCHANGED <<pc, kill, pingVars, pingInfo, verifier, crt, serverVars,
                 endVars, badKey>>

\* The API answers the ping; a certificate is sent unless the client has it.
ApiAnswers ==
  /\ pc = "ping" /\ resp = None
  /\ resp' = [tls |-> IF sent = apiTls THEN None ELSE apiTls, key |-> apiKey]
  /\ UNCHANGED <<pc, kill, due, sent, pingInfo, verifier, crt, serverVars,
                 endVars, api, badKey>>

\* The handler of CTRL+C runs on a thread of its own.
Kill ==
  /\ ~kill /\ kill' = TRUE
  /\ UNCHANGED <<pc, pingVars, pingInfo, verifier, crt, serverVars, endVars,
                 api, badKey>>

MinutePasses ==
  /\ ~due /\ ~Ended /\ ~First /\ due' = TRUE
  /\ UNCHANGED <<pc, kill, sent, resp, pingInfo, verifier, crt, serverVars,
                 endVars, api, badKey>>

\* md_service counts a request; it ends some time later.
Arrive ==
  /\ server = "up" /\ ~Ended /\ inFlight < MaxInFlight
  /\ inFlight' = inFlight + 1 /\ fresh' = TRUE
  /\ UNCHANGED <<pc, kill, pingVars, pingInfo, verifier, crt, server, served,
                 endVars, api, badKey>>

Depart ==
  /\ inFlight > 0 /\ ~Ended /\ inFlight' = inFlight - 1
  /\ UNCHANGED <<pc, kill, pingVars, pingInfo, verifier, crt, server, served,
                 fresh, endVars, api, badKey>>

-----------------------------------------------------------------------------
(***************************************************************************)
(* run: the loop, and in it (or before it) ping_backend.                   *)
(***************************************************************************)
\* What a failed ping means: the end of the program, or an error in the log.
PingErr == pc' = IF First THEN "panicked" ELSE "check"

CheckKill ==
  /\ pc = "check"
  /\ pc' = IF kill THEN "stop" ELSE "tick"
  /\ UNCHANGED <<kill, pingVars, pingInfo, verifier, crt, serverVars, endVars,
                 api, badKey>>

\* interval.tick, the test of last_ping and, after a ping, that of last_shrink:
\* try_shrink_db (module RocksCache) touches nothing here.
Tick ==
  /\ pc = "tick"
  /\ IF due THEN pc' = "ping" /\ due' = FALSE /\ sent' = pingInfo.tls
            ELSE pc' = "check" /\ UNCHANGED <<due, sent>>
  /\ resp' = None
  /\ UNCHANGED <<kill, pingInfo, verifier, crt, serverVars, endVars, api, badKey>>

\* No response within 60 seconds, a bad status or an undecodable body.
PingFails ==
  /\ pc = "ping"
  /\ PingErr /\ resp' = None
  /\ UNCHANGED <<kill, due, sent, pingInfo, verifier, crt, serverVars, endVars,
                 api, badKey>>

\* Mutant: a response without a certificate clears the one of the last ping.
PingOkForgetsTls ==
  /\ pc = "ping" /\ resp # None
  /\ pingInfo' = [tls |-> resp.tls, key |-> resp.key]
  /\ pc' = IF pingInfo = None \/ pingInfo.key # resp.key THEN "key" ELSE "cert"
  /\ UNCHANGED <<kill, pingVars, verifier, crt, serverVars, endVars, api, badKey>>

\* Mutant: the certificate of the last ping is preferred to that of the response.
PingOkKeepsTls ==
  /\ pc = "ping" /\ resp # None
  /\ pingInfo' = [tls |-> IF pingInfo # None THEN pingInfo.tls ELSE resp.tls,
                  key |-> resp.key]
  /\ pc' = IF pingInfo = None \/ pingInfo.key # resp.key THEN "key" ELSE "cert"
  /\ UNCHANGED <<kill, pingVars, verifier, crt, serverVars, endVars, api, badKey>>

\* Mutant: only the first key counts as a new one.
PingOkKeepsKey ==
  /\ pc = "ping" /\ resp # None
  /\ pingInfo' = [tls |-> IF resp.tls # None THEN resp.tls ELSE pingInfo.tls,
                  key |-> resp.key]
  /\ pc' = IF pingInfo = None THEN "key" ELSE "cert"
  /\ UNCHANGED <<kill, pingVars, verifier, crt, serverVars, endVars, api, badKey>>

\* update_from_response; ping returns the token key if it is a new one.
PingOk ==
  /\ pc = "ping" /\ resp # None
  /\ pingInfo' = [tls |-> IF resp.tls # None THEN resp.tls ELSE pingInfo.tls,
                  key |-> resp.key]
  /\ pc' = IF pingInfo = None \/ pingInfo.key # resp.key THEN "key" ELSE "cert"
  /\ UNCHANGED <<kill, pingVars, verifier, crt, serverVars, endVars, api, badKey>>

\* A malformed URL in the response panics in update_from_response.
PingPanics ==
  /\ pc = "ping" /\ resp # None
  /\ pc' = "panicked"
  /\ UNCHANGED <<kill, pingVars, pingInfo, verifier, crt, serverVars, endVars,
                 api, badKey>>

\* ping_backend: a new key goes to the verifier; if it is malformed the ping has
\* failed, although ping_info has been stored.
NewKey ==
  /\ pc = "key"
  /\ IF resp.key \in BadKeys
       THEN PingErr /\ badKey' = TRUE /\ UNCHANGED verifier
       ELSE pc' = "cert" /\ verifier' = resp.key /\ UNCHANGED badKey
  /\ UNCHANGED <<kill, pingVars, pingInfo, crt, serverVars, endVars, api>>

\* Mutant: the server is not respawned for a later certificate.
TakeCertOnce ==
  /\ pc = "cert"
  /\ crt' = IF resp.tls # None THEN resp.tls ELSE crt
  /\ pc' = IF First THEN "spawn" ELSE "check"
  /\ UNCHANGED <<kill, pingVars, pingInfo, verifier, serverVars, endVars, api,
                 badKey>>

\* run: a certificate in the response is a new one.
TakeCert ==
  /\ pc = "cert"
  /\ IF resp.tls # None
       THEN crt' = resp.tls /\ pc' = IF First THEN "spawn" ELSE "respawn"
       ELSE pc' = "check" /\ UNCHANGED crt
  /\ UNCHANGED <<kill, pingVars, pingInfo, verifier, serverVars, endVars, api,
                 badKey>>

\* HttpServerLifecycle::new.
Spawn ==
  /\ pc = "spawn" /\ pc' = "check"
  /\ server' = "up" /\ served' = crt
  /\ UNCHANGED <<kill, pingVars, pingInfo, verifier, crt, fresh, inFlight,
                 endVars, api, badKey>>

\* Mutant: a server that cannot be created ends the program at once.
SpawnFailsAtOnce ==
  /\ pc = "spawn" /\ pc' = "panicked" /\ dying' = TRUE
  /\ UNCHANGED <<kill, pingVars, pingInfo, verifier, crt, serverVars, grace,
                 waited, told, api, badKey>>

\* The API is told of it before the panic.
SpawnFails ==
  /\ pc = "spawn" /\ pc' = "stop" /\ dying' = TRUE
  /\ UNCHANGED <<kill, pingVars, pingInfo, verifier, crt, serverVars, grace,
                 waited, told, api, badKey>>

\* respawn_with_new_cert: the old server is stopped by force.
ForceStop ==
  /\ pc = "respawn" /\ pc' = "rebind"
  /\ server' = "down" /\ inFlight' = 0
  /\ UNCHANGED <<kill, pingVars, pingInfo, verifier, crt, served, fresh,
                 endVars, api, badKey>>

Respawn ==
  /\ pc = "rebind" /\ pc' = "check"
  /\ server' = "up" /\ served' = crt
  /\ UNCHANGED <<kill, pingVars, pingInfo, verifier, crt, fresh, inFlight,
                 endVars, api, badKey>>

\* Mutant: the error of respawn_with_new_cert is logged, and run goes on.
RespawnFailsLogged ==
  /\ pc = "rebind" /\ pc' = "check"
  /\ UNCHANGED <<kill, pingVars, pingInfo, verifier, crt, serverVars, endVars,
                 api, badKey>>

\* The result of respawn_with_new_cert is unwrapped.
RespawnFails ==
  /\ pc = "rebind" /\ pc' = "panicked"
  /\ UNCHANGED <<kill, pingVars, pingInfo, verifier, crt, serverVars, endVars,
                 api, badKey>>

-----------------------------------------------------------------------------
(***************************************************************************)
(* shutdown.                                                               *)
(***************************************************************************)
\* The API is told, whether or not it hears it, and the counter is read.
TellApi ==
  /\ pc = "stop" /\ told' = TRUE
  /\ fresh' = FALSE
  /\ pc' = IF grace < 0 THEN "halt" ELSE "sleep"
  /\ UNCHANGED <<kill, pingVars, pingInfo, verifier, crt, server, served,
                 inFlight, grace, waited, dying, api, badKey>>

\* Mutant: the seconds are compared before the sleep is added.
LookLate ==
  /\ pc = "sleep"
  /\ fresh' = FALSE
  /\ waited' = IF grace > 0 THEN waited + Sleep ELSE waited
  /\ pc' = IF ~fresh \/ (grace # 0 /\ waited >= grace) THEN "halt" ELSE "sleep"
  /\ UNCHANGED <<kill, pingVars, pingInfo, verifier, crt, server, served,
                 inFlight, grace, told, dying, api, badKey>>

\* Mutant: the maximum grace period is not looked at.
LookUnlimited ==
  /\ pc = "sleep"
  /\ fresh' = FALSE /\ UNCHANGED waited
  /\ pc' = IF ~fresh THEN "halt" ELSE "sleep"
  /\ UNCHANGED <<kill, pingVars, pingInfo, verifier, crt, server, served,
                 inFlight, grace, told, dying, api, badKey>>

\* A sleep is over: no request came meanwhile, or the grace period is.  Without
\* a limit the seconds are not counted.
Look ==
  /\ pc = "sleep"
  /\ fresh' = FALSE
  /\ waited' = IF grace > 0 THEN waited + Sleep ELSE waited
  /\ pc' = IF ~fresh \/ (grace # 0 /\ waited + Sleep >= grace) THEN "halt"
                                                                ELSE "sleep"
  /\ UNCHANGED <<kill, pingVars, pingInfo, verifier, crt, server, served,
                 inFlight, grace, told, dying, api, badKey>>

\* The server, if there is one, is asked to stop gracefully.
Halt ==
  /\ pc = "halt"
  /\ IF server = "up" THEN pc' = "drain" /\ server' = "draining"
     ELSE pc' = (IF dying THEN "panicked" ELSE "exited") /\ UNCHANGED server
  /\ UNCHANGED <<kill, pingVars, pingInfo, verifier, crt, served, fresh,
                 inFlight, endVars, api, badKey>>

\* Its requests have ended, or its shutdown_timeout of 60 seconds has.
Drained ==
  /\ pc = "drain" /\ pc' = "exited"
  /\ server' = "down" /\ inFlight' = 0
  /\ UNCHANGED <<kill, pingVars, pingInfo, verifier, crt, served, fresh,
                 endVars, api, badKey>>

-----------------------------------------------------------------------------
Ping == PingFails \/ PingOk \/ PingPanics \/ NewKey \/ TakeCert

Serve == Spawn \/ SpawnFails \/ ForceStop \/ Respawn \/ RespawnFails

Shutdown == TellApi \/ Look \/ Halt \/ Drained

MainStep == CheckKill \/ Tick \/ Ping \/ Serve \/ Shutdown

Next == \/ MainStep
        \/ ApiRenews \/ ApiAnswers \/ Kill \/ MinutePasses \/ Arrive \/ Depart

\* The main thread runs on; a minute passes.  An API that is pinged again and
\* again gets an answer through in the end; nothing obliges it to renew anything,
\* nor anybody to press CTRL+C or to send a request.
Fairness == /\ WF_vars(MainStep) /\ WF_vars(MinutePasses)
            /\ SF_vars(ApiAnswers) /\ SF_vars(PingOk)

Spec == Init /\ [][Next]_vars /\ Fairness

-----------------------------------------------------------------------------
(***************************************************************************)
(* Properties.                                                             *)
(***************************************************************************)
\* Type correctness of the main thread, the last ping, the server and the API.
TypeOK ==
  /\ pc \in {"ping", "key", "cert", "spawn", "check", "tick", "respawn", "rebind",
             "stop", "sleep", "halt", "drain", "exited", "panicked"}
  /\ kill \in BOOLEAN /\ due \in BOOLEAN
  /\ sent \in Cert \cup {None} /\ resp \in Response \cup {None}
  /\ pingInfo \in PingStore \cup {None}
  /\ verifier \in TokenKeys \cup {None} /\ crt \in Cert \cup {None}
  /\ server \in {"none", "up", "draining", "down"}
  /\ served \in Cert \cup {None}
  /\ fresh \in BOOLEAN /\ inFlight \in 0 .. MaxInFlight
  /\ grace \in Graces /\ waited \in Nat /\ told \in BOOLEAN /\ dying \in BOOLEAN
  /\ apiTls \in Cert /\ apiKey \in TokenKeys /\ renewals \in 0 .. MaxRenewals
  /\ badKey \in BOOLEAN

\* The main thread is not in the middle of processing a response.
Settled == pc \in {"check", "tick", "stop", "sleep", "halt", "drain"}

\* ping, update_from_response and ping_backend: whatever pings and answers are
\* lost and whatever the API renews meanwhile, the verifier checks tokens with
\* the key of the last response, unless that one is malformed; in particular
\* with the key that follows a malformed one, even if it is the one before it.
VerifierInSync ==
  (Settled /\ pingInfo.key \notin BadKeys) => verifier = pingInfo.key

\* run: until a malformed token key has been received, the server presents the
\* certificate that the next ping will claim to have (tls_created_at), so that
\* the API sends another one just when the server needs it.
CertInSync ==
  (Settled /\ server = "up" /\ ~badKey) => served = pingInfo.tls

\* run: the client pings on, and so tells the API to send it requests, only
\* while it has a server; a failed respawn cannot be survived.
AliveMeansServing ==
  pc \in {"check", "tick", "ping"} => (First \/ server = "up")

\* run, shutdown: however the program ends, short of a panic in processing a
\* ping or a respawn, the API has been told; that includes a first server that
\* could not be created.
ToldBeforeEnd == (pc = "exited" \/ (pc = "panicked" /\ dying)) => told

\* shutdown: the wait for quiet exceeds the grace period by less than a sleep,
\* whatever requests arrive.
GraceOverrun == grace > 0 => waited < grace + Sleep

\* run, shutdown: CTRL+C ends the program at whatever moment it comes, even if
\* requests never cease, unless the grace period is unlimited: then it ends once
\* no more of them arrive, even if those in flight never end.
KillEnds == (grace # 0 \/ <>[][~Arrive]_vars) => (kill ~> Ended)

\* The steps the main thread has left at most once CTRL+C was pressed: what
\* remains of the pass it is in, and the rest of shutdown.  A sleep is followed by
\* another while requests come, and the seconds of the grace period are left.
SleepsLeft ==
  CASE pc = "sleep" -> IF grace > 0 THEN grace - waited ELSE IF fresh THEN 1 ELSE 0
    [] pc \in {"halt", "drain", "exited", "panicked"} -> 0
    [] OTHER -> IF grace > 0 THEN grace ELSE 0
StepsTo ==
  CASE pc \in {"exited", "panicked"} -> 0
    [] pc = "drain" -> 1
    [] pc = "halt" -> 2
    [] pc = "sleep" -> 3
    [] pc = "stop" -> 4
    [] pc = "check" -> 5
    [] pc \in {"spawn", "rebind"} -> 6
    [] pc = "respawn" -> 7
    [] pc = "cert" -> 8
    [] pc = "key" -> 9
    [] pc = "ping" -> 10
    [] pc = "tick" -> 11
Left == StepsTo + SleepsLeft

\* Why CTRL+C ends the program, whenever it comes: from then on each step of the
\* main thread brings it closer to the end, through the ping or the respawn it is
\* in, their failures and the wait for quiet, and nothing else takes it farther
\* but a request that comes in a wait without a limit.
KillAdvances ==
  [][kill => /\ MainStep => Left' < Left
             /\ Left' <= Left \/ (grace = 0 /\ Arrive)]_vars

\* ping, run: the server comes to present the API's certificate and to accept
\* the API's tokens, however many pings fail in between, unless it is stopped,
\* panics or was sent a malformed key.
CatchesUp ==
  []<>(\/ kill \/ Ended \/ badKey
       \/ server = "up" /\ served = apiTls /\ verifier = apiKey)

\* What the comment in run (src/main.rs:192) promises: the server is restarted
\* if there is a new certificate.
NewCertServed == (Settled /\ server = "up") => served = pingInfo.tls

=============================================================================
