------------------------------ MODULE Admission ------------------------------
(***************************************************************************)
(* Who is let in: the check of the server name in the TLS handshake        *)
(* (check_sni in src/http/mod.rs), the verification of the token in a      *)
(* request (src/tokens.rs, md_service) and the choice of the upstream      *)
(* server for a MISS (start_poll_upstream in src/http/handler.rs).  The    *)
(* three read, one after the other along a connection, two cells that the  *)
(* main thread replaces one after the other: Backend::ping_info and        *)
(* GlobalState::verifier.                                                  *)
(*                                                                         *)
(* Cryptography is external: a token is what became of it when it was      *)
(* decoded, the key it was sealed with and its payload.  What the API      *)
(* answers is a choice; a ping that fails changes nothing here, except     *)
(* that without a first answer there is no server (module Lifecycle).      *)
(***************************************************************************)
EXTENDS Integers

CONSTANTS
  Clients,    \* connections that may exist at the same time
  Hosts,      \* host names the API may give the client (client_url)
  Names,      \* names a client may send in its handshake
  LocalNames, \* "localhost" and "scalpel"
  TokenKeys,  \* token keys the API may hand out
  BadKeys,    \* those of them that push_key_b64 rejects
  Chapters,   \* chapter hashes
  Times,      \* readings of the clock, and dates of expiry
  NotBase64,  \* a token that decode_b64 rejects
  TooShort,   \* a token of at most NONCE_SIZE bytes
  MaxPings,   \* bound: answers of the API
  None        \* absence of a value

Ping == 1 .. MaxPings
PingStore == [ping : Ping, host : Hosts, key : TokenKeys]
Verifier == [ping : Ping, key : TokenKeys \ BadKeys]
Payload == [hash : Chapters, expires : Times \cup {None}]
Sealed == [key : TokenKeys, payload : Payload \cup {None}]
Token == Sealed \cup {NotBase64, TooShort, None}
Ask == [token : Token, chapter : Chapters]

Forbidden == {"TokenExpired", "InvalidChapterHash", "DecryptFailed",
              "InvalidBase64"}
TokenErrors == Forbidden \cup {"NoKey", "TokenMalformed", "InvalidPayload"}

ASSUME PingsAssumption == MaxPings \in Nat
ASSUME TimesAssumption == Times \subseteq Int
ASSUME BadKeysAssumption == BadKeys \subseteq TokenKeys
ASSUME TokensAssumption ==
  /\ None \notin Sealed /\ NotBase64 \notin Sealed /\ TooShort \notin Sealed
  /\ NotBase64 # TooShort /\ None \notin {NotBase64, TooShort}
ASSUME NoneAssumption ==
  /\ None \notin Times \cup Payload \cup Ask \cup PingStore \cup Verifier
  /\ None \notin TokenErrors \cup {"Ok", "no token"} \cup Names
  /\ None \notin 0 .. MaxPings

VARIABLES
  skip_tokens, checks_sni, \* configuration
  mpc,       \* the main thread: "ping", "key", "spawn" or "dead"
  up,        \* the server has been spawned
  info,      \* ping_info, with the number of its ping
  verifier,  \* verifier, with the number of the ping its key came with
  stage,     \* per connection: "away", "open", "asked", "cleared", "answered"
  seen,      \* number of the ping_info of its handshake
  ask,       \* its request
  loaded,    \* the verifier md_service has loaded for it
  at,        \* the clock when the token was verified
  verdict,   \* what verify_url_token said
  polled     \* number of the ping_info of its last poll of upstream

config == <<skip_tokens, checks_sni>>
main == <<mpc, up, info, verifier>>
request == <<ask, loaded, at, verdict, polled>>
vars == <<skip_tokens, checks_sni, mpc, up, info, verifier, stage, seen, ask,
          loaded, at, verdict, polled>>

Age(cell) == IF cell = None THEN 0 ELSE cell.ping

Init ==
  /\ skip_tokens \in BOOLEAN /\ checks_sni \in BOOLEAN
  /\ mpc = "ping" /\ up = FALSE /\ info = None /\ verifier = None
  /\ stage = [c \in Clients |-> "away"] /\ seen = [c \in Clients |-> 0]
  /\ ask = [c \in Clients |-> None] /\ loaded = [c \in Clients |-> None]
  /\ at = [c \in Clients |-> None] /\ verdict = [c \in Clients |-> None]
  /\ polled = [c \in Clients |-> None]

-----------------------------------------------------------------------------
(***************************************************************************)
(* ping_backend stores the answer, then the key if it is a new one; before *)
(* the first answer and its key are stored there is no server.             *)
(***************************************************************************)
PingStores(h, k) ==
  /\ mpc = "ping" /\ Age(info) < MaxPings
  /\ info' = [ping |-> Age(info) + 1, host |-> h, key |-> k]
  /\ mpc' = IF info = None \/ info.key # k THEN "key" ELSE "ping"
  /\ UNCHANGED <<config, up, verifier, stage, seen, request>>

\* Mutant: a key that does not decode is taken as it is.
KeyStoresUnchecked ==
  /\ mpc = "key"
  /\ verifier' = [ping |-> info.ping, key |-> info.key]
  /\ mpc' = IF up THEN "ping" ELSE "spawn"
  /\ UNCHANGED <<config, up, info, stage, seen, request>>

KeyStores ==
  /\ mpc = "key"
  /\ IF info.key \in BadKeys
       THEN mpc' = (IF up THEN "ping" ELSE "dead") /\ UNCHANGED verifier
       ELSE /\ verifier' = [ping |-> info.ping, key |-> info.key]
            /\ mpc' = IF up THEN "ping" ELSE "spawn"
  /\ UNCHANGED <<config, up, info, stage, seen, request>>

\* Mutant: the server is spawned before the first ping.
SpawnEarly ==
  /\ mpc \in {"ping", "spawn"} /\ ~up
  /\ up' = TRUE /\ mpc' = "ping"
  /\ UNCHANGED <<config, info, verifier, stage, seen, request>>

Spawn ==
  /\ mpc = "spawn"
  /\ up' = TRUE /\ mpc' = "ping"
  /\ UNCHANGED <<config, info, verifier, stage, seen, request>>

-----------------------------------------------------------------------------
(***************************************************************************)
(* check_sni.  A client that sends no name (None) or another one is        *)
(* refused, and nothing of it stays.                                       *)
(***************************************************************************)
NameOk(n) == \/ ~checks_sni
             \/ n \in LocalNames
             \/ n # None /\ info # None /\ n = info.host

Connect(c, n) ==
  /\ up /\ stage[c] = "away" /\ NameOk(n)
  /\ stage' = [stage EXCEPT ![c] = "open"]
  /\ seen' = [seen EXCEPT ![c] = Age(info)]
  /\ UNCHANGED <<config, main, request>>

(***************************************************************************)
(* md_service: the verifier is loaded, and the token verified with what    *)
(* was loaded, by a clock that is read last.                               *)
(***************************************************************************)
Asks(c, q) ==
  /\ stage[c] = "open"
  /\ ask' = [ask EXCEPT ![c] = q]
  /\ stage' = [stage EXCEPT ![c] = IF skip_tokens THEN "cleared" ELSE "asked"]
  /\ loaded' = [loaded EXCEPT ![c] = IF skip_tokens THEN None ELSE verifier]
  /\ UNCHANGED <<config, main, seen, at, verdict, polled>>

\* Mutant: a token is good until the very moment it expires.
CheckedInclusive(payload, chapter, now) ==
  IF payload = None THEN "InvalidPayload"
  ELSE IF payload.hash # chapter THEN "InvalidChapterHash"
  ELSE IF payload.expires = None THEN "InvalidPayload"
  ELSE IF payload.expires >= now THEN "Ok" ELSE "TokenExpired"

\* verify_token on a decrypted payload: None is one that is not the JSON
\* expected, and a date that does not parse.
Checked(payload, chapter, now) ==
  IF payload = None THEN "InvalidPayload"
  ELSE IF payload.hash # chapter THEN "InvalidChapterHash"
  ELSE IF payload.expires = None THEN "InvalidPayload"
  ELSE IF payload.expires > now THEN "Ok" ELSE "TokenExpired"

\* verify_url_token: the length is looked at before the key is.
Verdict(v, q, now) ==
  IF q.token = None THEN "no token"
  ELSE IF q.token = NotBase64 THEN "InvalidBase64"
  ELSE IF q.token = TooShort THEN "TokenMalformed"
  ELSE IF v = None THEN "NoKey"
  ELSE IF q.token.key # v.key THEN "DecryptFailed"
  ELSE Checked(q.token.payload, q.chapter, now)

Verify(c, now) ==
  /\ stage[c] = "asked"
  /\ at' = [at EXCEPT ![c] = now]
  /\ verdict' = [verdict EXCEPT ![c] = Verdict(loaded[c], ask[c], now)]
  /\ stage' = [stage EXCEPT ![c] = IF verdict'[c] = "Ok" THEN "cleared"
                                                        ELSE "answered"]
  /\ UNCHANGED <<config, main, seen, ask, loaded, polled>>

\* Mutant: upstream is the one that was known when the connection was opened.
PollFromHandshake(c) ==
  /\ stage[c] = "cleared"
  /\ polled' = [polled EXCEPT ![c] = seen[c]]
  /\ UNCHANGED <<config, main, stage, seen, ask, loaded, at, verdict>>

\* start_poll_upstream, once for every try; without ping_info it would be a
\* NoUpstreamError (0).
Poll(c) ==
  /\ stage[c] = "cleared"
  /\ polled' = [polled EXCEPT ![c] = Age(info)]
  /\ UNCHANGED <<config, main, stage, seen, ask, loaded, at, verdict>>

\* A HIT, or what came of the MISS.
Answer(c) ==
  /\ stage[c] = "cleared"
  /\ stage' = [stage EXCEPT ![c] = "answered"]
  /\ UNCHANGED <<config, main, seen, request>>

\* The connection is kept alive for another request, or ends, at any moment.
Over(c, to) ==
  /\ stage' = [stage EXCEPT ![c] = to]
  /\ ask' = [ask EXCEPT ![c] = None] /\ loaded' = [loaded EXCEPT ![c] = None]
  /\ at' = [at EXCEPT ![c] = None] /\ verdict' = [verdict EXCEPT ![c] = None]
  /\ polled' = [polled EXCEPT ![c] = None]
  /\ UNCHANGED <<config, main>>

KeepAlive(c) == stage[c] = "answered" /\ Over(c, "open") /\ UNCHANGED seen

Leave(c) == /\ stage[c] # "away" /\ Over(c, "away")
            /\ seen' = [seen EXCEPT ![c] = 0]

-----------------------------------------------------------------------------
MainStep == \/ \E h \in Hosts, k \in TokenKeys : PingStores(h, k)
            \/ KeyStores \/ Spawn

ClientStep(c) == \/ \E n \in Names \cup {None} : Connect(c, n)
                 \/ \E q \in Ask : Asks(c, q)
                 \/ \E now \in Times : Verify(c, now)
                 \/ Poll(c) \/ Answer(c) \/ KeepAlive(c) \/ Leave(c)

Next == MainStep \/ \E c \in Clients : ClientStep(c)

Spec == Init /\ [][Next]_vars

-----------------------------------------------------------------------------
(***************************************************************************)
(* Properties.                                                             *)
(***************************************************************************)
\* Type correctness of the two cells and of the requests that read them; in
\* particular a key that does not decode never reaches the verifier.
TypeOK ==
  /\ skip_tokens \in BOOLEAN /\ checks_sni \in BOOLEAN
  /\ mpc \in {"ping", "key", "spawn", "dead"} /\ up \in BOOLEAN
  /\ info \in PingStore \cup {None} /\ verifier \in Verifier \cup {None}
  /\ stage \in [Clients -> {"away", "open", "asked", "cleared", "answered"}]
  /\ seen \in [Clients -> 0 .. MaxPings]
  /\ ask \in [Clients -> Ask \cup {None}]
  /\ loaded \in [Clients -> Verifier \cup {None}]
  /\ at \in [Clients -> Times \cup {None}]
  /\ verdict \in [Clients -> TokenErrors \cup {"Ok", "no token", None}]
  /\ polled \in [Clients -> 0 .. MaxPings \cup {None}]

\* The comments on NoUpstreamError (src/http/handler.rs:119) and the order of
\* ping_backend and HttpServerLifecycle::new in run: no request ever meets a
\* verifier without a key, or a client without an upstream server, also when the
\* first key is malformed.
NeverUnset == \A c \in Clients : verdict[c] # "NoKey" /\ polled[c] # 0

\* ping_info is stored before the verifier, and loaded anew for every poll: an
\* image is asked of an upstream server no older than the key that admitted its
\* request and than the host name that admitted its connection, however often
\* the API changed them meanwhile.
UpstreamNotOlder ==
  \A c \in Clients : polled[c] # None =>
    polled[c] >= seen[c] /\ polled[c] >= Age(loaded[c])

StatusOf(d) == IF d = "Ok" THEN 200 ELSE IF d = "no token" THEN 401
               ELSE IF d \in Forbidden THEN 403 ELSE 400

\* What a token says, if it is one and the key opens it.
Opened(t, v) == IF t \in Sealed /\ v # None /\ t.key = v.key THEN t.payload
                                                         ELSE None

\* A token such as the API issues, with whatever key.
Issued(t) == t \in Sealed /\ t.payload \in Payload /\ t.payload.expires # None

Fits(d, v, q, now) ==
  /\ d = "Ok" <=> LET payload == Opened(q.token, v)
                  IN  /\ payload # None /\ payload.hash = q.chapter
                      /\ payload.expires # None /\ payload.expires > now
  /\ Issued(q.token) => StatusOf(d) \in {200, 403}

\* tokens.rs: a token is accepted just when the key opens it, it names the
\* chapter and expires later than now; and one that the API has issued is refused
\* with 403 and never with 400, whichever of these fails, also when the key was
\* renewed after it was issued.
VerdictFits ==
  \A c \in Clients :
    verdict[c] # None => Fits(verdict[c], loaded[c], ask[c], at[c])

=============================================================================
