--------------------------- MODULE LifecycleProofs ---------------------------
(***************************************************************************)
(* Proofs about Lifecycle: what the main thread keeps in step (last ping,  *)
(* verifier, certificate, server) whatever pings fail and whatever the API *)
(* renews, and how it ends, for every grace period.                        *)
(***************************************************************************)
EXTENDS Lifecycle, TLAPS

\* The main thread is processing a response.
Processing == pc \in {"key", "cert"}

\* Until the first ping is answered nothing is known; its response brings a
\* certificate.  While a response is processed ping_info is what it said.
RespInv ==
  /\ pingInfo = None => First /\ ~dying /\ pc \in {"ping", "panicked"}
  /\ pc = "ping" /\ First => /\ pingInfo = None /\ sent = None
                             /\ resp # None => resp.tls # None
  /\ Processing => /\ resp # None /\ resp.key = pingInfo.key
                   /\ resp.tls # None => pingInfo.tls = resp.tls
                   /\ First => resp.tls # None
  /\ pc \in {"spawn", "respawn", "rebind"} => crt # None

\* Where there is a server, and where shutdown is for want of one.
ServerInv ==
  /\ pc = "spawn" => First
  /\ pc \in {"check", "tick", "respawn"} => server = "up"
  /\ pc \in {"stop", "sleep", "halt"} => server = "up" \/ dying
  /\ pc \in {"ping", "key", "cert"} => First \/ server = "up"
  /\ dying => First /\ pc \in {"stop", "sleep", "halt", "panicked"}

TypeInv == TypeOK /\ RespInv /\ ServerInv

\* The verifier has the key of the last response but while it is processed.
KeyInv ==
  (pingInfo # None /\ pc \notin {"key", "panicked"} /\ pingInfo.key \notin BadKeys)
    => verifier = pingInfo.key

\* The server has the certificate run() holds, and that is the one of the last
\* ping but while a response brings another.
CertInv ==
  /\ server = "up" /\ pc # "respawn" /\ ~Processing => served = crt
  /\ server = "up" /\ Processing => served = crt
  /\ ~badKey /\ pingInfo # None /\ pc # "panicked" =>
       \/ crt = pingInfo.tls
       \/ Processing /\ resp.tls # None

\* What shutdown has done by where it is.
EndInv ==
  /\ pc \in {"sleep", "halt", "drain", "exited"} => told
  /\ pc = "panicked" /\ dying => told
  /\ pc \notin {"sleep", "halt", "drain", "exited", "panicked"} => waited = 0
  /\ pc = "sleep" => grace >= 0 /\ (grace > 0 => waited < grace)
  /\ GraceOverrun

LifeInv == TypeInv /\ KeyInv /\ CertInv /\ EndInv

\* The program starts with all of it.
LEMMA InitLife == Init => LifeInv
  <1> SUFFICES ASSUME Init PROVE LifeInv
    OBVIOUS
  <1> USE NoneAssumption DEF Init
  <1>1. TypeOK
    <2>1. /\ 0 \in Cert /\ 0 \in Nat
          /\ 0 \in 0 .. MaxInFlight /\ 0 \in 0 .. MaxRenewals
      BY BoundsAssumption DEF Cert
    <2> QED BY <2>1, Zenon DEF TypeOK
  <1>2. RespInv /\ ServerInv /\ KeyInv /\ CertInv
    BY DEF RespInv, ServerInv, KeyInv, CertInv, Processing, First
  <1>3. EndInv
    BY SleepAssumption, GracesAssumption DEF EndInv, GraceOverrun
  <1> QED BY <1>1, <1>2, <1>3 DEF LifeInv, TypeInv

\* A count that moves by one within its bounds stays there.
LEMMA CountStep ==
  ASSUME NEW n \in 0 .. MaxInFlight, NEW m,
         (n < MaxInFlight /\ m = n + 1) \/ (n > 0 /\ m = n - 1)
  PROVE  m \in 0 .. MaxInFlight
  BY BoundsAssumption

\* The steps around the main thread keep it all.
LEMMA AroundLife ==
  ASSUME LifeInv,
         ApiRenews \/ ApiAnswers \/ Kill \/ MinutePasses \/ Arrive \/ Depart
  PROVE  LifeInv'
  <1> USE BoundsAssumption, NoneAssumption
          DEF LifeInv, TypeInv, TypeOK, RespInv, ServerInv, KeyInv, CertInv,
              EndInv, GraceOverrun, Processing, First, pingVars, serverVars,
              endVars, api
  <1>1. CASE ApiRenews
    BY <1>1 DEF ApiRenews, Cert
  <1>2. CASE ApiAnswers
    <2>1. TypeOK'
      BY <1>2 DEF ApiAnswers, Response
    <2>2. RespInv'
      BY <1>2 DEF ApiAnswers, Response
    <2>3. ServerInv'
      BY <1>2 DEF ApiAnswers, Response
    <2>4. KeyInv'
      BY <1>2 DEF ApiAnswers, Response
    <2>5. CertInv'
      BY <1>2 DEF ApiAnswers, Response
    <2>6. EndInv'
      BY <1>2 DEF ApiAnswers, Response
    <2> QED BY <2>1, <2>2, <2>3, <2>4, <2>5, <2>6
  <1>3. CASE Kill \/ MinutePasses
    <2>1. CASE Kill
      BY <2>1 DEF Kill
    <2>2. CASE MinutePasses
      BY <2>2 DEF MinutePasses
    <2> QED BY <1>3, <2>1, <2>2
  <1>4. CASE Arrive \/ Depart
    <2>1. TypeOK'
      <3>1. inFlight' \in 0 .. MaxInFlight
        <4>1. \/ inFlight < MaxInFlight /\ inFlight' = inFlight + 1
              \/ inFlight > 0 /\ inFlight' = inFlight - 1
          BY <1>4, Zenon DEF Arrive, Depart
        <4>2. inFlight \in 0 .. MaxInFlight
          BY Zenon
        <4> QED BY <4>1, <4>2, CountStep
      <3>2. /\ fresh' \in BOOLEAN
            /\ UNCHANGED <<pc, kill, pingVars, pingInfo, verifier, crt, server,
                           served, endVars, api, badKey>>
        BY <1>4, Zenon DEF Arrive, Depart
      <3> QED BY <3>1, <3>2, SMT
    <2>2. RespInv'
      BY <1>4 DEF Arrive, Depart
    <2>3. ServerInv'
      BY <1>4 DEF Arrive, Depart
    <2>4. KeyInv'
      BY <1>4 DEF Arrive, Depart
    <2>5. CertInv'
      BY <1>4 DEF Arrive, Depart
    <2>6. EndInv'
      BY <1>4 DEF Arrive, Depart
    <2> QED BY <2>1, <2>2, <2>3, <2>4, <2>5, <2>6
  <1> QED BY <1>1, <1>2, <1>3, <1>4

\* The loop of run and the processing of a response keep it all.
LEMMA PingLife ==
  ASSUME LifeInv, CheckKill \/ Tick \/ Ping
  PROVE  LifeInv'
  <1> USE NoneAssumption
          DEF LifeInv, TypeInv, TypeOK, RespInv, ServerInv, KeyInv, CertInv,
              EndInv, GraceOverrun, Processing, First, pingVars, serverVars,
              endVars, api
  <1>1. CASE CheckKill
    BY <1>1 DEF CheckKill
  <1>2. CASE Tick
    <2>1. TypeOK'
      BY <1>2 DEF Tick, PingStore
    <2>2. RespInv'
      BY <1>2 DEF Tick, PingStore
    <2>3. ServerInv'
      BY <1>2 DEF Tick, PingStore
    <2>4. KeyInv'
      BY <1>2 DEF Tick, PingStore
    <2>5. CertInv'
      BY <1>2 DEF Tick, PingStore
    <2>6. EndInv'
      BY <1>2 DEF Tick, PingStore
    <2> QED BY <2>1, <2>2, <2>3, <2>4, <2>5, <2>6
  <1>3. CASE PingFails
    BY <1>3 DEF PingFails, PingErr
  <1>4. CASE PingOk
    BY <1>4 DEF PingOk, PingStore, Response
  <1>5. CASE PingPanics
    BY <1>5 DEF PingPanics
  <1>6. CASE NewKey
    <2>1. TypeOK'
      <3>1. resp.key \in TokenKeys
        BY <1>6 DEF NewKey, Response
      <3>2. /\ pc' \in {"panicked", "check", "cert"}
            /\ verifier' \in TokenKeys \cup {None} /\ badKey' \in BOOLEAN
        BY <1>6, <3>1, Zenon DEF NewKey, PingErr
      <3>3. UNCHANGED <<kill, due, sent, resp, pingInfo, crt, server, served,
                        fresh, inFlight, grace, waited, told, dying, apiTls,
                        apiKey, renewals>>
        BY <1>6, Zenon DEF NewKey
      <3> QED BY <3>2, <3>3, SMT
    <2>2. RespInv'
      BY <1>6 DEF NewKey, PingErr, Response, PingStore
    <2>3. ServerInv'
      BY <1>6 DEF NewKey, PingErr, Response, PingStore
    <2>4. KeyInv'
      BY <1>6 DEF NewKey, PingErr, Response, PingStore
    <2>5. CertInv'
      BY <1>6 DEF NewKey, PingErr, Response, PingStore
    <2>6. EndInv'
      BY <1>6 DEF NewKey, PingErr, Response, PingStore
    <2> QED BY <2>1, <2>2, <2>3, <2>4, <2>5, <2>6
  <1>7. CASE TakeCert
    BY <1>7 DEF TakeCert, Response
  <1> QED BY <1>1, <1>2, <1>3, <1>4, <1>5, <1>6, <1>7 DEF Ping

\* Spawning and respawning the server, and shutdown, keep it all.
LEMMA ServeLife ==
  ASSUME LifeInv, Serve \/ Shutdown
  PROVE  LifeInv'
  <1> USE NoneAssumption, BoundsAssumption, SleepAssumption, GracesAssumption
          DEF LifeInv, TypeInv, TypeOK, RespInv, ServerInv, KeyInv, CertInv,
              EndInv, GraceOverrun, Processing, First, pingVars, serverVars,
              endVars, api
  <1>1. CASE Spawn \/ SpawnFails
    <2>1. TypeOK'
      BY <1>1 DEF Spawn, SpawnFails
    <2>2. RespInv'
      BY <1>1 DEF Spawn, SpawnFails
    <2>3. ServerInv'
      BY <1>1 DEF Spawn, SpawnFails
    <2>4. KeyInv'
      BY <1>1 DEF Spawn, SpawnFails
    <2>5. CertInv'
      BY <1>1 DEF Spawn, SpawnFails
    <2>6. EndInv'
      BY <1>1 DEF Spawn, SpawnFails
    <2> QED BY <2>1, <2>2, <2>3, <2>4, <2>5, <2>6
  <1>2. CASE ForceStop \/ Respawn \/ RespawnFails
    <2>1. TypeOK'
      BY <1>2 DEF ForceStop, Respawn, RespawnFails
    <2>2. RespInv'
      BY <1>2 DEF ForceStop, Respawn, RespawnFails
    <2>3. ServerInv'
      BY <1>2 DEF ForceStop, Respawn, RespawnFails
    <2>4. KeyInv'
      BY <1>2 DEF ForceStop, Respawn, RespawnFails
    <2>5. CertInv'
      BY <1>2 DEF ForceStop, Respawn, RespawnFails
    <2>6. EndInv'
      BY <1>2 DEF ForceStop, Respawn, RespawnFails
    <2> QED BY <2>1, <2>2, <2>3, <2>4, <2>5, <2>6
  <1>3. CASE TellApi
    <2>1. TypeOK'
      BY <1>3 DEF TellApi
    <2>2. RespInv'
      BY <1>3 DEF TellApi
    <2>3. ServerInv'
      BY <1>3 DEF TellApi
    <2>4. KeyInv'
      BY <1>3 DEF TellApi
    <2>5. CertInv'
      BY <1>3 DEF TellApi
    <2>6. EndInv'
      BY <1>3 DEF TellApi
    <2> QED BY <2>1, <2>2, <2>3, <2>4, <2>5, <2>6
  <1>4. CASE Look
    <2>1. TypeOK'
      <3>1. waited' \in Nat
        BY <1>4 DEF Look
      <3> QED BY <1>4, <3>1, Zenon DEF Look
    <2>2. RespInv'
      BY <1>4 DEF Look
    <2>3. ServerInv'
      BY <1>4 DEF Look
    <2>4. KeyInv'
      BY <1>4 DEF Look
    <2>5. CertInv'
      BY <1>4 DEF Look
    <2>6. EndInv'
      BY <1>4 DEF Look
    <2> QED BY <2>1, <2>2, <2>3, <2>4, <2>5, <2>6
  <1>5. CASE Halt \/ Drained
    <2>1. TypeOK'
      BY <1>5 DEF Halt, Drained
    <2>2. RespInv'
      BY <1>5 DEF Halt, Drained
    <2>3. ServerInv'
      BY <1>5 DEF Halt, Drained
    <2>4. KeyInv'
      BY <1>5 DEF Halt, Drained
    <2>5. CertInv'
      BY <1>5 DEF Halt, Drained
    <2>6. EndInv'
      BY <1>5 DEF Halt, Drained
    <2> QED BY <2>1, <2>2, <2>3, <2>4, <2>5, <2>6
  <1> QED BY <1>1, <1>2, <1>3, <1>4, <1>5 DEF Serve, Shutdown

\* Every step keeps it all.
LEMMA NextLife == LifeInv /\ [Next]_vars => LifeInv'
  <1>1. LifeInv /\ UNCHANGED vars => LifeInv'
    BY DEF vars, LifeInv, TypeInv, TypeOK, RespInv, ServerInv, KeyInv, CertInv,
           EndInv, GraceOverrun, Processing, First
  <1> QED BY <1>1, AroundLife, PingLife, ServeLife DEF Next, MainStep

\* LifeInv holds of every state.
LEMMA LifeStays == Spec => []LifeInv
  BY NextLife, InitLife, PTL DEF Spec

\* The main thread, the last ping, the server and the API have their types.
THEOREM TypeCorrect == Spec => []TypeOK
  <1>1. LifeInv => TypeOK
    BY DEF LifeInv, TypeInv
  <1> QED BY <1>1, LifeStays, PTL

\* Between two responses the verifier has the key of the last one, unless that
\* is malformed.
THEOREM VerifierCorrect == Spec => []VerifierInSync
  <1>1. LifeInv => VerifierInSync
    BY DEF LifeInv, TypeInv, RespInv, KeyInv, VerifierInSync, Settled
  <1> QED BY <1>1, LifeStays, PTL

\* Until a malformed key is received, the server presents the certificate that
\* the next ping will claim to have.
THEOREM CertCorrect == Spec => []CertInSync
  <1>1. LifeInv => CertInSync
    BY DEF LifeInv, TypeInv, RespInv, CertInv, CertInSync, Settled, Processing
  <1> QED BY <1>1, LifeStays, PTL

\* The client pings on only while it has a server.
THEOREM AliveCorrect == Spec => []AliveMeansServing
  <1>1. LifeInv => AliveMeansServing
    BY DEF LifeInv, TypeInv, ServerInv, AliveMeansServing
  <1> QED BY <1>1, LifeStays, PTL

\* The API is told before the program ends.
THEOREM ToldCorrect == Spec => []ToldBeforeEnd
  <1>1. LifeInv => ToldBeforeEnd
    BY DEF LifeInv, EndInv, ToldBeforeEnd
  <1> QED BY <1>1, LifeStays, PTL

\* Whatever the grace period and the sleep, the wait is too long by less than
\* one sleep.
THEOREM GraceCorrect == Spec => []GraceOverrun
  <1>1. LifeInv => GraceOverrun
    BY DEF LifeInv, EndInv
  <1> QED BY <1>1, LifeStays, PTL

\* What is left to do is a natural number: the wait is not over while it goes on.
LEMMA LeftType == (LifeInv => Left \in Nat) /\ (LifeInv' => Left' \in Nat)
  BY GracesAssumption
     DEF LifeInv, TypeInv, TypeOK, EndInv, Left, StepsTo, SleepsLeft

\* Once CTRL+C was pressed the loop of run is left at the next look at the flag.
LEMMA LoopAdvances ==
  ASSUME LifeInv, kill, CheckKill \/ Tick \/ Ping \/ Serve
  PROVE  Left' < Left
  <1> USE GracesAssumption
          DEF LifeInv, TypeInv, TypeOK, Left, StepsTo, SleepsLeft, endVars
  <1>1. CASE CheckKill
    BY <1>1 DEF CheckKill
  <1>2. CASE Tick
    BY <1>2 DEF Tick
  <1>3. CASE PingFails
    BY <1>3 DEF PingFails, PingErr
  <1>4. CASE PingOk
    BY <1>4 DEF PingOk
  <1>5. CASE PingPanics
    BY <1>5 DEF PingPanics
  <1>6. CASE NewKey
    BY <1>6 DEF NewKey, PingErr
  <1>7. CASE TakeCert
    BY <1>7 DEF TakeCert
  <1>8. CASE Spawn \/ Respawn
    <2>1. /\ pc \in {"spawn", "rebind"} /\ pc' = "check"
          /\ UNCHANGED <<grace, waited>>
      BY <1>8, Zenon DEF Spawn, Respawn
    <2> QED BY <2>1
  <1>9. CASE SpawnFails \/ ForceStop \/ RespawnFails
    <2>1. CASE SpawnFails
      BY <2>1 DEF SpawnFails
    <2>2. CASE ForceStop
      BY <2>2 DEF ForceStop
    <2>3. CASE RespawnFails
      BY <2>3 DEF RespawnFails
    <2> QED BY <1>9, <2>1, <2>2, <2>3
  <1> QED BY <1>1, <1>2, <1>3, <1>4, <1>5, <1>6, <1>7, <1>8, <1>9 DEF Ping, Serve

\* In shutdown each sleep uses up the grace period or finds that requests cease.
LEMMA ShutdownAdvances ==
  ASSUME LifeInv, Shutdown
  PROVE  Left' < Left
  <1> USE GracesAssumption, SleepAssumption
          DEF LifeInv, TypeInv, TypeOK, EndInv, Left, StepsTo, SleepsLeft
  <1>1. CASE TellApi
    BY <1>1 DEF TellApi
  <1>2. CASE Look
    BY <1>2 DEF Look
  <1>3. CASE Halt \/ Drained
    BY <1>3 DEF Halt, Drained, endVars
  <1> QED BY <1>1, <1>2, <1>3 DEF Shutdown

\* The API, the clock and the requests keep nobody from the end, but for those
\* that come while the wait has no limit.
LEMMA AroundAdvances ==
  ASSUME LifeInv,
         \/ ApiRenews \/ ApiAnswers \/ Kill \/ MinutePasses \/ Depart
         \/ Arrive /\ grace # 0
         \/ UNCHANGED vars
  PROVE  Left' = Left
  <1>1. UNCHANGED <<pc, grace, waited>>
    BY DEF ApiRenews, ApiAnswers, Kill, MinutePasses, Depart, Arrive, endVars, vars
  <1>2. fresh' = fresh \/ grace # 0
    BY Zenon DEF ApiRenews, ApiAnswers, Kill, MinutePasses, Depart, Arrive, serverVars,
           vars
  <1>3. grace \in Int /\ (pc = "sleep" => grace >= 0)
    BY GracesAssumption DEF LifeInv, TypeInv, TypeOK, EndInv
  <1>4. StepsTo' = StepsTo
    BY <1>1 DEF StepsTo
  <1>5. SleepsLeft' = SleepsLeft
    BY <1>1, <1>2, <1>3 DEF SleepsLeft
  <1> QED BY <1>4, <1>5 DEF Left

\* CTRL+C ends the program: from then on each step of the main thread decreases
\* a natural number, which nothing increases but a request that comes while the
\* wait has no limit.
THEOREM KillAdvancesCorrect == Spec => KillAdvances
  <1>1. ASSUME LifeInv, [Next]_vars
        PROVE  [kill => /\ MainStep => Left' < Left
                        /\ Left' <= Left \/ (grace = 0 /\ Arrive)]_vars
    <2> SUFFICES ASSUME kill
                 PROVE  /\ MainStep => Left' < Left
                        /\ Left' <= Left \/ (grace = 0 /\ Arrive)
      OBVIOUS
    <2>1. Left \in Nat /\ Left' \in Nat
      <3>1. LifeInv'
        BY <1>1, NextLife
      <3> QED BY <1>1, <3>1, LeftType
    <2>2. MainStep => Left' < Left
      BY <1>1, LoopAdvances, ShutdownAdvances DEF MainStep
    <2>3. CASE MainStep
      BY <2>1, <2>2, <2>3
    <2>4. CASE ~MainStep
      <3>1. \/ ApiRenews \/ ApiAnswers \/ Kill \/ MinutePasses \/ Arrive \/ Depart
            \/ UNCHANGED vars
        BY <1>1, <2>4 DEF Next
      <3>2. Left' = Left \/ (grace = 0 /\ Arrive)
        BY <1>1, <3>1, AroundAdvances
      <3> QED BY <2>1, <2>2, <3>2
    <2> QED BY <2>3, <2>4
  <1> QED BY <1>1, LifeStays, PTL DEF Spec, KillAdvances

=============================================================================
