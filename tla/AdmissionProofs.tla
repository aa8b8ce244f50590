--------------------------- MODULE AdmissionProofs ---------------------------
(***************************************************************************)
(* The four invariants of Admission, for every set of connections, hosts,  *)
(* names, keys and chapters, every clock and every number of pings.        *)
(***************************************************************************)
EXTENDS Admission, TLAPS

-----------------------------------------------------------------------------
(***************************************************************************)
(* Type correctness.                                                       *)
(***************************************************************************)
\* The age of a cell is a number of pings.
LEMMA AgeType ==
  ASSUME NEW cell \in PingStore \cup Verifier \cup {None}
  PROVE  /\ Age(cell) \in Nat /\ Age(cell) \in 0 .. MaxPings
         /\ cell # None => Age(cell) >= 1
  BY PingsAssumption DEF Age, PingStore, Verifier, Ping

LEMMA VerdictType ==
  ASSUME NEW v, NEW q, NEW now
  PROVE  Verdict(v, q, now) \in TokenErrors \cup {"Ok", "no token"}
  BY DEF Verdict, Checked, TokenErrors, Forbidden

LEMMA InitType == Init => TypeOK
  <1> SUFFICES ASSUME Init  PROVE TypeOK
    OBVIOUS
  <1>1. /\ seen \in [Clients -> 0 .. MaxPings]
        /\ polled \in [Clients -> 0 .. MaxPings \cup {None}]
    BY PingsAssumption DEF Init
  <1> QED BY <1>1 DEF Init, TypeOK

\* A key is decoded only after the answer it came with has been stored.
TypeInv == TypeOK /\ (mpc = "key" => info # None)

\* The main thread and the clients keep the types.
LEMMA NextType == TypeInv /\ [Next]_vars => TypeInv'
  <1> SUFFICES ASSUME TypeInv, [Next]_vars  PROVE TypeInv'
    OBVIOUS
  <1> USE DEF config, main, request
  <1>1. ASSUME NEW h \in Hosts, NEW k \in TokenKeys, PingStores(h, k)
        PROVE  TypeInv'
    <2>0. Age(info) \in Nat /\ Age(info) < MaxPings
      BY <1>1, AgeType DEF PingStores, TypeInv, TypeOK
    <2>1. Age(info) + 1 \in Ping
      BY <2>0, PingsAssumption DEF Ping
    <2>2. info' \in PingStore
      BY <1>1, <2>1 DEF PingStores, PingStore
    <2>3. mpc' \in {"ping", "key"}
      BY <1>1 DEF PingStores
    <2> QED BY <1>1, <2>2, <2>3, NoneAssumption DEF PingStores, TypeInv, TypeOK
  <1>2. CASE KeyStores
    <2>1. mpc' \in {"ping", "spawn", "dead"}
      BY <1>2 DEF KeyStores, TypeInv, TypeOK
    <2>2. verifier' \in Verifier \cup {None}
      <3>1. CASE info.key \in BadKeys
        BY <1>2, <3>1 DEF KeyStores, TypeInv, TypeOK
      <3>2. CASE info.key \notin BadKeys
        <4>1. verifier' = [ping |-> info.ping, key |-> info.key]
          BY <1>2, <3>2 DEF KeyStores
        <4>2. info \in PingStore
          BY <1>2 DEF KeyStores, TypeInv, TypeOK
        <4> QED BY <3>2, <4>1, <4>2 DEF PingStore, Verifier
      <3> QED BY <3>1, <3>2
    <2> QED BY <1>2, <2>1, <2>2 DEF KeyStores, TypeInv, TypeOK
  <1>3. CASE Spawn
    BY <1>3 DEF Spawn, TypeInv, TypeOK
  <1>4. ASSUME NEW c \in Clients, ClientStep(c)  PROVE TypeInv'
    <2>1. ASSUME NEW n \in Names \cup {None}, Connect(c, n)  PROVE TypeInv'
      BY <2>1, AgeType DEF Connect, TypeInv, TypeOK
    <2>2. ASSUME NEW q \in Ask, Asks(c, q)  PROVE TypeInv'
      BY <2>2 DEF Asks, TypeInv, TypeOK
    <2>3. ASSUME NEW now \in Times, Verify(c, now)  PROVE TypeInv'
      <3>1. Verdict(loaded[c], ask[c], now) \in TokenErrors \cup {"Ok", "no token"}
        BY VerdictType
      <3> QED BY <2>3, <3>1 DEF Verify, TypeInv, TypeOK
    <2>4. CASE Poll(c)
      BY <2>4, AgeType DEF Poll, TypeInv, TypeOK
    <2>5. CASE Answer(c)
      BY <2>5 DEF Answer, TypeInv, TypeOK
    <2>6. CASE KeepAlive(c)
      BY <2>6 DEF KeepAlive, Over, TypeInv, TypeOK
    <2>7. CASE Leave(c)
      <3>1. seen' \in [Clients -> 0 .. MaxPings]
        <4>1. seen \in [Clients -> 0 .. MaxPings]
          BY DEF TypeInv, TypeOK
        <4>2. 0 \in 0 .. MaxPings
          BY PingsAssumption
        <4> QED BY <2>7, <4>1, <4>2 DEF Leave
      <3>2. Over(c, "away")
        BY <2>7 DEF Leave
      <3> QED BY <3>1, <3>2 DEF Over, TypeInv, TypeOK
    <2> QED BY <1>4, <2>1, <2>2, <2>3, <2>4, <2>5, <2>6, <2>7 DEF ClientStep
  <1>5. CASE UNCHANGED vars
    BY <1>5 DEF vars, TypeInv, TypeOK
  <1> QED BY <1>1, <1>2, <1>3, <1>4, <1>5 DEF Next, MainStep

\* tokens.rs, http/mod.rs: every reachable state is well typed.
THEOREM TypeCorrect == Spec => []TypeOK
  <1>1. Init => TypeInv
    BY InitType DEF Init, TypeInv
  <1>2. TypeInv => TypeOK
    BY DEF TypeInv
  <1> QED BY <1>1, <1>2, NextType, PTL DEF Spec

-----------------------------------------------------------------------------
(***************************************************************************)
(* Both cells are set before there is a client, and neither is younger     *)
(* than what a connection has read of them.                                *)
(***************************************************************************)
\* Between requests nothing is left of the last one.
Clean(c) == stage[c] \in {"away", "open"} =>
              ask[c] = None /\ loaded[c] = None /\ verdict[c] = None
              /\ polled[c] = None

\* A request under way has read a verifier with a key, unless tokens are skipped.
Asked(c) == /\ stage[c] = "asked" => ask[c] \in Ask /\ loaded[c] # None
            /\ verdict[c] # None => ask[c] \in Ask

CellsSet ==
  /\ mpc = "key" => info # None
  /\ (up \/ mpc = "spawn") => info # None /\ verifier # None

CellsOrdered ==
  /\ Age(verifier) <= Age(info)
  /\ \A c \in Clients : seen[c] <= Age(info) /\ Age(loaded[c]) <= Age(info)

IInv == /\ TypeOK /\ CellsSet /\ CellsOrdered
        /\ \A c \in Clients : /\ Clean(c) /\ Asked(c)
                              /\ stage[c] # "away" => up
        /\ NeverUnset /\ UpstreamNotOlder /\ VerdictFits

\* What verify_url_token says is right, for every key, request and clock.
LEMMA VerdictRight ==
  ASSUME NEW v \in Verifier, NEW q \in Ask, NEW now \in Times
  PROVE  /\ Verdict(v, q, now) # "NoKey"
         /\ Fits(Verdict(v, q, now), v, q, now)
  <1> DEFINE t == q.token
             d == Verdict(v, q, now)
  <1>0. t \in Token /\ v # None
    BY NoneAssumption DEF Ask
  <1>1. CASE t \notin Sealed
    <2>1. d \in {"no token", "InvalidBase64", "TokenMalformed"}
      BY <1>0, <1>1 DEF Verdict, Token
    <2>2. Opened(t, v) = None /\ ~Issued(t)
      BY <1>1 DEF Opened, Issued
    <2> QED BY <2>1, <2>2 DEF Fits
  <1>2. CASE t \in Sealed /\ t.key # v.key
    <2>1. d = "DecryptFailed"
      BY <1>0, <1>2, TokensAssumption DEF Verdict
    <2>2. Opened(t, v) = None
      BY <1>2 DEF Opened
    <2> QED BY <2>1, <2>2 DEF Fits, StatusOf, Forbidden
  <1>3. CASE t \in Sealed /\ t.key = v.key
    <2> DEFINE p == t.payload
    <2>1. d = Checked(p, q.chapter, now)
      BY <1>0, <1>3, TokensAssumption DEF Verdict
    <2>2. Opened(t, v) = p
      BY <1>0, <1>3 DEF Opened
    <2>3. p \in Payload \cup {None} /\ now \in Int
      BY <1>3, TimesAssumption DEF Sealed
    <2>4. CASE p = None
      <3>1. d = "InvalidPayload" /\ ~Issued(t)
        BY <2>1, <2>4, NoneAssumption DEF Checked, Issued
      <3> QED BY <2>2, <2>4, <3>1 DEF Fits
    <2>5. CASE p # None
      <3>1. p \in Payload /\ p.expires \in Times \cup {None}
        BY <2>3, <2>5 DEF Payload
      <3>2. d = "Ok" <=> /\ p.hash = q.chapter
                         /\ p.expires # None /\ p.expires > now
        BY <2>1, <2>5 DEF Checked
      <3>3. d \in {"Ok", "InvalidChapterHash", "InvalidPayload", "TokenExpired"}
        BY <2>1 DEF Checked
      <3>4. p.expires # None => d # "InvalidPayload"
        BY <2>1, <2>5 DEF Checked
      <3>5. Issued(t) => StatusOf(d) \in {200, 403}
        <4>1. Issued(t) => d \in {"Ok", "InvalidChapterHash", "TokenExpired"}
          BY <3>3, <3>4 DEF Issued
        <4>2. d = "Ok" => StatusOf(d) = 200
          BY DEF StatusOf
        <4>3. d \in {"InvalidChapterHash", "TokenExpired"} => StatusOf(d) = 403
          <5> HIDE DEF d
          <5> QED BY DEF StatusOf, Forbidden
        <4> QED BY <4>1, <4>2, <4>3
      <3>6. Fits(d, v, q, now)
        <4>1. d = "Ok" <=> /\ Opened(t, v) # None
                           /\ Opened(t, v).hash = q.chapter
                           /\ Opened(t, v).expires # None
                           /\ Opened(t, v).expires > now
          BY <2>2, <2>5, <3>2
        <4> QED BY <3>5, <4>1 DEF Fits
      <3> QED BY <3>3, <3>6
    <2> QED BY <2>4, <2>5
  <1> QED BY <1>0, <1>1, <1>2, <1>3

\* No verdict and no poll is neither a NoKey nor a NoUpstreamError.
LEMMA NothingYet == None # "NoKey" /\ None # 0
  <1>1. "NoKey" \in TokenErrors /\ 0 \in 0 .. MaxPings
    BY PingsAssumption DEF TokenErrors
  <1> QED BY <1>1, NoneAssumption

LEMMA InitInv == Init => IInv
  <1> SUFFICES ASSUME Init  PROVE IInv
    OBVIOUS
  <1>1. TypeOK
    BY InitType
  <1>2. Age(None) = 0
    BY DEF Age
  <1>3. CellsSet /\ CellsOrdered
    BY <1>2 DEF Init, CellsSet, CellsOrdered
  <1>4. \A c \in Clients : /\ stage[c] = "away" /\ ask[c] = None
                           /\ loaded[c] = None /\ verdict[c] = None
                           /\ polled[c] = None
    BY DEF Init
  <1>5. NeverUnset /\ UpstreamNotOlder /\ VerdictFits
    BY <1>4, NothingYet DEF NeverUnset, UpstreamNotOlder, VerdictFits
  <1> QED BY <1>1, <1>3, <1>4, <1>5 DEF IInv, Clean, Asked

\* The main thread only makes the cells younger.
LEMMA MainInv ==
  ASSUME IInv, MainStep
  PROVE  IInv'
  <1> USE DEF config, request
  <1>1. TypeOK' /\ TypeOK
    BY NextType DEF IInv, CellsSet, Next, TypeInv
  <1>2. /\ UNCHANGED <<stage, seen, request>>
        /\ up => up'
    BY DEF MainStep, PingStores, KeyStores, Spawn
  <1>3. /\ Age(info) \in Nat /\ Age(info') \in Nat
        /\ Age(verifier) \in Nat /\ Age(verifier') \in Nat
    BY <1>1, AgeType, PingsAssumption DEF TypeOK
  <1>4. CellsSet' /\ Age(info) <= Age(info') /\ Age(verifier') <= Age(info')
    <2>1. ASSUME NEW h \in Hosts, NEW k \in TokenKeys, PingStores(h, k)
          PROVE  CellsSet' /\ Age(info) <= Age(info') /\ Age(verifier') <= Age(info')
      <3>1. info' # None /\ info'.ping = Age(info) + 1
        <4>1. info' \in PingStore \cup {None}
          BY <1>1 DEF TypeOK
        <4>2. Age(info) + 1 \in Ping
          <5>1. Age(info) < MaxPings
            BY <2>1 DEF PingStores
          <5> QED BY <1>3, <5>1, PingsAssumption DEF Ping
        <4>3. info' \in PingStore
          BY <2>1, <4>2 DEF PingStores, PingStore
        <4> QED BY <2>1, <4>3, NoneAssumption DEF PingStores
      <3>2. Age(info') = Age(info) + 1
        BY <3>1 DEF Age
      <3>3. CellsSet'
        BY <2>1, <3>1 DEF PingStores, IInv, CellsSet
      <3> QED BY <2>1, <1>3, <3>2, <3>3 DEF PingStores, IInv, CellsOrdered
    <2>2. CASE KeyStores
      <3>1. info # None /\ UNCHANGED <<info, up>>
        BY <2>2 DEF KeyStores, IInv, CellsSet
      <3>2. CASE info.key \in BadKeys
        BY <2>2, <3>1, <3>2, <1>3 DEF KeyStores, IInv, CellsSet, CellsOrdered
      <3>3. CASE info.key \notin BadKeys
        <4>1. verifier' = [ping |-> info.ping, key |-> info.key]
          BY <2>2, <3>3 DEF KeyStores
        <4>2. verifier' \in Verifier
          BY <1>1, <3>1, <3>3, <4>1 DEF TypeOK, PingStore, Verifier
        <4>3. verifier' # None /\ Age(verifier') = Age(info)
          BY <3>1, <4>1, <4>2, NoneAssumption DEF Age
        <4> QED BY <2>2, <3>1, <3>3, <4>3, <1>3 DEF KeyStores, IInv, CellsSet
      <3> QED BY <3>2, <3>3
    <2>3. CASE Spawn
      BY <2>3, <1>3 DEF Spawn, IInv, CellsSet, CellsOrdered
    <2> QED BY <2>1, <2>2, <2>3 DEF MainStep
  <1>5. CellsOrdered'
    <2>1. ASSUME NEW c \in Clients
          PROVE  seen'[c] <= Age(info') /\ Age(loaded'[c]) <= Age(info')
      <3>1. seen[c] \in Nat /\ Age(loaded[c]) \in Nat
        <4>1. seen[c] \in 0 .. MaxPings /\ loaded[c] \in Verifier \cup {None}
          BY <1>1 DEF TypeOK
        <4> QED BY <4>1, AgeType, PingsAssumption
      <3>2. seen'[c] = seen[c] /\ loaded'[c] = loaded[c]
        BY <1>2
      <3>3. seen[c] <= Age(info) /\ Age(loaded[c]) <= Age(info)
        BY DEF IInv, CellsOrdered
      <3> QED BY <1>3, <1>4, <3>1, <3>2, <3>3
    <2> QED BY <1>4, <2>1 DEF CellsOrdered
  <1> QED BY <1>1, <1>2, <1>4, <1>5
          DEF IInv, Clean, Asked, NeverUnset, UpstreamNotOlder, VerdictFits

\* A client reads the cells, and disturbs only what is kept of itself.
LEMMA ClientInv ==
  ASSUME IInv, NEW c \in Clients, ClientStep(c)
  PROVE  IInv'
  <1> DEFINE Of(d) == /\ Clean(d) /\ Asked(d) /\ (stage[d] # "away" => up)
                      /\ seen[d] <= Age(info) /\ Age(loaded[d]) <= Age(info)
                      /\ verdict[d] # "NoKey" /\ polled[d] # 0
                      /\ (polled[d] # None => /\ polled[d] >= seen[d]
                                              /\ polled[d] >= Age(loaded[d]))
                      /\ (verdict[d] # None =>
                            Fits(verdict[d], loaded[d], ask[d], at[d]))
  <1> DEFINE Same(d) == /\ stage'[d] = stage[d] /\ seen'[d] = seen[d]
                        /\ ask'[d] = ask[d] /\ loaded'[d] = loaded[d]
                        /\ at'[d] = at[d] /\ verdict'[d] = verdict[d]
                        /\ polled'[d] = polled[d]
  <1> USE DEF config, main, request
  <1>1. TypeOK' /\ TypeOK
    BY NextType DEF IInv, CellsSet, Next, TypeInv
  <1>2. UNCHANGED main
    BY DEF ClientStep, Connect, Asks, Verify, Poll, Answer, KeepAlive, Leave, Over
  <1>3. ASSUME NEW d \in Clients, d # c  PROVE Same(d)
    <2>1. ASSUME NEW n \in Names \cup {None}, Connect(c, n)  PROVE Same(d)
      BY <1>1, <1>3, <2>1 DEF Connect, TypeOK
    <2>2. ASSUME NEW q \in Ask, Asks(c, q)  PROVE Same(d)
      BY <1>1, <1>3, <2>2 DEF Asks, TypeOK
    <2>3. ASSUME NEW now \in Times, Verify(c, now)  PROVE Same(d)
      BY <1>1, <1>3, <2>3 DEF Verify, TypeOK
    <2>4. CASE Poll(c)
      BY <1>1, <1>3, <2>4 DEF Poll, TypeOK
    <2>5. CASE Answer(c)
      BY <1>1, <1>3, <2>5 DEF Answer, TypeOK
    <2>6. CASE KeepAlive(c)
      BY <1>1, <1>3, <2>6 DEF KeepAlive, Over, TypeOK
    <2>7. CASE Leave(c)
      <3>1. seen'[d] = seen[d] /\ Over(c, "away")
        BY <1>1, <1>3, <2>7 DEF Leave, TypeOK
      <3> QED BY <1>1, <1>3, <3>1 DEF Over, TypeOK
    <2> QED BY <2>1, <2>2, <2>3, <2>4, <2>5, <2>6, <2>7 DEF ClientStep
  <1>4. \A d \in Clients : Of(d)
    BY DEF IInv, CellsOrdered, NeverUnset, UpstreamNotOlder, VerdictFits
  <1>5. ASSUME NEW d \in Clients, d # c  PROVE Of(d)'
    BY <1>2, <1>3, <1>4, <1>5 DEF Clean, Asked
  <1>6. /\ seen[c] \in Nat /\ Age(info) \in Nat /\ Age(loaded[c]) \in Nat
        /\ Age(None) = 0 /\ Age(verifier) <= Age(info)
        /\ up => info # None /\ Age(info) >= 1 /\ verifier # None
    <2>1. seen[c] \in Nat
      <3>1. seen[c] \in 0 .. MaxPings
        BY <1>1 DEF TypeOK
      <3> QED BY <3>1, PingsAssumption
    <2>2. Age(info) \in Nat /\ Age(loaded[c]) \in Nat
      BY <1>1, AgeType DEF TypeOK
    <2>3. Age(None) = 0
      BY DEF Age
    <2>4. Age(verifier) <= Age(info) /\ (up => info # None /\ verifier # None)
      BY DEF IInv, CellsSet, CellsOrdered
    <2>5. info # None => Age(info) >= 1
      BY <1>1, AgeType DEF TypeOK
    <2> QED BY <2>1, <2>2, <2>3, <2>4, <2>5
  <1>7. Of(c)'
    <2>1. ASSUME NEW n \in Names \cup {None}, Connect(c, n)  PROVE Of(c)'
      <3>1. /\ stage'[c] = "open" /\ seen'[c] = Age(info) /\ up /\ stage[c] = "away"
            /\ UNCHANGED request
        BY <1>1, <2>1 DEF Connect, TypeOK
      <3> QED BY <1>2, <1>4, <1>6, <3>1 DEF Clean, Asked
    <2>2. ASSUME NEW q \in Ask, Asks(c, q)  PROVE Of(c)'
      <3>1. /\ stage'[c] \in {"asked", "cleared"} /\ stage[c] = "open"
            /\ ask'[c] = q /\ UNCHANGED <<seen, at, verdict, polled>>
            /\ loaded'[c] \in {None, verifier}
            /\ stage'[c] = "asked" => loaded'[c] = verifier
        BY <1>1, <2>2 DEF Asks, TypeOK
      <3> QED BY <1>2, <1>4, <1>6, <3>1 DEF Clean, Asked
    <2>3. ASSUME NEW now \in Times, Verify(c, now)  PROVE Of(c)'
      <3>1. /\ stage'[c] \in {"cleared", "answered"} /\ stage[c] = "asked"
            /\ at'[c] = now /\ verdict'[c] = Verdict(loaded[c], ask[c], now)
            /\ UNCHANGED <<seen, ask, loaded, polled>>
        BY <1>1, <2>3 DEF Verify, TypeOK
      <3>2. ask[c] \in Ask /\ loaded[c] \in Verifier
        BY <1>1, <1>4, <3>1 DEF Asked, TypeOK
      <3>3. /\ Verdict(loaded[c], ask[c], now) # "NoKey"
            /\ Fits(Verdict(loaded[c], ask[c], now), loaded[c], ask[c], now)
        BY <3>2, VerdictRight
      <3> QED BY <1>2, <1>4, <3>1, <3>2, <3>3 DEF Clean, Asked
    <2>4. CASE Poll(c)
      <3>1. /\ polled'[c] = Age(info) /\ stage[c] = "cleared"
            /\ UNCHANGED <<stage, seen, ask, loaded, at, verdict>>
        BY <1>1, <2>4 DEF Poll, TypeOK
      <3> QED BY <1>2, <1>4, <1>6, <3>1 DEF Clean, Asked
    <2>5. CASE Answer(c)
      <3>1. /\ stage'[c] = "answered" /\ stage[c] = "cleared"
            /\ UNCHANGED <<seen, request>>
        BY <1>1, <2>5 DEF Answer, TypeOK
      <3> QED BY <1>2, <1>4, <3>1 DEF Clean, Asked
    <2>6. CASE KeepAlive(c) \/ Leave(c)
      <3>0. PICK to \in {"away", "open"} : stage[c] # "away" /\ Over(c, to)
        BY <2>6 DEF KeepAlive, Leave
      <3>1. /\ ask'[c] = None /\ loaded'[c] = None /\ verdict'[c] = None
            /\ polled'[c] = None
        BY <1>1, <3>0 DEF Over, TypeOK
      <3>2. stage[c] # "away" /\ stage'[c] \in {"away", "open"}
        BY <1>1, <3>0 DEF Over, TypeOK
      <3>3. seen'[c] \in {0, seen[c]}
        BY <1>1, <2>6 DEF KeepAlive, Leave, TypeOK
      <3>4. seen'[c] <= Age(info) /\ Age(loaded'[c]) <= Age(info)
        BY <1>4, <1>6, <3>1, <3>3
      <3>5. Clean(c)' /\ Asked(c)' /\ (stage'[c] # "away" => up)
        BY <1>4, <3>1, <3>2 DEF Clean, Asked
      <3>6. verdict'[c] # "NoKey" /\ polled'[c] # 0
        BY <3>1, NothingYet
      <3> QED BY <1>2, <3>1, <3>4, <3>5, <3>6
    <2> QED BY <2>1, <2>2, <2>3, <2>4, <2>5, <2>6 DEF ClientStep
  <1>8. \A d \in Clients : Of(d)'
    BY <1>5, <1>7
  <1>9. CellsSet' /\ Age(verifier')<= Age(info')
    BY <1>2, <1>6 DEF IInv, CellsSet
  <1> QED BY <1>1, <1>8, <1>9
          DEF IInv, CellsOrdered, NeverUnset, UpstreamNotOlder, VerdictFits

THEOREM Invariance == Spec => []IInv
  <1>1. IInv /\ UNCHANGED vars => IInv'
    <2> SUFFICES ASSUME IInv, UNCHANGED vars  PROVE IInv'
      OBVIOUS
    <2>1. TypeOK' /\ CellsSet' /\ CellsOrdered'
      BY DEF vars, IInv, TypeOK, CellsSet, CellsOrdered
    <2>2. NeverUnset' /\ UpstreamNotOlder' /\ VerdictFits'
      BY DEF vars, IInv, NeverUnset, UpstreamNotOlder, VerdictFits
    <2> QED BY <2>1, <2>2 DEF vars, IInv, Clean, Asked
  <1>2. IInv /\ [Next]_vars => IInv'
    BY <1>1, MainInv, ClientInv DEF Next
  <1> QED BY <1>2, InitInv, PTL DEF Spec

\* main.rs, handler.rs: no request meets a verifier without a key or a backend
\* without an upstream server.
THEOREM NeverUnsetCorrect == Spec => []NeverUnset
  BY Invariance, PTL DEF IInv

\* handler.rs: upstream is never older than the key and the host name that let
\* the request in.
THEOREM UpstreamCorrect == Spec => []UpstreamNotOlder
  BY Invariance, PTL DEF IInv

\* tokens.rs: every verdict is the right one.
THEOREM VerdictCorrect == Spec => []VerdictFits
  BY Invariance, PTL DEF IInv

=============================================================================
