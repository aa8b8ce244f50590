---------------------------- MODULE ImageCacheProofs ----------------------------
(***************************************************************************)
(* Theorems on src/cache/mod.rs: what the promise of the ImageCache trait  *)
(* amounts to for its callers, inherited by every engine that implements   *)
(* ImageCache, and what the keys of the images tell apart.                 *)
(***************************************************************************)
EXTENDS ImageCache, ImageKeys, SequenceTheorems, TLAPS

\* A call that changes one save or all keeps the type of saves.
LEMMA NextType == TypeOK /\ [Next]_vars => TypeOK'
  <1> SUFFICES ASSUME TypeOK, [Next]_vars  PROVE TypeOK'
    OBVIOUS
  <1>0. \A s \in Savers : saves[s] # None => Met(saves[s]) \in SaveOp
    BY DEF TypeOK, SaveOp, Met
  <1>1. ASSUME NEW s \in Savers, NEW k \in Keys, NEW c \in Contents,
               Save(s, k, c)
        PROVE  TypeOK'
    <2>1. saves' \in [Savers -> SaveOp \cup {None}]
      <3>1. [key |-> k, content |-> c, lone |-> Saving(k) = {}] \in SaveOp
        BY DEF SaveOp
      <3> QED BY <1>0, <1>1, <3>1 DEF Save, Saving, TypeOK
    <2> QED BY <1>1, <2>1 DEF Save, TypeOK
  <1>2. ASSUME NEW s \in Savers, Saved(s) \/ Fail(s)  PROVE TypeOK'
    BY <1>0, <1>2 DEF Saved, Fail, Forgets, TypeOK
  <1>3. ASSUME NEW l \in Loaders, NEW k \in Keys, Load(l, k)  PROVE TypeOK'
    <2>1. [key |-> k, bytes |-> None, sum |-> None] \in LoadOp
      BY DEF LoadOp
    <2> QED BY <1>3, <2>1 DEF Load, TypeOK
  <1>4. ASSUME NEW l \in Loaders, Find(l)  PROVE TypeOK'
    <2>1. loads[l] \in LoadOp
      BY <1>4 DEF Find, TypeOK
    <2>2. PICK b \in held[loads[l].key] \cup {None} \cup {loads[l].bytes},
               m \in held[loads[l].key] \cup {None} \cup {loads[l].sum} :
            loads' = [loads EXCEPT ![l] = [key |-> loads[l].key,
                                           bytes |-> b, sum |-> m]]
      BY <1>4 DEF Find
    <2>3. /\ loads[l].key \in Keys
          /\ b \in Contents \cup {None} /\ m \in Contents \cup {None}
      BY <2>1 DEF LoadOp, TypeOK
    <2>4. [key |-> loads[l].key, bytes |-> b, sum |-> m] \in LoadOp
      BY <2>3 DEF LoadOp
    <2> QED BY <1>4, <2>2, <2>4 DEF Find, TypeOK
  <1>5. ASSUME NEW l \in Loaders, Answer(l)  PROVE TypeOK'
    BY <1>5 DEF Answer, MayFail, TypeOK
  <1>6. CASE Forget \/ Crash
    BY <1>6 DEF Forget, Crash, Forgets, MayFail, TypeOK
  <1>7. CASE UNCHANGED vars
    BY <1>7 DEF vars, TypeOK
  <1> QED BY <1>1, <1>2, <1>3, <1>4, <1>5, <1>6, <1>7 DEF Next

\* The calls of the trait and what they may find are well typed.
THEOREM TypeCorrect == Spec => []TypeOK
  <1>1. Init => TypeOK
    BY DEF Init, TypeOK
  <1> QED BY <1>1, NextType, PTL DEF Spec

\* A load that can find but one image, and meets no save of its key, answers
\* with that image or with nothing, whatever the engine forgets meanwhile.
THEOREM LoadStaysPureCorrect == Spec => LoadStaysPure
  <1>1. ASSUME TypeOK, Next, NEW l \in Loaders, NEW c \in Contents,
               Only(l, c), loads'[l] # None, ~Begins(loads[l].key)
        PROVE  Only(l, c)'
    <2> DEFINE k == loads[l].key
    <2>0. loads[l] \in LoadOp /\ k \in Keys
      BY <1>1 DEF Only, TypeOK, LoadOp
    <2>1. ASSUME NEW s \in Savers, NEW j \in Keys, NEW d \in Contents,
                 Save(s, j, d)
          PROVE  Only(l, c)'
      <3>1. j # k
        BY <1>1, <2>1 DEF Begins
      <3> QED BY <1>1, <2>0, <2>1, <3>1 DEF Save, Only, TypeOK
    <2>2. ASSUME UNCHANGED loads, Forgets  PROVE Only(l, c)'
      BY <1>1, <2>0, <2>2 DEF Only, Forgets
    <2>3. ASSUME NEW m \in Loaders, NEW j \in Keys, Load(m, j)
          PROVE  Only(l, c)'
      <3>1. m # l
        BY <1>1, <2>3 DEF Load, Only
      <3> QED BY <1>1, <2>3, <3>1 DEF Load, Only, TypeOK
    <2>4. ASSUME NEW m \in Loaders, Find(m)  PROVE Only(l, c)'
      <3>1. CASE m # l
        BY <1>1, <2>4, <3>1 DEF Find, Only, TypeOK
      <3>2. CASE m = l
        <4>1. PICK b \in held[k] \cup {None} \cup {loads[l].bytes},
                   d \in held[k] \cup {None} \cup {loads[l].sum} :
                loads' = [loads EXCEPT ![l] = [key |-> k, bytes |-> b,
                                               sum |-> d]]
          BY <2>4, <3>2 DEF Find
        <4>2. loads'[l] = [key |-> k, bytes |-> b, sum |-> d]
          BY <1>1, <4>1 DEF TypeOK
        <4>3. b \in {c, None} /\ d \in {c, None}
          BY <1>1 DEF Only
        <4> QED BY <1>1, <2>4, <4>2, <4>3 DEF Find, Only
      <3> QED BY <3>1, <3>2
    <2>5. ASSUME NEW m \in Loaders, Answer(m)  PROVE Only(l, c)'
      BY <1>1, <2>5 DEF Answer, Only, TypeOK
    <2>6. CASE Crash
      BY <1>1, <2>6 DEF Crash
    <2> QED BY <1>1, <2>1, <2>2, <2>3, <2>4, <2>5, <2>6
            DEF Next, Saved, Fail, Forget
  <1>2. TypeOK /\ [Next]_vars =>
          [\A l \in Loaders, c \in Contents :
             (Only(l, c) /\ loads'[l] # None /\ ~Begins(loads[l].key))
               => Only(l, c)']_vars
    BY <1>1
  <1>3. Init => TypeOK
    BY DEF Init, TypeOK
  <1> QED BY <1>2, <1>3, NextType, PTL DEF Spec, LoadStaysPure

-----------------------------------------------------------------------------
\* Texts of one length that begin two equal texts are equal, and so are their
\* remainders.
LEMMA SplitsAlike ==
  ASSUME NEW s \in Text, NEW t \in Text, NEW u \in Text, NEW v \in Text,
         Len(s) = Len(u), s \o t = u \o v
  PROVE  s = u /\ t = v
  <1>1. /\ Len(s \o t) = Len(s) + Len(t) /\ Len(u \o v) = Len(u) + Len(v)
        /\ \A i \in 1 .. Len(s) + Len(t) :
             (s \o t)[i] = IF i <= Len(s) THEN s[i] ELSE t[i - Len(s)]
        /\ \A i \in 1 .. Len(u) + Len(v) :
             (u \o v)[i] = IF i <= Len(u) THEN u[i] ELSE v[i - Len(u)]
    BY ConcatProperties DEF Text
  <1>2. Len(s) \in Nat /\ Len(t) \in Nat /\ Len(v) \in Nat
    BY DEF Text
  <1>3. Len(t) = Len(v)
    BY <1>1, <1>2
  <1>4. ASSUME NEW i \in 1 .. Len(s)  PROVE s[i] = u[i]
    <2>1. (s \o t)[i] = s[i] /\ (u \o v)[i] = u[i]
      BY <1>1, <1>2
    <2> QED BY <2>1
  <1>5. ASSUME NEW i \in 1 .. Len(t)  PROVE t[i] = v[i]
    <2> DEFINE n == Len(s) + i
    <2>1. n \in 1 .. Len(s) + Len(t) /\ ~(n <= Len(s)) /\ n - Len(s) = i
      BY <1>2
    <2> HIDE DEF n
    <2>2. (s \o t)[n] = t[n - Len(s)] /\ (u \o v)[n] = v[n - Len(s)]
      BY <1>1, <1>3, <2>1, Zenon
    <2> QED BY <2>1, <2>2
  <1> QED BY <1>3, <1>4, <1>5, SeqEqual DEF Text

\* cache/mod.rs: what is hashed tells the keys of images apart, as the doc of
\* as_bkey says, where all chapters have names of one length.
THEOREM KeysDiffer ==
  ASSUME NEW j \in ImageKey, NEW k \in ImageKey,
         Len(j.chapter) = Len(k.chapter), Hashed(j) = Hashed(k)
  PROVE  j = k
  <1>1. /\ j.chapter \in Text /\ j.image \in Text /\ j.data_saver \in {0, 1}
        /\ k.chapter \in Text /\ k.image \in Text /\ k.data_saver \in {0, 1}
    BY DEF ImageKey
  <1>2. /\ <<j.data_saver>> \in Text /\ <<k.data_saver>> \in Text
        /\ Len(<<j.data_saver>>) = 1 /\ Len(<<k.data_saver>>) = 1
        /\ j.chapter \o j.image \in Text /\ k.chapter \o k.image \in Text
    BY <1>1 DEF Text, Byte
  <1>3. /\ <<j.data_saver>> = <<k.data_saver>>
        /\ j.chapter \o j.image = k.chapter \o k.image
    <2> DEFINE s == <<j.data_saver>>  t == j.chapter \o j.image
               u == <<k.data_saver>>  v == k.chapter \o k.image
    <2>1. s \in Text /\ t \in Text /\ u \in Text /\ v \in Text
      BY <1>2
    <2>2. Len(s) = Len(u) /\ s \o t = u \o v
      BY <1>2 DEF Hashed
    <2> HIDE DEF s, t, u, v
    <2>3. s = u /\ t = v
      BY <2>1, <2>2, SplitsAlike
    <2> QED BY <2>3 DEF s, t, u, v
  <1>4. j.data_saver = k.data_saver
    BY <1>3
  <1>5. j.chapter = k.chapter /\ j.image = k.image
    BY <1>1, <1>3, SplitsAlike
  <1> QED BY <1>4, <1>5 DEF ImageKey

\* cache/mod.rs: without that it does not, since the end of a chapter may as
\* well begin the image.
THEOREM KeysMayMeet ==
  \E j \in ImageKey, k \in ImageKey : j # k /\ Hashed(j) = Hashed(k)
  <1> DEFINE j == [chapter |-> <<0>>, image |-> <<>>, data_saver |-> 0]
             k == [chapter |-> <<>>, image |-> <<0>>, data_saver |-> 0]
  <1>1. <<>> \in Text /\ <<0>> \in Text
    BY DEF Text, Byte
  <1>2. j \in ImageKey /\ k \in ImageKey
    BY <1>1 DEF ImageKey
  <1>3. j # k
    <2>1. Len(<<0>>) = 1 /\ Len(<<>>) = 0
      OBVIOUS
    <2>2. j.chapter # k.chapter
      BY <2>1
    <2> QED BY <2>2
  <1>4. <<0>> \o <<>> = <<0>> /\ <<>> \o <<0>> = <<0>>
    BY <1>1, ConcatEmptySeq DEF Text
  <1>5. Hashed(j) = Hashed(k)
    BY <1>4 DEF Hashed
  <1> QED BY <1>2, <1>3, <1>5

=============================================================================
