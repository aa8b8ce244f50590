----------------------------- MODULE SumTheorems -----------------------------
(***************************************************************************)
(* Facts about SumFunction, the sum of the values of a function, for       *)
(* functions from a finite set to the naturals.  Both cache engines compare *)
(* a counter with such a sum: the bytes of all that is stored.             *)
(*                                                                         *)
(* SumFunction takes the elements out of the domain one by one.  What has  *)
(* been summed at each point is a function on the subsets of the domain    *)
(* (Partial); the facts below hold of every subset, by induction on it: a  *)
(* smallest subset of which they do not hold would have an element to take *)
(* out, and a smaller one would be left.                                   *)
(***************************************************************************)
EXTENDS Integers, Functions, FiniteSetTheorems, TLAPS

Taken(s) == CHOOSE x \in s : TRUE

\* g[s] is the sum of w over s, in the order in which SumFunction goes.
Partial(w, g) ==
  g = [s \in SUBSET DOMAIN w |->
         IF s = {} THEN 0 ELSE w[Taken(s)] + g[s \ {Taken(s)}]]

\* Induction on the naturals, stated of a set.
LEMMA Induction ==
  ASSUME NEW T \in SUBSET Nat, 0 \in T, \A n \in T : n + 1 \in T
  PROVE  T = Nat
  <1> DEFINE R == OpToRel(<, Nat)
  <1>1. IsWellFoundedOn(R, Nat)
    BY NatLessThanWellFounded
  <1>2. \A m, n \in Nat : m < n => <<m, n>> \in R
    BY DEF OpToRel
  <1> HIDE DEF R
  <1>3. SUFFICES ASSUME Nat \ T # {}  PROVE FALSE
    OBVIOUS
  <1>4. PICK n \in Nat \ T : \A m \in Nat \ T : ~(<<m, n>> \in R)
    BY <1>1, <1>3, WFMin
  <1>5. n - 1 \in Nat /\ n - 1 < n
    BY <1>4
  <1>6. n - 1 \in T
    BY <1>2, <1>4, <1>5
  <1> QED BY <1>4, <1>6

\* Induction on a finite set: among some of its subsets one is smallest.
LEMMA SmallestSubset ==
  ASSUME NEW D, IsFiniteSet(D), NEW T \in SUBSET (SUBSET D), T # {}
  PROVE  \E s \in T : \A t \in T : t \subseteq s => t = s
  <1> DEFINE R == StrictSubsetOrdering(D)
  <1>1. IsWellFoundedOn(R, SUBSET D)
    BY FS_StrictSubsetOrderingWellFounded, FS_FiniteSubsetsOfFinite
  <1>2. \A s, t \in SUBSET D : t \subseteq s /\ t # s => <<t, s>> \in R
    BY DEF StrictSubsetOrdering
  <1> HIDE DEF R
  <1>3. PICK s \in T : \A t \in T : ~(<<t, s>> \in R)
    BY <1>1, WFMin
  <1> QED BY <1>2, <1>3

LEMMA TakenIn == ASSUME NEW s, s # {}  PROVE Taken(s) \in s
  BY DEF Taken

\* What Partial says of g at s.
Follows(w, g, s) ==
  g[s] = IF s = {} THEN 0 ELSE w[Taken(s)] + g[s \ {Taken(s)}]

\* The sums over all subsets exist: those over sets of n elements come from
\* those over sets of fewer.
LEMMA PartialExists ==
  ASSUME NEW D, IsFiniteSet(D), NEW w \in [D -> Nat]
  PROVE  \E g \in [SUBSET D -> Nat] : Partial(w, g)
  <1> DEFINE T == {n \in Nat : \E g \in [SUBSET D -> Nat] :
                     \A s \in SUBSET D : Cardinality(s) <= n => Follows(w, g, s)}
  <1>1. \A s \in SUBSET D : /\ IsFiniteSet(s) /\ Cardinality(s) \in Nat
                            /\ Cardinality(s) <= Cardinality(D)
                            /\ Cardinality(s) = 0 => s = {}
    BY FS_Subset, FS_CardinalityType, FS_EmptySet
  <1>2. \A s \in SUBSET D : s # {} =>
           /\ s \ {Taken(s)} \in SUBSET D /\ Taken(s) \in D
           /\ Cardinality(s \ {Taken(s)}) = Cardinality(s) - 1
    BY <1>1, TakenIn, FS_RemoveElement
  <1>3. 0 \in T
    <2> DEFINE g == [s \in SUBSET D |-> 0]
    <2>1. g \in [SUBSET D -> Nat]
      OBVIOUS
    <2>2. \A s \in SUBSET D : Cardinality(s) <= 0 => Follows(w, g, s)
      BY <1>1 DEF Follows
    <2> QED BY <2>1, <2>2
  <1>4. ASSUME NEW n \in T  PROVE n + 1 \in T
    <2>1. PICK g \in [SUBSET D -> Nat] :
             \A s \in SUBSET D : Cardinality(s) <= n => Follows(w, g, s)
      OBVIOUS
    <2> DEFINE h == [s \in SUBSET D |->
                       IF s = {} THEN 0 ELSE w[Taken(s)] + g[s \ {Taken(s)}]]
    <2>2. h \in [SUBSET D -> Nat]
      <3>1. \A s \in SUBSET D : s # {} =>
               w[Taken(s)] \in Nat /\ g[s \ {Taken(s)}] \in Nat
        BY <1>2
      <3> QED BY <3>1
    <2>3. \A s \in SUBSET D : Cardinality(s) <= n => h[s] = g[s]
      BY <2>1 DEF Follows
    <2>4. ASSUME NEW s \in SUBSET D, Cardinality(s) <= n + 1, s # {}
          PROVE  h[s \ {Taken(s)}] = g[s \ {Taken(s)}]
      <3>1. Cardinality(s \ {Taken(s)}) <= n
        BY <1>1, <1>2, <2>4
      <3> QED BY <1>2, <2>3, <3>1
    <2>5. ASSUME NEW s \in SUBSET D, Cardinality(s) <= n + 1
          PROVE  Follows(w, h, s)
      <3>1. h[s] = IF s = {} THEN 0 ELSE w[Taken(s)] + g[s \ {Taken(s)}]
        OBVIOUS
      <3> HIDE DEF h
      <3> QED BY <2>4, <2>5, <3>1 DEF Follows
    <2> HIDE DEF h
    <2> QED BY <2>2, <2>5
  <1>5. T = Nat
    <2>1. T \in SUBSET Nat
      OBVIOUS
    <2> HIDE DEF T
    <2> QED BY <1>3, <1>4, <2>1, Induction
  <1>6. Cardinality(D) \in T
    BY <1>1, <1>5
  <1>7. PICK g \in [SUBSET D -> Nat] : \A s \in SUBSET D : Follows(w, g, s)
    BY <1>1, <1>6
  <1> QED BY <1>7 DEF Partial, Follows

\* What every function that follows the recursion is like.
LEMMA PartialType ==
  ASSUME NEW D, IsFiniteSet(D), NEW w \in [D -> Nat], NEW g, Partial(w, g)
  PROVE  g \in [SUBSET D -> Nat]
  <1>1. g = [s \in SUBSET D |->
               IF s = {} THEN 0 ELSE w[Taken(s)] + g[s \ {Taken(s)}]]
    BY DEF Partial
  <1>2. ASSUME NEW s \in SUBSET D, g[s] \notin Nat  PROVE FALSE
    <2> DEFINE T == {u \in SUBSET D : g[u] \notin Nat}
    <2>0. T \in SUBSET (SUBSET D) /\ T # {}
      BY <1>2
    <2> HIDE DEF T
    <2>1a. PICK t \in T : \A u \in T : u \subseteq t => u = t
      BY <2>0, SmallestSubset
    <2> USE DEF T
    <2>1. /\ t \in SUBSET D /\ g[t] \notin Nat
          /\ \A u \in SUBSET D : u \subseteq t /\ u # t => g[u] \in Nat
      BY <2>1a
    <2>2. t # {}
      BY <1>1, <2>1
    <2>3. Taken(t) \in t
      BY <2>2, TakenIn
    <2>4. g[t \ {Taken(t)}] \in Nat
      BY <2>1, <2>3
    <2>5. g[t] = w[Taken(t)] + g[t \ {Taken(t)}]
      BY <1>1, <2>1, <2>2
    <2>6. w[Taken(t)] \in Nat
      BY <2>1, <2>3
    <2> QED BY <2>1, <2>4, <2>5, <2>6
  <1> QED BY <1>1, <1>2

\* SumFunction is the partial sum over the whole domain.
LEMMA SumIsPartial ==
  ASSUME NEW D, IsFiniteSet(D), NEW w \in [D -> Nat]
  PROVE  \E g \in [SUBSET D -> Nat] :
           /\ SumFunction(w) = g[D] /\ g[{}] = 0
           /\ \A s \in SUBSET D : Follows(w, g, s)
  <1> DEFINE g == CHOOSE h : Partial(w, h)
  <1>1. Partial(w, g)
    BY PartialExists
  <1>2. SumFunction(w) = g[D]
    BY DEF SumFunction, SumFunctionOnSet, FoldFunctionOnSet, MapThenFoldSet,
           Partial, Taken
  <1> HIDE DEF g
  <1>3. g \in [SUBSET D -> Nat]
    BY <1>1, PartialType
  <1>4. \A s \in SUBSET D : Follows(w, g, s)
    BY <1>1 DEF Partial, Follows
  <1>5. g[{}] = 0
    BY <1>4 DEF Follows
  <1> QED BY <1>2, <1>3, <1>4, <1>5

-----------------------------------------------------------------------------
\* The sum of naturals is a natural.
THEOREM SumType ==
  ASSUME NEW D, IsFiniteSet(D), NEW w \in [D -> Nat]
  PROVE  SumFunction(w) \in Nat
  <1>1. PICK g \in [SUBSET D -> Nat] : SumFunction(w) = g[D]
    BY SumIsPartial
  <1> QED BY <1>1

\* Smaller terms, smaller sum.
THEOREM SumMonotone ==
  ASSUME NEW D, IsFiniteSet(D), NEW u \in [D -> Nat], NEW w \in [D -> Nat],
         \A x \in D : u[x] <= w[x]
  PROVE  SumFunction(u) <= SumFunction(w)
  <1>1. PICK g \in [SUBSET D -> Nat] :
           /\ SumFunction(u) = g[D] /\ g[{}] = 0
           /\ \A s \in SUBSET D : Follows(u, g, s)
    BY SumIsPartial
  <1>2. PICK h \in [SUBSET D -> Nat] :
           /\ SumFunction(w) = h[D] /\ h[{}] = 0
           /\ \A s \in SUBSET D : Follows(w, h, s)
    BY SumIsPartial
  <1> DEFINE T == {s \in SUBSET D : ~(g[s] <= h[s])}
  <1>3. SUFFICES ASSUME T # {}  PROVE FALSE
    BY <1>1, <1>2
  <1>4. PICK s \in T : \A t \in T : t \subseteq s => t = s
    <2>1. T \in SUBSET (SUBSET D)
      OBVIOUS
    <2> HIDE DEF T
    <2> QED BY <1>3, <2>1, SmallestSubset
  <1>5. s # {}
    <2>1. ~(g[s] <= h[s])
      OBVIOUS
    <2>2. g[{}] <= h[{}]
      BY <1>1, <1>2
    <2> QED BY <2>1, <2>2, Zenon
  <1> DEFINE x == Taken(s)  r == s \ {x}
  <1>6. x \in s /\ x \in D /\ r \in SUBSET D /\ r \subseteq s /\ r # s
    BY <1>5, TakenIn
  <1>7. g[s] = u[x] + g[r] /\ h[s] = w[x] + h[r]
    BY <1>1, <1>2, <1>5 DEF Follows
  <1>8. g[r] <= h[r]
    BY <1>4, <1>6
  <1> HIDE DEF x, r
  <1> QED BY <1>6, <1>7, <1>8

\* The sum of sums.
THEOREM SumAdds ==
  ASSUME NEW D, IsFiniteSet(D), NEW u \in [D -> Nat], NEW v \in [D -> Nat],
         NEW w \in [D -> Nat], \A x \in D : w[x] = u[x] + v[x]
  PROVE  SumFunction(w) = SumFunction(u) + SumFunction(v)
  <1>1. PICK g \in [SUBSET D -> Nat] :
           /\ SumFunction(u) = g[D] /\ g[{}] = 0
           /\ \A s \in SUBSET D : Follows(u, g, s)
    BY SumIsPartial
  <1>2. PICK h \in [SUBSET D -> Nat] :
           /\ SumFunction(v) = h[D] /\ h[{}] = 0
           /\ \A s \in SUBSET D : Follows(v, h, s)
    BY SumIsPartial
  <1>3. PICK f \in [SUBSET D -> Nat] :
           /\ SumFunction(w) = f[D] /\ f[{}] = 0
           /\ \A s \in SUBSET D : Follows(w, f, s)
    BY SumIsPartial
  <1> DEFINE T == {s \in SUBSET D : f[s] # g[s] + h[s]}
  <1>4. SUFFICES ASSUME T # {}  PROVE FALSE
    BY <1>1, <1>2, <1>3
  <1>5. PICK s \in T : \A t \in T : t \subseteq s => t = s
    <2>1. T \in SUBSET (SUBSET D)
      OBVIOUS
    <2> HIDE DEF T
    <2> QED BY <1>4, <2>1, SmallestSubset
  <1>6. s # {}
    <2>1. 0 = 0 + 0 /\ f[s] # g[s] + h[s]
      OBVIOUS
    <2> QED BY <1>1, <1>2, <1>3, <2>1
  <1> DEFINE x == Taken(s)  r == s \ {x}
  <1>7. x \in s /\ x \in D /\ r \in SUBSET D /\ r \subseteq s /\ r # s
    BY <1>6, TakenIn
  <1>8. g[s] = u[x] + g[r] /\ h[s] = v[x] + h[r] /\ f[s] = w[x] + f[r]
    BY <1>1, <1>2, <1>3, <1>6 DEF Follows
  <1>9. f[r] = g[r] + h[r]
    BY <1>5, <1>7
  <1> HIDE DEF x, r
  <1> QED BY <1>7, <1>8, <1>9

\* A function with one term.
THEOREM SumSingle ==
  ASSUME NEW D, IsFiniteSet(D), NEW w \in [D -> Nat], NEW k \in D,
         \A x \in D : x # k => w[x] = 0
  PROVE  SumFunction(w) = w[k]
  <1>1. PICK g \in [SUBSET D -> Nat] :
           /\ SumFunction(w) = g[D] /\ g[{}] = 0
           /\ \A s \in SUBSET D : Follows(w, g, s)
    BY SumIsPartial
  <1> DEFINE T == {s \in SUBSET D : g[s] # IF k \in s THEN w[k] ELSE 0}
  <1>2. SUFFICES ASSUME T # {}  PROVE FALSE
    BY <1>1
  <1>3. PICK s \in T : \A t \in T : t \subseteq s => t = s
    <2>1. T \in SUBSET (SUBSET D)
      OBVIOUS
    <2> HIDE DEF T
    <2> QED BY <1>2, <2>1, SmallestSubset
  <1>4. s # {}
    BY <1>1
  <1> DEFINE x == Taken(s)  r == s \ {x}
  <1>5. x \in s /\ x \in D /\ r \in SUBSET D /\ r \subseteq s /\ r # s
        /\ x \notin r /\ (k \in s <=> x = k \/ k \in r)
    BY <1>4, TakenIn
  <1>6. g[s] = w[x] + g[r]
    BY <1>1, <1>4 DEF Follows
  <1>7. g[r] = IF k \in r THEN w[k] ELSE 0
    BY <1>3, <1>5
  <1> HIDE DEF x, r
  <1> QED BY <1>5, <1>6, <1>7

\* No term, no sum.
THEOREM SumZero ==
  ASSUME NEW D, IsFiniteSet(D), NEW w \in [D -> Nat], \A x \in D : w[x] = 0
  PROVE  SumFunction(w) = 0
  <1>1. SumFunction(w) = SumFunction(w) + SumFunction(w)
    BY SumAdds
  <1> QED BY <1>1, SumType

\* One term changes.
THEOREM SumUpdate ==
  ASSUME NEW D, IsFiniteSet(D), NEW u \in [D -> Nat], NEW w \in [D -> Nat],
         NEW k \in D, \A x \in D \ {k} : w[x] = u[x]
  PROVE  SumFunction(w) + u[k] = SumFunction(u) + w[k]
  <1> DEFINE b == [x \in D |-> IF x = k THEN 0 ELSE u[x]]
             c == [x \in D |-> IF x = k THEN u[k] ELSE 0]
             d == [x \in D |-> IF x = k THEN w[k] ELSE 0]
  <1>1. b \in [D -> Nat] /\ c \in [D -> Nat] /\ d \in [D -> Nat]
    OBVIOUS
  <1>2. /\ c[k] = u[k] /\ \A x \in D : x # k => c[x] = 0
        /\ d[k] = w[k] /\ \A x \in D : x # k => d[x] = 0
    OBVIOUS
  <1>3. /\ \A x \in D : u[x] = b[x] + c[x]
        /\ \A x \in D : w[x] = b[x] + d[x]
    OBVIOUS
  <1> HIDE DEF b, c, d
  <1>4. /\ SumFunction(u) = SumFunction(b) + SumFunction(c)
        /\ SumFunction(w) = SumFunction(b) + SumFunction(d)
    BY <1>1, <1>3, SumAdds
  <1>5. SumFunction(c) = c[k] /\ SumFunction(d) = d[k]
    BY <1>1, <1>2, SumSingle
  <1>6. SumFunction(b) \in Nat
    BY <1>1, SumType
  <1> QED BY <1>2, <1>4, <1>5, <1>6

\* A sum is no less than any of its terms.
THEOREM SumTerm ==
  ASSUME NEW D, IsFiniteSet(D), NEW w \in [D -> Nat], NEW k \in D
  PROVE  w[k] <= SumFunction(w)
  <1> DEFINE d == [x \in D |-> IF x = k THEN w[k] ELSE 0]
  <1>1. /\ d \in [D -> Nat] /\ \A x \in D : d[x] <= w[x]
        /\ d[k] = w[k] /\ \A x \in D : x # k => d[x] = 0
    OBVIOUS
  <1> HIDE DEF d
  <1>2. SumFunction(d) = d[k]
    BY <1>1, SumSingle
  <1>3. SumFunction(d) <= SumFunction(w)
    BY <1>1, SumMonotone
  <1> QED BY <1>1, <1>2, <1>3

\* A sum of terms no larger than m.
THEOREM SumBound ==
  ASSUME NEW D, IsFiniteSet(D), NEW w \in [D -> Nat], NEW m \in Nat,
         \A x \in D : w[x] <= m
  PROVE  SumFunction(w) <= m * Cardinality(D)
  <1>1. PICK g \in [SUBSET D -> Nat] :
           /\ SumFunction(w) = g[D] /\ g[{}] = 0
           /\ \A s \in SUBSET D : Follows(w, g, s)
    BY SumIsPartial
  <1> DEFINE T == {s \in SUBSET D : ~(g[s] <= m * Cardinality(s))}
  <1>2. SUFFICES ASSUME T # {}  PROVE FALSE
    BY <1>1
  <1>3. PICK s \in T : \A t \in T : t \subseteq s => t = s
    <2>1. T \in SUBSET (SUBSET D)
      OBVIOUS
    <2> HIDE DEF T
    <2> QED BY <1>2, <2>1, SmallestSubset
  <1>4. Cardinality({}) = 0
    BY FS_EmptySet
  <1>5. s # {}
    <2>1. ~(g[s] <= m * Cardinality(s))
      OBVIOUS
    <2>2. g[{}] <= m * Cardinality({})
      BY <1>1, <1>4
    <2> QED BY <2>1, <2>2, Zenon
  <1> DEFINE x == Taken(s)  r == s \ {x}
  <1>6. x \in s /\ x \in D /\ r \in SUBSET D /\ r \subseteq s /\ r # s
    BY <1>5, TakenIn
  <1>7. g[s] = w[x] + g[r]
    BY <1>1, <1>5 DEF Follows
  <1>8. g[r] <= m * Cardinality(r) /\ ~(g[s] <= m * Cardinality(s))
    BY <1>3, <1>6
  <1>9. IsFiniteSet(s) /\ Cardinality(s) \in Nat /\ Cardinality(r) \in Nat
        /\ Cardinality(s) = Cardinality(r) + 1
    <2>1. IsFiniteSet(s) /\ IsFiniteSet(r)
      BY <1>6, FS_Subset
    <2>2. Cardinality(s) \in Nat /\ Cardinality(r) \in Nat
      BY <2>1, FS_CardinalityType
    <2>3. Cardinality(r) = Cardinality(s) - 1
      BY <1>6, <2>1, FS_RemoveElement
    <2> QED BY <2>1, <2>2, <2>3
  <1>10. w[x] \in Nat /\ w[x] <= m /\ g[r] \in Nat
    BY <1>6
  <1> HIDE DEF x, r
  <1>11. m * (Cardinality(r) + 1) = m * Cardinality(r) + m
    BY <1>9
  <1>12. m * Cardinality(r) \in Nat
    BY <1>9
  <1> QED BY <1>7, <1>8, <1>9, <1>10, <1>11, <1>12

=============================================================================
