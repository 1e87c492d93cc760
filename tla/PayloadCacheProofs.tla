------------------------- MODULE PayloadCacheProofs -------------------------
(***************************************************************************)
(* The sizes a payload cache accounts for: SizeOf is a sum, whatever the   *)
(* order in which the fold that defines it takes the entries.              *)
(***************************************************************************)
EXTENDS PayloadCache, FiniteSetTheorems, WellFoundedInduction, TLAPS

---------------------------------------------------------------------------
(* Orders.                                                                 *)

\* The order of log ids, Option<LogId>::cmp: total and transitive.
LEMMA IdOrder ==
  ASSUME NEW a \in OptLogId, NEW b \in OptLogId, NEW c \in OptLogId
  PROVE  /\ Lt(a, b) /\ Lt(b, c) => Lt(a, c)
         /\ ~Lt(a, a)
         /\ ~(Lt(a, b) /\ Lt(b, a))
         /\ a = b \/ Lt(a, b) \/ Lt(b, a)
<1>1. \A x \in OptLogId : x[1] \in Int /\ x[2] \in Int /\ x = <<x[1], x[2]>>
  BY DEF OptLogId, LogId, None
<1> QED
  BY <1>1 DEF Lt

\* A set of numbers that is not empty has a least member.
LEMMA LeastMember ==
  ASSUME NEW S, S \subseteq Nat, S # {}
  PROVE  \E c \in S : \A d \in S : c <= d
<1>1. PICK c \in S : \A d \in S : <<d, c>> \notin OpToRel(<, Nat)
  BY NatLessThanWellFounded, WFMin
<1>2. \A d \in S : ~(d < c)
  BY <1>1 DEF OpToRel
<1> QED
  BY <1>2

\* A set of numbers that holds 0 and the successor of each member holds all.
LEMMA AllNumbers ==
  ASSUME NEW S, S \subseteq Nat, 0 \in S, \A n \in S : n + 1 \in S
  PROVE  S = Nat
<1>1. SUFFICES ASSUME Nat \ S # {} PROVE FALSE
  OBVIOUS
<1>2. PICK m \in Nat \ S : \A d \in Nat \ S : m <= d
  <2>1. Nat \ S \subseteq Nat
    OBVIOUS
  <2> QED
    BY <1>1, <2>1, LeastMember
<1>3. m # 0 /\ m - 1 \in Nat
  OBVIOUS
<1>4. m - 1 \in S
  BY <1>2, <1>3
<1>5. (m - 1) + 1 \in S /\ (m - 1) + 1 = m
  BY <1>3, <1>4
<1> QED
  BY <1>5

Pick(s) == CHOOSE x \in s : TRUE

\* g sums f over the subsets of S, taking the entries as Pick does.
Folds(g, f, S) ==
  g = [s \in SUBSET S |-> IF s = {} THEN 0 ELSE f[Pick(s)] + g[s \ {Pick(s)}]]

Fold(f, S) == CHOOSE g : Folds(g, f, S)

LEMMA SizeIsFold ==
  ASSUME NEW c, NEW S
  PROVE  SizeOf(c, S) = Fold(c.cache, S)[S]
  BY DEF SizeOf, MapThenSumSet, MapThenFoldSet, Fold, Folds, Pick

\* The subsets of S with at most n members.
Small(S, n) == {s \in SUBSET S : Cardinality(s) <= n}

LEMMA Picked ==
  ASSUME NEW S, IsFiniteSet(S), NEW s \in SUBSET S
  PROVE  /\ IsFiniteSet(s) /\ Cardinality(s) \in Nat
         /\ Cardinality(s) = 0 <=> s = {}
         /\ s # {} => Pick(s) \in s
         /\ \A k \in s : /\ s \ {k} \in SUBSET S
                         /\ Cardinality(s \ {k}) = Cardinality(s) - 1
                         /\ Cardinality(s \ {k}) \in Nat
<1>1. IsFiniteSet(s) /\ Cardinality(s) \in Nat
  BY FS_Subset, FS_CardinalityType
<1>2. Cardinality(s) = 0 <=> s = {}
  BY <1>1, FS_EmptySet
<1>3. s # {} => Pick(s) \in s
  BY DEF Pick
<1>4. ASSUME NEW k \in s
      PROVE  /\ s \ {k} \in SUBSET S /\ Cardinality(s \ {k}) = Cardinality(s) - 1
             /\ Cardinality(s \ {k}) \in Nat
  <2>1. IsFiniteSet(s \ {k}) /\ Cardinality(s \ {k}) = Cardinality(s) - 1
    BY <1>1, FS_RemoveElement
  <2> QED
    BY <2>1, FS_CardinalityType
<1> QED
  BY <1>1, <1>2, <1>3, <1>4

\* There is such a sum.
LEMMA FoldExists ==
  ASSUME NEW S, IsFiniteSet(S), NEW f, \A k \in S : f[k] \in Nat
  PROVE  \E g \in [SUBSET S -> Nat] : Folds(g, f, S)
<1> DEFINE Next(s, g) == IF s = {} THEN 0 ELSE f[Pick(s)] + g[s \ {Pick(s)}]
           P(n) == \E g \in [Small(S, n) -> Nat] : \A s \in Small(S, n) : g[s] = Next(s, g)
           N == {n \in Nat : P(n)}
<1>1. P(0)
  <2>1. \A s \in Small(S, 0) : s = {}
    BY Picked DEF Small
  <2>2. [s \in Small(S, 0) |-> 0] \in [Small(S, 0) -> Nat]
    OBVIOUS
  <2> QED
    BY <2>1, <2>2
<1>2. ASSUME NEW n \in Nat, P(n) PROVE P(n + 1)
  <2>1. PICK g \in [Small(S, n) -> Nat] : \A s \in Small(S, n) : g[s] = Next(s, g)
    BY <1>2
  <2> DEFINE h == [s \in Small(S, n + 1) |-> Next(s, g)]
  <2>2. \A s \in Small(S, n + 1) : s # {} => /\ Pick(s) \in s /\ Pick(s) \in S
                                            /\ s \ {Pick(s)} \in Small(S, n)
    BY Picked DEF Small
  <2>3. \A s \in Small(S, n + 1) : Next(s, g) \in Nat
    BY <2>1, <2>2
  <2>4. h \in [Small(S, n + 1) -> Nat]
    BY <2>3
  <2>5. \A s \in Small(S, n) : s \in Small(S, n + 1) /\ h[s] = g[s]
    <3>1. \A s \in Small(S, n) : s \in Small(S, n + 1)
      BY Picked DEF Small
    <3> QED
      BY <2>1, <3>1
  <2>6. \A s \in Small(S, n + 1) : h[s] = Next(s, h)
    BY <2>2, <2>5
  <2> QED
    BY <2>4, <2>6
<1>3. N = Nat
  <2> HIDE DEF P
  <2>1. N \subseteq Nat /\ 0 \in N /\ \A n \in N : n + 1 \in N
    BY <1>1, <1>2
  <2> QED
    BY <2>1, AllNumbers
<1>4. Cardinality(S) \in Nat
  BY FS_CardinalityType
<1>5. P(Cardinality(S))
  BY <1>3, <1>4
<1>6. Small(S, Cardinality(S)) = SUBSET S
  BY FS_Subset DEF Small
<1>7. PICK g \in [SUBSET S -> Nat] : \A s \in SUBSET S : g[s] = Next(s, g)
  BY <1>5, <1>6
<1>8. g = [s \in SUBSET S |-> Next(s, g)]
  BY <1>7
<1> QED
  BY <1>7, <1>8 DEF Folds

\* What holds of a set whenever it holds of its proper subsets holds of every
\* subset of a finite set.
LEMMA SubsetInduction ==
  ASSUME NEW S, IsFiniteSet(S), NEW P,
         \A s \in SUBSET S : (\A t \in SUBSET s : t # s => t \in P) => s \in P
  PROVE  \A s \in SUBSET S : s \in P
<1>1. SUFFICES ASSUME NEW b \in SUBSET S, b \notin P PROVE FALSE
  OBVIOUS
<1> DEFINE N == {Cardinality(s) : s \in {t \in SUBSET S : t \notin P}}
<1>2. N \subseteq Nat /\ Cardinality(b) \in N
  BY <1>1, Picked
<1>3. PICK n \in N : \A m \in N : n <= m
  <2> HIDE DEF N
  <2> QED
    BY <1>2, LeastMember
<1>4. PICK s \in SUBSET S : s \notin P /\ Cardinality(s) = n
  BY <1>3
<1>5. ASSUME NEW t \in SUBSET s, t # s PROVE t \in P
  <2>1. IsFiniteSet(s) /\ t \in SUBSET S
    BY <1>4, <1>5, Picked
  <2>2. /\ Cardinality(t) <= Cardinality(s) /\ Cardinality(t) # Cardinality(s)
        /\ Cardinality(s) \in Nat /\ Cardinality(t) \in Nat
    BY <1>5, <2>1, FS_Subset, FS_CardinalityType
  <2>3. t \notin P => n <= Cardinality(t)
    BY <1>3, <2>1
  <2> QED
    BY <1>4, <2>2, <2>3
<1> QED
  BY <1>4, <1>5

\* Two such sums agree where what they add agrees.
LEMMA FoldUnique ==
  ASSUME NEW S, IsFiniteSet(S), NEW T \in SUBSET S, NEW f, NEW e, NEW g, NEW h,
         \A k \in T : f[k] = e[k], Folds(g, f, S), Folds(h, e, T)
  PROVE  \A s \in SUBSET T : g[s] = h[s]
<1> DEFINE P == {s \in SUBSET T : g[s] = h[s]}
<1>1. /\ \A s \in SUBSET S : g[s] = IF s = {} THEN 0 ELSE f[Pick(s)] + g[s \ {Pick(s)}]
      /\ \A s \in SUBSET T : h[s] = IF s = {} THEN 0 ELSE e[Pick(s)] + h[s \ {Pick(s)}]
  BY DEF Folds
<1>2. ASSUME NEW s \in SUBSET T, \A t \in SUBSET s : t # s => t \in P
      PROVE  s \in P
  <2>1. CASE s = {}
    BY <1>1, <2>1
  <2>2. CASE s # {}
    <3>1. Pick(s) \in s
      BY <2>2 DEF Pick
    <3>2. PICK x, t : x = Pick(s) /\ t = s \ {Pick(s)}
      OBVIOUS
    <3>3. x \in T /\ t \in SUBSET s /\ t # s /\ s \in SUBSET S
      BY <3>1, <3>2
    <3>4. g[t] = h[t] /\ f[x] = e[x]
      BY <1>2, <3>3
    <3>5. g[s] = f[x] + g[t] /\ h[s] = e[x] + h[t]
      BY <1>1, <2>2, <3>2, <3>3
    <3> QED
      BY <3>4, <3>5
  <2> QED
    BY <2>1, <2>2
<1>3. IsFiniteSet(T)
  BY FS_Subset
<1>4. \A s \in SUBSET T : s \in P
  <2> HIDE DEF P
  <2> QED
    BY <1>2, <1>3, SubsetInduction
<1> QED
  BY <1>4

---------------------------------------------------------------------------
(* The size of a set of entries.                                           *)

\* S is a set of entries of c, with their sizes.
Sized(c, S) == IsFiniteSet(S) /\ \A k \in S : c.cache[k] \in Nat

LEMMA SizedSubset ==
  ASSUME NEW c, NEW S, Sized(c, S), NEW T \in SUBSET S
  PROVE  Sized(c, T)
  BY FS_Subset DEF Sized

\* The fold of a larger set gives the sizes of the smaller ones.
LEMMA SizeAt ==
  ASSUME NEW c, NEW S, Sized(c, S)
  PROVE  /\ Folds(Fold(c.cache, S), c.cache, S)
         /\ \A T \in SUBSET S :
              SizeOf(c, T) = Fold(c.cache, S)[T] /\ SizeOf(c, T) \in Nat
<1>1. ASSUME NEW T, Sized(c, T)
      PROVE  Folds(Fold(c.cache, T), c.cache, T) /\ SizeOf(c, T) \in Nat
  <2>1. PICK g \in [SUBSET T -> Nat] : Folds(g, c.cache, T)
    BY <1>1, FoldExists DEF Sized
  <2>2. Folds(Fold(c.cache, T), c.cache, T)
    BY <2>1 DEF Fold
  <2>3. g[T] = Fold(c.cache, T)[T]
    BY <1>1, <2>1, <2>2, FoldUnique DEF Sized
  <2> QED
    BY <2>1, <2>2, <2>3, SizeIsFold
<1>2. ASSUME NEW T \in SUBSET S
      PROVE  SizeOf(c, T) = Fold(c.cache, S)[T] /\ SizeOf(c, T) \in Nat
  <2>1. Sized(c, T)
    BY SizedSubset
  <2>2. Folds(Fold(c.cache, T), c.cache, T) /\ Folds(Fold(c.cache, S), c.cache, S)
    BY <1>1, <2>1
  <2>3. Fold(c.cache, S)[T] = Fold(c.cache, T)[T]
    BY <2>2, FoldUnique DEF Sized
  <2> QED
    BY <1>1, <2>1, <2>3, SizeIsFold
<1> QED
  BY <1>1, <1>2

\* The size of entries depends on their payloads only.
LEMMA SizeSame ==
  ASSUME NEW c, NEW d, NEW S, Sized(c, S), \A k \in S : d.cache[k] = c.cache[k]
  PROVE  SizeOf(d, S) = SizeOf(c, S)
<1>1. Sized(d, S)
  BY DEF Sized
<1>2. PICK f, e : f = c.cache /\ e = d.cache
  OBVIOUS
<1>3. PICK g, h : g = Fold(f, S) /\ h = Fold(e, S)
  OBVIOUS
<1>4. Folds(g, f, S) /\ Folds(h, e, S)
  BY <1>1, <1>2, <1>3, SizeAt
<1>5. IsFiniteSet(S) /\ S \in SUBSET S /\ \A k \in S : f[k] = e[k]
  BY <1>2 DEF Sized
<1>6. \A s \in SUBSET S : g[s] = h[s]
  BY <1>4, <1>5, FoldUnique
<1> QED
  BY <1>2, <1>3, <1>6, SizeIsFold

\* No entries have no size.
LEMMA SizeEmpty == ASSUME NEW c PROVE SizeOf(c, {}) = 0
<1>1. Sized(c, {})
  BY FS_EmptySet DEF Sized
<1> QED
  BY <1>1, SizeAt, SizeIsFold DEF Folds

\* Any entry may be taken first.
LEMMA SizeRemove ==
  ASSUME NEW c, NEW S, Sized(c, S), NEW k \in S
  PROVE  SizeOf(c, S) = c.cache[k] + SizeOf(c, S \ {k})
<1> DEFINE P == {s \in SUBSET S : \A j \in s : SizeOf(c, s) = c.cache[j] + SizeOf(c, s \ {j})}
<1>1. ASSUME NEW s \in SUBSET S, s # {}
      PROVE  Pick(s) \in s /\ SizeOf(c, s) = c.cache[Pick(s)] + SizeOf(c, s \ {Pick(s)})
  <2>1. Pick(s) \in s
    BY <1>1 DEF Pick
  <2>2. PICK t, g : t = s \ {Pick(s)} /\ g = Fold(c.cache, S)
    OBVIOUS
  <2>3. t \in SUBSET S
    BY <2>2
  <2>4. g[s] = c.cache[Pick(s)] + g[t]
    <3>1. Folds(g, c.cache, S)
      BY <2>2, SizeAt
    <3> QED
      BY <1>1, <2>2, <3>1 DEF Folds
  <2>5. SizeOf(c, s) = g[s] /\ SizeOf(c, t) = g[t]
    BY <2>2, <2>3, SizeAt
  <2> QED
    BY <2>1, <2>2, <2>4, <2>5
<1>2. ASSUME NEW s \in SUBSET S, \A t \in SUBSET s : t # s => t \in P, NEW j \in s
      PROVE  SizeOf(c, s) = c.cache[j] + SizeOf(c, s \ {j})
  <2>1. PICK x : x = Pick(s)
    OBVIOUS
  <2>2. x \in s /\ SizeOf(c, s) = c.cache[x] + SizeOf(c, s \ {x})
    BY <1>1, <1>2, <2>1
  <2>3. CASE x = j
    BY <2>2, <2>3
  <2>4. CASE x # j
    <3>1. PICK sx, sj, r : sx = s \ {x} /\ sj = s \ {j} /\ r = (s \ {x}) \ {j}
      OBVIOUS
    <3>2. /\ sx \in SUBSET s /\ sx # s /\ j \in sx /\ sx \ {j} = r
          /\ sj \in SUBSET s /\ sj # s /\ x \in sj /\ sj \ {x} = r
      BY <2>2, <2>4, <3>1
    <3>3. SizeOf(c, sx) = c.cache[j] + SizeOf(c, r)
      BY <1>2, <3>2
    <3>4. SizeOf(c, sj) = c.cache[x] + SizeOf(c, r)
      BY <1>2, <3>2
    <3>5. SizeOf(c, r) \in Nat /\ c.cache[x] \in Nat /\ c.cache[j] \in Nat
      <4>1. r \in SUBSET S
        BY <3>2
      <4> QED
        BY <2>2, <4>1, SizeAt DEF Sized
    <3> QED
      BY <2>2, <3>1, <3>3, <3>4, <3>5
  <2> QED
    BY <2>3, <2>4
<1>3. \A s \in SUBSET S : s \in P
  <2>1. \A s \in SUBSET S : (\A t \in SUBSET s : t # s => t \in P) => s \in P
    BY <1>2
  <2> HIDE DEF P
  <2> QED
    BY <2>1, SubsetInduction DEF Sized
<1> QED
  BY <1>3

\* The sizes of two parts add up.
LEMMA SizeSplit ==
  ASSUME NEW c, NEW S, Sized(c, S), NEW T \in SUBSET S
  PROVE  /\ SizeOf(c, S) = SizeOf(c, T) + SizeOf(c, S \ T)
         /\ SizeOf(c, T) \in Nat /\ SizeOf(c, S \ T) \in Nat /\ SizeOf(c, S) \in Nat
<1> DEFINE P == {s \in SUBSET T : SizeOf(c, S) = SizeOf(c, s) + SizeOf(c, S \ s)}
<1>1. \A s \in SUBSET S : SizeOf(c, s) \in Nat
  BY SizeAt
<1>2. ASSUME NEW s \in SUBSET T, \A t \in SUBSET s : t # s => t \in P
      PROVE  s \in P
  <2>1. CASE s = {}
    <3>1. S \ s = S /\ SizeOf(c, s) = 0 /\ SizeOf(c, S) \in Nat
      BY <1>1, <2>1, SizeEmpty
    <3> QED
      BY <3>1
  <2>2. CASE s # {}
    <3>1. PICK x \in s : TRUE
      BY <2>2
    <3>2. PICK t, u, w : t = s \ {x} /\ u = S \ s /\ w = S \ t
      OBVIOUS
    <3>3. /\ t \in SUBSET s /\ t # s /\ w \in SUBSET S /\ x \in w /\ w \ {x} = u
          /\ t \in SUBSET S /\ u \in SUBSET S /\ s \in SUBSET S /\ x \in S
      BY <3>1, <3>2
    <3>4. SizeOf(c, S) = SizeOf(c, t) + SizeOf(c, w)
      BY <1>2, <3>2, <3>3
    <3>5. SizeOf(c, w) = c.cache[x] + SizeOf(c, u)
      BY <3>3, SizedSubset, SizeRemove
    <3>6. SizeOf(c, s) = c.cache[x] + SizeOf(c, t)
      BY <3>1, <3>2, <3>3, SizedSubset, SizeRemove
    <3>7. c.cache[x] \in Nat /\ SizeOf(c, u) \in Nat /\ SizeOf(c, t) \in Nat
      BY <1>1, <3>3 DEF Sized
    <3>8. SizeOf(c, S) = SizeOf(c, s) + SizeOf(c, u)
      BY <3>4, <3>5, <3>6, <3>7
    <3> QED
      BY <3>2, <3>8
  <2> QED
    BY <2>1, <2>2
<1>3. IsFiniteSet(T)
  BY FS_Subset DEF Sized
<1>4. \A s \in SUBSET T : s \in P
  <2> HIDE DEF P
  <2> QED
    BY <1>2, <1>3, SubsetInduction
<1> QED
  BY <1>1, <1>4

---------------------------------------------------------------------------
(* What the methods of PayloadCache do to the map.                         *)

\* A map of payloads makes a cache.
LEMMA CacheType ==
  ASSUME NEW m, NEW n, NEW id \in OptLogId,
         m = [k \in DOMAIN m |-> m[k]], DOMAIN m \subseteq LogId,
         \A k \in DOMAIN m : m[k] \in Payload
  PROVE  IsCache(Cache(m, n, id))
  BY DEF IsCache, Cache

\* Removing entries keeps a cache a cache.
LEMMA WithoutType ==
  ASSUME NEW c, IsCache(c), NEW S
  PROVE  IsCache(Without(c, S))
<1> DEFINE m == [k \in Keys(c) \ S |-> c.cache[k]]
           n == c.size - SizeOf(c, S)
<1>1. /\ m = [k \in DOMAIN m |-> m[k]]
      /\ DOMAIN m \subseteq LogId
      /\ \A k \in DOMAIN m : m[k] \in Payload
      /\ c.last_evictable \in OptLogId
  BY DEF IsCache, Keys
<1>2. Without(c, S) = Cache(m, n, c.last_evictable)
  BY DEF Without
<1> HIDE DEF m, n
<1> QED
  BY <1>1, <1>2, CacheType

\* Inserting a payload keeps a cache a cache.
LEMMA InsertType ==
  ASSUME NEW c, IsCache(c), NEW key \in LogId, NEW payload \in Payload
  PROVE  IsCache(cache_insert(c, key, payload))
<1> DEFINE m == [k \in Keys(c) \cup {key} |-> IF k = key THEN payload ELSE c.cache[k]]
           n == c.size + payload
           d == Cache(m, n, c.last_evictable)
<1>1. /\ m = [k \in DOMAIN m |-> m[k]]
      /\ DOMAIN m \subseteq LogId
      /\ \A k \in DOMAIN m : m[k] \in Payload
      /\ c.last_evictable \in OptLogId
  BY DEF IsCache, Keys
<1>2. IsCache(d)
  <2> HIDE DEF m, n
  <2> QED
    BY <1>1, CacheType
<1>3. cache_insert(c, key, payload) = try_evict(d)
  BY DEF cache_insert
<1> HIDE DEF d
<1> QED
  BY <1>2, <1>3, WithoutType DEF try_evict

\* set_last_evictable keeps a cache a cache.
LEMMA SetEvictableType ==
  ASSUME NEW c, IsCache(c), NEW id \in OptLogId
  PROVE  IsCache(set_last_evictable(c, id))
  BY CacheType DEF IsCache, set_last_evictable

\* Popping entries leaves the others, and the boundary.
LEMMA WithoutKeys ==
  ASSUME NEW c, NEW S
  PROVE  /\ Keys(Without(c, S)) = Keys(c) \ S
         /\ \A k \in Keys(c) \ S : Without(c, S).cache[k] = c.cache[k]
         /\ Without(c, S).last_evictable = c.last_evictable
  BY DEF Without, Cache, Keys

\* PayloadCache::insert
LEMMA InsertKeys ==
  ASSUME NEW c, NEW key, NEW payload
  PROVE  LET d == cache_insert(c, key, payload) IN
         /\ d.last_evictable = c.last_evictable
         /\ key \in Keys(d) => d.cache[key] = payload
         /\ \A k \in Keys(d) : k # key => k \in Keys(c) /\ d.cache[k] = c.cache[k]
         /\ \A k \in Keys(c) \cup {key} : k \in Keys(d) \/ Le(k, c.last_evictable)
<1>1. PICK m : m = [k \in Keys(c) \cup {key} |-> IF k = key THEN payload ELSE c.cache[k]]
  OBVIOUS
<1>2. PICK b : b = Cache(m, c.size + payload, c.last_evictable)
  OBVIOUS
<1>3. /\ Keys(b) = Keys(c) \cup {key} /\ b.last_evictable = c.last_evictable
      /\ b.cache[key] = payload /\ \A k \in Keys(c) : k # key => b.cache[k] = c.cache[k]
  BY <1>1, <1>2 DEF Cache, Keys
<1>4. PICK S : S = {k \in Keys(b) : IsEvictable(b, k) /\ need_evict_from(b, k)}
  OBVIOUS
<1>5. cache_insert(c, key, payload) = Without(b, S)
  BY <1>1, <1>2, <1>4 DEF cache_insert, try_evict
<1>6. \A k \in S : Le(k, c.last_evictable)
  BY <1>3, <1>4 DEF IsEvictable
<1> QED
  BY <1>3, <1>5, <1>6, WithoutKeys


---------------------------------------------------------------------------
(* Keys in order.                                                          *)

\* A finite set of log ids has a least and a greatest member.
LEMMA EndKeys ==
  ASSUME NEW S, IsFiniteSet(S), S \subseteq OptLogId, S # {}
  PROVE  /\ \E k \in S : \A j \in S : Le(k, j)
         /\ \E k \in S : \A j \in S : Le(j, k)
<1> DEFINE P == {s \in SUBSET S : s # {} =>
                   /\ \E k \in s : \A j \in s : Le(k, j)
                   /\ \E k \in s : \A j \in s : Le(j, k)}
<1>1. ASSUME NEW s \in SUBSET S, s # {}, \A t \in SUBSET s : t # s => t \in P
      PROVE  s \in P
  <2>1. PICK x \in s : TRUE
    BY <1>1
  <2>2. CASE s \ {x} = {}
    <3>1. \A j \in s : j = x
      BY <2>2
    <3> QED
      BY <2>1, <3>1 DEF Le
  <2>3. CASE s \ {x} # {}
    <3>1. s \ {x} \in P
      BY <1>1, <2>1
    <3>2. PICK a \in s \ {x} : \A j \in s \ {x} : Le(a, j)
      BY <2>3, <3>1
    <3>3. PICK b \in s \ {x} : \A j \in s \ {x} : Le(j, b)
      BY <2>3, <3>1
    <3>4. \E k \in s : \A j \in s : Le(k, j)
      <4>1. CASE Lt(x, a)
        <5>1. \A j \in s : Le(x, j)
          BY <3>2, <4>1, IdOrder DEF Le
        <5> QED
          BY <5>1
      <4>2. CASE ~Lt(x, a)
        <5>1. Le(a, x)
          BY <3>2, <4>2, IdOrder DEF Le
        <5> QED
          BY <3>2, <5>1
      <4> QED
        BY <4>1, <4>2
    <3>5. \E k \in s : \A j \in s : Le(j, k)
      <4>1. CASE Lt(b, x)
        <5>1. \A j \in s : Le(j, x)
          BY <3>3, <4>1, IdOrder DEF Le
        <5> QED
          BY <5>1
      <4>2. CASE ~Lt(b, x)
        <5>1. Le(x, b)
          BY <3>3, <4>2, IdOrder DEF Le
        <5> QED
          BY <3>3, <5>1
      <4> QED
        BY <4>1, <4>2
    <3> QED
      BY <3>4, <3>5
  <2> QED
    BY <2>2, <2>3
<1>2. \A s \in SUBSET S : s \in P
  <2>1. {} \in P
    OBVIOUS
  <2> HIDE DEF P
  <2>2. \A s \in SUBSET S : (\A t \in SUBSET s : t # s => t \in P) => s \in P
    BY <1>1, <2>1
  <2> QED
    BY <2>2, SubsetInduction
<1> QED
  BY <1>2

---------------------------------------------------------------------------
(* What a cache accounts for.                                              *)

\* What c accounts for beyond what it holds.
Slack(c) == c.size - SizeOf(c, Keys(c))

\* Every entry of a cache has a size.
LEMMA KeysSized ==
  ASSUME NEW c, IsCache(c), Covered(c), NEW S \in SUBSET Keys(c)
  PROVE  Sized(c, S) /\ SizeOf(c, S) \in Nat /\ SizeOf(c, S) <= SizeOf(c, Keys(c))
<1>1. Sized(c, Keys(c))
  BY DEF Sized, IsCache, Covered, Keys, Payload
<1>2. Sized(c, S)
  BY <1>1, SizedSubset
<1>3. /\ SizeOf(c, Keys(c)) = SizeOf(c, S) + SizeOf(c, Keys(c) \ S)
      /\ SizeOf(c, S) \in Nat /\ SizeOf(c, Keys(c) \ S) \in Nat
  BY <1>1, SizeSplit
<1> QED
  BY <1>2, <1>3

\* Entries that go take their sizes with them.
LEMMA WithoutCovered ==
  ASSUME NEW c, IsCache(c), Covered(c), NEW S \in SUBSET Keys(c)
  PROVE  /\ Covered(Without(c, S)) /\ Slack(Without(c, S)) = Slack(c)
         /\ Without(c, S).size = c.size - SizeOf(c, S)
<1>1. PICK d, K : d = Without(c, S) /\ K = Keys(c)
  OBVIOUS
<1>2. /\ d.size = c.size - SizeOf(c, S) /\ Keys(d) = K \ S
      /\ \A k \in K \ S : d.cache[k] = c.cache[k]
  BY <1>1, WithoutKeys DEF Without, Cache
<1>3. Sized(c, K) /\ Sized(c, K \ S) /\ IsFiniteSet(K)
  BY <1>1, KeysSized DEF Covered
<1>4. SizeOf(d, Keys(d)) = SizeOf(c, K \ S)
  BY <1>2, <1>3, SizeSame
<1>5. /\ SizeOf(c, K) = SizeOf(c, S) + SizeOf(c, K \ S)
      /\ SizeOf(c, S) \in Nat /\ SizeOf(c, K \ S) \in Nat /\ SizeOf(c, K) \in Nat
  BY <1>1, <1>3, SizeSplit
<1>6. c.size \in Nat /\ c.size >= SizeOf(c, K)
  BY <1>1 DEF Covered
<1>7. IsFiniteSet(Keys(d))
  BY <1>2, <1>3 DEF Sized
<1>8. d.size \in Nat /\ d.size >= SizeOf(d, Keys(d))
  BY <1>2, <1>4, <1>5, <1>6
<1>9. d.size - SizeOf(d, Keys(d)) = c.size - SizeOf(c, K)
  BY <1>2, <1>4, <1>5, <1>6
<1> QED
  BY <1>1, <1>2, <1>7, <1>8, <1>9 DEF Covered, Slack

\* The cache an insert leaves before it evicts.
Entered(c, key, payload) ==
  Cache([k \in Keys(c) \cup {key} |-> IF k = key THEN payload ELSE c.cache[k]],
        c.size + payload, c.last_evictable)

\* An insert accounts for its payload; where the key was there already, for the
\* payload it replaces as well.
LEMMA EnteredCovered ==
  ASSUME NEW c, IsCache(c), Covered(c), NEW key \in LogId, NEW payload \in Payload
  PROVE  LET b == Entered(c, key, payload) IN
         /\ IsCache(b) /\ Covered(b)
         /\ key \notin Keys(c) => Slack(b) = Slack(c)
<1>1. PICK b, K, m : /\ b = Cache(m, c.size + payload, c.last_evictable) /\ K = Keys(c)
                     /\ m = [k \in K \cup {key} |-> IF k = key THEN payload ELSE c.cache[k]]
  OBVIOUS
<1>2. b = Entered(c, key, payload)
  BY <1>1 DEF Entered
<1>3. /\ b.size = c.size + payload /\ Keys(b) = K \cup {key} /\ b.cache[key] = payload
      /\ \A k \in K \ {key} : b.cache[k] = c.cache[k]
  BY <1>1 DEF Cache, Keys
<1>4. IsCache(b)
  <2>1. /\ m = [k \in DOMAIN m |-> m[k]] /\ DOMAIN m \subseteq LogId
        /\ \A k \in DOMAIN m : m[k] \in Payload
        /\ c.last_evictable \in OptLogId
    BY <1>1 DEF IsCache, Keys
  <2> QED
    BY <1>1, <2>1, CacheType
<1>5. IsFiniteSet(K) /\ c.size \in Nat /\ c.size >= SizeOf(c, K) /\ payload \in Nat
  BY <1>1 DEF Covered, Payload
<1>6. IsFiniteSet(Keys(b)) /\ Sized(b, Keys(b))
  <2>1. IsFiniteSet(Keys(b))
    BY <1>3, <1>5, FS_AddElement
  <2> QED
    BY <1>4, <2>1 DEF Sized, IsCache, Keys, Payload
<1>7. PICK R : R = K \ {key}
  OBVIOUS
<1>8. Keys(b) \ {key} = R /\ R \in SUBSET K /\ key \in Keys(b)
  BY <1>3, <1>7
<1>9. SizeOf(b, Keys(b)) = payload + SizeOf(b, R)
  BY <1>3, <1>6, <1>8, SizeRemove
<1>10. /\ Sized(c, R) /\ SizeOf(c, R) \in Nat /\ SizeOf(c, R) <= SizeOf(c, K)
       /\ SizeOf(c, K) \in Nat
  BY <1>1, <1>8, KeysSized
<1>11. SizeOf(b, R) = SizeOf(c, R)
  BY <1>3, <1>7, <1>10, SizeSame
<1>12. b.size \in Nat /\ b.size >= SizeOf(b, Keys(b))
  BY <1>3, <1>5, <1>9, <1>10, <1>11
<1>13. key \notin K => R = K
  BY <1>7
<1>14. key \notin K => b.size - SizeOf(b, Keys(b)) = c.size - SizeOf(c, K)
  BY <1>3, <1>5, <1>9, <1>10, <1>11, <1>13
<1> QED
  BY <1>1, <1>2, <1>4, <1>6, <1>12, <1>14 DEF Covered, Slack

\* PayloadCache::insert, and what it accounts for.
LEMMA InsertCovered ==
  ASSUME NEW c, IsCache(c), Covered(c), NEW key \in LogId, NEW payload \in Payload
  PROVE  LET d == cache_insert(c, key, payload) IN
         /\ Covered(d)
         /\ key \notin Keys(c) => Slack(d) = Slack(c)
<1>1. PICK b : b = Entered(c, key, payload)
  OBVIOUS
<1>2. IsCache(b) /\ Covered(b) /\ (key \notin Keys(c) => Slack(b) = Slack(c))
  BY <1>1, EnteredCovered
<1>3. cache_insert(c, key, payload) = try_evict(b)
  BY <1>1 DEF cache_insert, Entered
<1> QED
  BY <1>2, <1>3, WithoutCovered DEF try_evict

\* PayloadCache::try_evict keeps its promise: it stops within both limits, or
\* when nothing more may leave.
LEMMA EvictLimits ==
  ASSUME NEW b, IsCache(b), Covered(b)
  PROVE  LET d == try_evict(b) IN
         \/ Cardinality(Keys(d)) <= MaxItems /\ d.size <= Capacity
         \/ \A k \in Keys(d) : ~IsEvictable(d, k)
<1>1. PICK d, S : S = {k \in Keys(b) : IsEvictable(b, k) /\ need_evict_from(b, k)}
                  /\ d = Without(b, S)
  OBVIOUS
<1>2. /\ Keys(d) = Keys(b) \ S /\ d.last_evictable = b.last_evictable
      /\ d.size = b.size - SizeOf(b, S) /\ Covered(d) /\ S \in SUBSET Keys(b)
  BY <1>1, WithoutKeys, WithoutCovered
<1>3. Keys(b) \subseteq OptLogId /\ b.last_evictable \in OptLogId
  BY DEF IsCache, Keys, OptLogId
<1>4. PICK E : E = {k \in Keys(d) : IsEvictable(d, k)}
  OBVIOUS
<1>5. CASE E = {}
  BY <1>1, <1>4, <1>5 DEF try_evict
<1>6. CASE E # {}
  <2>1. IsFiniteSet(E) /\ E \subseteq OptLogId
    BY <1>2, <1>3, <1>4, FS_Subset DEF Covered
  <2>2. PICK k \in E : \A j \in E : Le(k, j)
    BY <1>6, <2>1, EndKeys
  <2>3. PICK B, A : B = {j \in Keys(b) : Lt(j, k)} /\ A = {j \in Keys(b) : Le(k, j)}
    OBVIOUS
  <2>4. Cardinality(A) <= MaxItems /\ b.size - SizeOf(b, B) <= Capacity
    <3>1. k \in Keys(b) /\ IsEvictable(b, k) /\ ~need_evict_from(b, k)
      BY <1>1, <1>2, <1>4, <2>2 DEF IsEvictable
    <3>2. IsFiniteSet(A) /\ IsFiniteSet(Keys(b)) /\ b.size \in Nat
      BY <2>3, FS_Subset DEF Covered
    <3>3. Cardinality(A) \in Nat /\ SizeOf(b, B) \in Nat
      BY <2>3, <3>2, FS_CardinalityType, KeysSized
    <3> QED
      BY <2>3, <3>1, <3>2, <3>3, CacheLimits DEF need_evict_from
  <2>5. B \subseteq S
    <3>1. SUFFICES ASSUME NEW j \in Keys(b), Lt(j, k), j \notin S PROVE FALSE
      BY <2>3
    <3>2. Le(k, b.last_evictable) /\ k \in OptLogId /\ j \in OptLogId
      BY <1>2, <1>3, <1>4, <2>2 DEF IsEvictable
    <3>3. Le(j, b.last_evictable)
      BY <1>3, <3>1, <3>2, IdOrder DEF Le
    <3>4. j \in E
      BY <1>2, <1>4, <3>1, <3>3 DEF IsEvictable
    <3> QED
      BY <2>2, <3>1, <3>2, <3>4, IdOrder DEF Le
  <2>6. Keys(d) \subseteq A
    <3>1. SUFFICES ASSUME NEW j \in Keys(d) PROVE Le(k, j)
      BY <1>2, <2>3
    <3>2. ~Lt(j, k) /\ j \in OptLogId /\ k \in OptLogId
      BY <1>2, <1>3, <2>1, <2>3, <2>5
    <3> QED
      BY <3>2, IdOrder DEF Le
  <2>7. Cardinality(Keys(d)) <= MaxItems
    <3>1. IsFiniteSet(A) /\ IsFiniteSet(Keys(d))
      BY <1>2, <2>3, FS_Subset DEF Covered
    <3>2. /\ Cardinality(Keys(d)) <= Cardinality(A)
          /\ Cardinality(A) \in Nat /\ Cardinality(Keys(d)) \in Nat
      BY <2>6, <3>1, FS_Subset, FS_CardinalityType
    <3> QED
      BY <2>4, <3>2, CacheLimits
  <2>8. d.size <= Capacity
    <3>1. Sized(b, S) /\ SizeOf(b, S) \in Nat /\ SizeOf(b, B) \in Nat
      BY <1>2, <2>3, KeysSized
    <3>2. SizeOf(b, B) <= SizeOf(b, S)
      <4>1. SizeOf(b, S) = SizeOf(b, B) + SizeOf(b, S \ B) /\ SizeOf(b, S \ B) \in Nat
        BY <2>5, <3>1, SizeSplit
      <4> QED
        BY <3>1, <4>1
    <3>3. b.size \in Nat
      BY DEF Covered
    <3> QED
      BY <1>2, <2>4, <3>1, <3>2, <3>3, CacheLimits
  <2> QED
    BY <1>1, <2>7, <2>8 DEF try_evict
<1> QED
  BY <1>5, <1>6

\* A new cache, and one that is cleared.
LEMMA EmptyCache ==
  ASSUME NEW id \in OptLogId
  PROVE  LET d == Cache([k \in {} |-> 0], 0, id) IN
         IsCache(d) /\ Covered(d) /\ Slack(d) = 0
<1>1. PICK d : d = Cache([k \in {} |-> 0], 0, id)
  OBVIOUS
<1>2. IsCache(d)
  BY <1>1, CacheType
<1>3. Keys(d) = {} /\ d.size = 0
  BY <1>1 DEF Cache, Keys
<1>4. Covered(d) /\ Slack(d) = 0
  BY <1>3, SizeEmpty, FS_EmptySet DEF Covered, Slack
<1> QED
  BY <1>1, <1>2, <1>4

\* The boundary of what may leave has no part in the size.
LEMMA SetEvictableCovered ==
  ASSUME NEW c, IsCache(c), Covered(c), NEW id
  PROVE  LET d == set_last_evictable(c, id) IN
         Covered(d) /\ Slack(d) = Slack(c) /\ Keys(d) = Keys(c)
<1>1. PICK d : d = set_last_evictable(c, id)
  OBVIOUS
<1>2. d.cache = c.cache /\ d.size = c.size
  BY <1>1 DEF set_last_evictable, Cache
<1>3. Keys(d) = Keys(c) /\ Sized(c, Keys(c))
  BY <1>2, KeysSized DEF Keys
<1>4. SizeOf(d, Keys(d)) = SizeOf(c, Keys(c))
  BY <1>2, <1>3, SizeSame
<1> QED
  BY <1>1, <1>2, <1>3, <1>4 DEF Covered, Slack
=============================================================================
