------------------------ MODULE PayloadCacheLoopsProofs ------------------------
(***************************************************************************)
(* The loops of PayloadCache, which pop one entry at a time, end where     *)
(* module PayloadCache says, whatever the cache held and whatever its      *)
(* limits are.                                                             *)
(***************************************************************************)
EXTENDS PayloadCacheLoops, PayloadCacheProofs

\* The methods, taken apart.
LEMMA RestCases ==
  /\ pc = "idle" => Rest = c
  /\ pc = "try_evict" =>
       Rest = Without(c, {k \in Keys(c) : IsEvictable(c, k) /\ need_evict_from(c, k)})
  /\ pc = "drain_evictable" => Rest = Without(c, {k \in Keys(c) : IsEvictable(c, k)})
  /\ pc = "truncate_after" => Rest = Without(c, {k \in Keys(c) : Lt(key, k)})
  /\ pc = "purge_upto" =>
       Rest = Without(c, {k \in Keys(c) : Le(k, key) /\ IsEvictable(c, k)})
  BY DEF Rest, try_evict, drain_evictable, cache_truncate_after, cache_purge_upto

\* One method is running, or none.
LEMMA RestPrimed ==
  /\ pc' = "idle" => Rest' = c'
  /\ pc' = "try_evict" =>
       Rest' = Without(c', {k \in Keys(c') : IsEvictable(c', k) /\ need_evict_from(c', k)})
  /\ pc' = "drain_evictable" => Rest' = Without(c', {k \in Keys(c') : IsEvictable(c', k)})
  /\ pc' = "truncate_after" => Rest' = Without(c', {k \in Keys(c') : Lt(key', k)})
  /\ pc' = "purge_upto" =>
       Rest' = Without(c', {k \in Keys(c') : Le(k, key') /\ IsEvictable(c', k)})
  BY DEF Rest, try_evict, drain_evictable, cache_truncate_after, cache_purge_upto

\* Removing nothing changes nothing.
LEMMA WithoutNothing ==
  ASSUME NEW d, IsCache(d), Covered(d)
  PROVE  Without(d, {}) = d
<1>1. SizeOf(d, {}) = 0 /\ d.size \in Nat
  BY SizeEmpty DEF Covered
<1>2. Keys(d) \ {} = Keys(d) /\ d.size - SizeOf(d, {}) = d.size
  BY <1>1
<1> QED
  BY <1>2 DEF Without, IsCache, Keys

\* The cache one pop leaves.
Popped(d, k) ==
  Cache([j \in Keys(d) \ {k} |-> d.cache[j]], d.size - d.cache[k], d.last_evictable)

\* One pop removes one entry.
LEMMA PopIsWithout ==
  ASSUME NEW d, IsCache(d), Covered(d), NEW k \in Keys(d)
  PROVE  Popped(d, k) = Without(d, {k})
<1>1. Sized(d, {k}) /\ d.cache[k] \in Nat
  BY KeysSized DEF Sized
<1>2. SizeOf(d, {k}) = d.cache[k] + SizeOf(d, {k} \ {k})
  BY <1>1, SizeRemove
<1>3. {k} \ {k} = {}
  OBVIOUS
<1>4. SizeOf(d, {k}) = d.cache[k]
  BY <1>1, <1>2, <1>3, SizeEmpty
<1> QED
  BY <1>4 DEF Popped, Without

\* Removing a set at once, or one of its entries first.
LEMMA WithoutInTurn ==
  ASSUME NEW d, IsCache(d), Covered(d), NEW S \in SUBSET Keys(d), NEW k \in S
  PROVE  Without(Without(d, {k}), S \ {k}) = Without(d, S)
<1>1. PICK e, R : e = Without(d, {k}) /\ R = S \ {k}
  OBVIOUS
<1>2. /\ Keys(e) = Keys(d) \ {k} /\ e.last_evictable = d.last_evictable
      /\ \A j \in Keys(d) \ {k} : e.cache[j] = d.cache[j]
      /\ e.size = d.size - SizeOf(d, {k})
  BY <1>1, WithoutKeys, WithoutCovered
<1>3. Sized(d, S) /\ Sized(d, R) /\ Sized(d, {k})
  BY <1>1, KeysSized
<1>4. SizeOf(e, R) = SizeOf(d, R)
  BY <1>1, <1>2, <1>3, SizeSame
<1>5. /\ SizeOf(d, S) = SizeOf(d, {k}) + SizeOf(d, R)
      /\ SizeOf(d, S) \in Nat /\ SizeOf(d, {k}) \in Nat /\ SizeOf(d, R) \in Nat
  BY <1>1, <1>3, SizeSplit
<1>6. d.size \in Nat
  BY DEF Covered
<1>7. e.size - SizeOf(e, R) = d.size - SizeOf(d, S)
  BY <1>2, <1>4, <1>5, <1>6
<1>8. Keys(e) \ R = Keys(d) \ S
  BY <1>1, <1>2
<1>9. [j \in Keys(e) \ R |-> e.cache[j]] = [j \in Keys(d) \ S |-> d.cache[j]]
  BY <1>1, <1>2, <1>8
<1> QED
  BY <1>1, <1>2, <1>7, <1>9 DEF Without

---------------------------------------------------------------------------
(* The ends of the map.                                                    *)

LEMMA Ends ==
  ASSUME LoopInv, Keys(c) # {}
  PROVE  /\ First \in Keys(c) /\ \A j \in Keys(c) : Le(First, j)
         /\ Greatest \in Keys(c) /\ \A j \in Keys(c) : Le(j, Greatest)
         /\ Keys(c) \subseteq OptLogId /\ c.last_evictable \in OptLogId
<1>1. /\ IsFiniteSet(Keys(c)) /\ Keys(c) \subseteq OptLogId
      /\ c.last_evictable \in OptLogId
  BY DEF LoopInv, Covered, IsCache, Keys, OptLogId
<1>2. /\ \E k \in Keys(c) : \A j \in Keys(c) : Le(k, j)
      /\ \E k \in Keys(c) : \A j \in Keys(c) : Le(j, k)
  BY <1>1, EndKeys
<1> QED
  BY <1>1, <1>2 DEF First, Greatest

\* Popping the least entry does not change which of the others try_evict takes.
LEMMA EvictSame ==
  ASSUME NEW d, IsCache(d), Covered(d), NEW f \in Keys(d), \A j \in Keys(d) : Le(f, j),
         NEW k \in Keys(d), k # f
  PROVE  need_evict_from(Without(d, {f}), k) <=> need_evict_from(d, k)
<1>1. PICK e, A, B, C : /\ e = Without(d, {f})
                        /\ A = {j \in Keys(d) : Le(k, j)}
                        /\ B = {j \in Keys(d) : Lt(j, k)}
                        /\ C = B \ {f}
  OBVIOUS
<1>2. /\ Keys(e) = Keys(d) \ {f} /\ e.size = d.size - SizeOf(d, {f})
      /\ \A j \in Keys(d) \ {f} : e.cache[j] = d.cache[j]
  BY <1>1, WithoutKeys, WithoutCovered
<1>3. f \in OptLogId /\ k \in OptLogId
  BY DEF IsCache, Keys, OptLogId
<1>4. Lt(f, k) /\ ~Le(k, f)
  BY <1>3, IdOrder DEF Le
<1>5. /\ {j \in Keys(e) : Le(k, j)} = A
      /\ {j \in Keys(e) : Lt(j, k)} = C
      /\ f \in B
  BY <1>1, <1>2, <1>4
<1>6. Sized(d, B) /\ Sized(d, C) /\ d.size \in Nat
  BY <1>1, KeysSized DEF Covered
<1>7. SizeOf(e, C) = SizeOf(d, C)
  <2>1. \A j \in C : e.cache[j] = d.cache[j]
    BY <1>1, <1>2
  <2> QED
    BY <1>6, <2>1, SizeSame
<1>8. /\ SizeOf(d, B) = SizeOf(d, {f}) + SizeOf(d, C)
      /\ SizeOf(d, B) \in Nat /\ SizeOf(d, {f}) \in Nat /\ SizeOf(d, C) \in Nat
  <2>1. PICK F : F = {f}
    OBVIOUS
  <2>2. F \in SUBSET B /\ B \ F = C
    BY <1>1, <1>5, <2>1
  <2>3. /\ SizeOf(d, B) = SizeOf(d, F) + SizeOf(d, B \ F)
        /\ SizeOf(d, B) \in Nat /\ SizeOf(d, F) \in Nat /\ SizeOf(d, B \ F) \in Nat
    BY <1>6, <2>2, SizeSplit
  <2> QED
    BY <2>1, <2>2, <2>3
<1>9. e.size - SizeOf(e, C) = d.size - SizeOf(d, B)
  BY <1>2, <1>6, <1>7, <1>8
<1> QED
  BY <1>1, <1>5, <1>9 DEF need_evict_from

\* At the least entry, need_evict_from is need_evict.
LEMMA EvictFirst ==
  ASSUME LoopInv, Keys(c) # {}
  PROVE  need_evict_from(c, First) <=> need_evict
<1>1. {j \in Keys(c) : Le(First, j)} = Keys(c)
  BY Ends
<1>2. {j \in Keys(c) : Lt(j, First)} = {}
  <2>1. ASSUME NEW j \in Keys(c), Lt(j, First) PROVE FALSE
    BY <2>1, Ends, IdOrder DEF Le
  <2> QED
    BY <2>1
<1>3. c.size - SizeOf(c, {}) = c.size
  BY SizeEmpty DEF LoopInv, Covered
<1> QED
  BY <1>1, <1>2, <1>3 DEF need_evict_from, need_evict

---------------------------------------------------------------------------
(* The steps.                                                              *)

\* A turn pops an entry that the method removes, and the method goes on as
\* before.
LEMMA TurnStep ==
  ASSUME LoopInv, Turn
  PROVE  LoopInv'
<1>1. PICK x, d : x = (IF pc = "truncate_after" THEN Greatest ELSE First) /\ d = c'
  OBVIOUS
<1>2. /\ Keys(c) # {} /\ x \in Keys(c) /\ IsCache(c) /\ Covered(c)
      /\ pc' = pc /\ key' = key /\ want' = want /\ pc # "idle"
  BY <1>1, Ends DEF Turn, LoopPops, try_evict_pops, drain_evictable_pops,
      truncate_after_pops, purge_upto_pops, LoopInv
<1>3. d = Without(c, {x})
  BY <1>1, <1>2, PopIsWithout DEF Turn, Pop, Popped
<1>4. /\ IsCache(d) /\ Covered(d)
      /\ Keys(d) = Keys(c) \ {x} /\ d.last_evictable = c.last_evictable
  BY <1>2, <1>3, WithoutType, WithoutCovered, WithoutKeys
<1>5. SUFFICES Rest' = Rest
  BY <1>1, <1>2, <1>4, <1>5 DEF LoopInv
<1>6. CASE pc = "try_evict"
  <2>1. PICK S : S = {k \in Keys(c) : IsEvictable(c, k) /\ need_evict_from(c, k)}
    OBVIOUS
  <2>2. x = First /\ need_evict /\ IsEvictable(c, x)
    BY <1>1, <1>6 DEF Turn, LoopPops, try_evict_pops, drain_evictable_pops,
      truncate_after_pops, purge_upto_pops
  <2>3. x \in S /\ S \in SUBSET Keys(c)
    BY <1>2, <2>1, <2>2, EvictFirst
  <2>4. {k \in Keys(d) : IsEvictable(d, k) /\ need_evict_from(d, k)} = S \ {x}
    <3>1. ASSUME NEW k \in Keys(d)
          PROVE  /\ IsEvictable(d, k) <=> IsEvictable(c, k)
                 /\ need_evict_from(d, k) <=> need_evict_from(c, k)
      <4>1. k \in Keys(c) /\ k # x /\ \A j \in Keys(c) : Le(x, j)
        BY <1>2, <1>4, <2>2, <3>1, Ends
      <4> QED
        BY <1>2, <1>3, <1>4, <4>1, EvictSame DEF IsEvictable
    <3> QED
      BY <1>4, <2>1, <3>1
  <2>5. Without(d, S \ {x}) = Without(c, S)
    BY <1>2, <1>3, <2>3, WithoutInTurn
  <2> QED
    BY <1>1, <1>2, <1>6, <2>1, <2>4, <2>5, RestCases, RestPrimed
<1>7. CASE pc = "drain_evictable"
  <2>1. PICK S : S = {k \in Keys(c) : IsEvictable(c, k)}
    OBVIOUS
  <2>2. x \in S /\ S \in SUBSET Keys(c)
    BY <1>1, <1>2, <1>7, <2>1 DEF Turn, LoopPops, try_evict_pops, drain_evictable_pops,
      truncate_after_pops, purge_upto_pops
  <2>3. {k \in Keys(d) : IsEvictable(d, k)} = S \ {x}
    BY <1>4, <2>1 DEF IsEvictable
  <2>4. Without(d, S \ {x}) = Without(c, S)
    BY <1>2, <1>3, <2>2, WithoutInTurn
  <2> QED
    BY <1>1, <1>2, <1>7, <2>1, <2>3, <2>4, RestCases, RestPrimed
<1>8. CASE pc = "truncate_after"
  <2>1. PICK S : S = {k \in Keys(c) : Lt(key, k)}
    OBVIOUS
  <2>2. x \in S /\ S \in SUBSET Keys(c)
    BY <1>1, <1>2, <1>8, <2>1 DEF Turn, LoopPops, try_evict_pops, drain_evictable_pops,
      truncate_after_pops, purge_upto_pops
  <2>3. {k \in Keys(d) : Lt(key, k)} = S \ {x}
    BY <1>4, <2>1
  <2>4. Without(d, S \ {x}) = Without(c, S)
    BY <1>2, <1>3, <2>2, WithoutInTurn
  <2> QED
    BY <1>1, <1>2, <1>8, <2>1, <2>3, <2>4, RestCases, RestPrimed
<1>9. CASE pc = "purge_upto"
  <2>1. PICK S : S = {k \in Keys(c) : Le(k, key) /\ IsEvictable(c, k)}
    OBVIOUS
  <2>2. x \in S /\ S \in SUBSET Keys(c)
    BY <1>1, <1>2, <1>9, <2>1 DEF Turn, LoopPops, try_evict_pops, drain_evictable_pops,
      truncate_after_pops, purge_upto_pops
  <2>3. {k \in Keys(d) : Le(k, key) /\ IsEvictable(d, k)} = S \ {x}
    BY <1>4, <2>1 DEF IsEvictable
  <2>4. Without(d, S \ {x}) = Without(c, S)
    BY <1>2, <1>3, <2>2, WithoutInTurn
  <2> QED
    BY <1>1, <1>2, <1>9, <2>1, <2>3, <2>4, RestCases, RestPrimed
<1> QED
  BY <1>2, <1>6, <1>7, <1>8, <1>9 DEF LoopInv

\* A loop that stops has nothing left to remove.
LEMMA LeaveStep ==
  ASSUME LoopInv, Leave
  PROVE  LoopInv'
<1>1. c' = c /\ key' = key /\ want' = want /\ pc' = "idle" /\ pc # "idle"
  BY DEF Leave
<1>2. SUFFICES Rest = c
  <2>1. Rest' = c
    BY <1>1, RestPrimed
  <2> QED
    BY <1>1, <1>2, <2>1 DEF LoopInv
<1>3. Without(c, {}) = c /\ IsCache(c) /\ Covered(c) /\ key \in OptLogId
  BY WithoutNothing DEF LoopInv
<1>4. CASE Keys(c) = {}
  <2>1. \E S \in SUBSET Keys(c) : Rest = Without(c, S)
    BY <1>1, RestCases DEF LoopInv
  <2> QED
    BY <1>3, <1>4, <2>1
<1>5. CASE Keys(c) # {}
  <2>1. /\ First \in Keys(c) /\ \A j \in Keys(c) : Le(First, j)
        /\ Greatest \in Keys(c) /\ \A j \in Keys(c) : Le(j, Greatest)
        /\ Keys(c) \subseteq OptLogId /\ c.last_evictable \in OptLogId
    BY <1>5, Ends
  <2>2. ~LoopPops(pc)
    BY DEF Leave
  <2>3. ASSUME NEW k \in Keys(c), IsEvictable(c, k) PROVE IsEvictable(c, First)
    BY <2>1, <2>3, IdOrder DEF IsEvictable, Le
  <2>4. CASE pc = "try_evict"
    <3>1. ~need_evict \/ ~IsEvictable(c, First)
      BY <1>5, <2>2, <2>4 DEF LoopPops, try_evict_pops, drain_evictable_pops,
      truncate_after_pops, purge_upto_pops
    <3>2. ASSUME NEW k \in Keys(c), need_evict_from(c, k) PROVE need_evict
      <4>1. PICK A, B : A = {j \in Keys(c) : Le(k, j)} /\ B = {j \in Keys(c) : Lt(j, k)}
        OBVIOUS
      <4>2. IsFiniteSet(Keys(c)) /\ c.size \in Nat /\ SizeOf(c, B) \in Nat
        BY <1>3, <4>1, KeysSized DEF Covered
      <4>3. /\ Cardinality(A) <= Cardinality(Keys(c))
            /\ Cardinality(A) \in Nat /\ Cardinality(Keys(c)) \in Nat
        BY <4>1, <4>2, FS_Subset, FS_CardinalityType
      <4>4. Cardinality(A) > MaxItems \/ c.size - SizeOf(c, B) > Capacity
        BY <3>2, <4>1 DEF need_evict_from
      <4> QED
        BY <4>2, <4>3, <4>4, CacheLimits DEF need_evict
    <3>3. {k \in Keys(c) : IsEvictable(c, k) /\ need_evict_from(c, k)} = {}
      BY <2>3, <3>1, <3>2
    <3> QED
      BY <1>3, <2>4, <3>3, RestCases
  <2>5. CASE pc = "drain_evictable"
    <3>1. {k \in Keys(c) : IsEvictable(c, k)} = {}
      BY <1>5, <2>2, <2>3, <2>5 DEF LoopPops, try_evict_pops, drain_evictable_pops,
      truncate_after_pops, purge_upto_pops
    <3> QED
      BY <1>3, <2>5, <3>1, RestCases
  <2>6. CASE pc = "truncate_after"
    <3>1. ~Lt(key, Greatest)
      BY <1>5, <2>2, <2>6 DEF LoopPops, try_evict_pops, drain_evictable_pops,
      truncate_after_pops, purge_upto_pops
    <3>2. ASSUME NEW k \in Keys(c), Lt(key, k) PROVE FALSE
      BY <1>3, <2>1, <3>1, <3>2, IdOrder DEF Le
    <3>3. {k \in Keys(c) : Lt(key, k)} = {}
      BY <3>2
    <3> QED
      BY <1>3, <2>6, <3>3, RestCases
  <2>7. CASE pc = "purge_upto"
    <3>1. ~(Le(First, key) /\ IsEvictable(c, First))
      BY <1>5, <2>2, <2>7 DEF LoopPops, try_evict_pops, drain_evictable_pops,
      truncate_after_pops, purge_upto_pops
    <3>2. ASSUME NEW k \in Keys(c), Le(k, key), IsEvictable(c, k) PROVE FALSE
      <4>1. Le(First, key)
        BY <1>3, <2>1, <3>2, IdOrder DEF Le
      <4> QED
        BY <2>3, <3>1, <3>2, <4>1
    <3>3. {k \in Keys(c) : Le(k, key) /\ IsEvictable(c, k)} = {}
      BY <3>2
    <3> QED
      BY <1>3, <2>7, <3>3, RestCases
  <2> QED
    BY <1>1, <2>4, <2>5, <2>6, <2>7 DEF LoopInv
<1> QED
  BY <1>4, <1>5

\* The methods begin.
LEMMA BeginStep ==
  ASSUME LoopInv,
         NEW loop \in {"drain_evictable", "truncate_after", "purge_upto"},
         NEW k \in OptLogId, NEW end, Begin(loop, k, end),
         /\ loop = "drain_evictable" => end = drain_evictable(c)
         /\ loop = "truncate_after" => end = cache_truncate_after(c, k)
         /\ loop = "purge_upto" => end = cache_purge_upto(c, k)
  PROVE  LoopInv'
<1>1. c' = c /\ pc' = loop /\ key' = k /\ want' = end
  BY DEF Begin
<1>2. Rest' = end
  BY <1>1, RestPrimed DEF drain_evictable, cache_truncate_after, cache_purge_upto
<1> QED
  BY <1>1, <1>2 DEF LoopInv

\* An insert puts its payload in the map and goes on to evict.
LEMMA InsertStep ==
  ASSUME LoopInv, NEW k \in CacheIds, NEW payload \in Sizes, insert(k, payload)
  PROVE  LoopInv'
<1>1. c' = Entered(c, k, payload) /\ pc' = "try_evict" /\ key' = k
      /\ want' = cache_insert(c, k, payload)
  BY DEF insert, Entered
<1>2. k \in LogId /\ payload \in Payload /\ k \in OptLogId
  BY CacheInputs DEF OptLogId
<1>3. IsCache(c') /\ Covered(c')
  BY <1>1, <1>2, EnteredCovered DEF LoopInv
<1>4. Rest' = try_evict(c')
  BY <1>1, RestPrimed DEF try_evict
<1>5. want' = try_evict(c')
  BY <1>1 DEF cache_insert, Entered
<1> QED
  BY <1>1, <1>2, <1>3, <1>4, <1>5 DEF LoopInv

\* Steps that end at once.
LEMMA AtOnceStep ==
  ASSUME LoopInv, Clear \/ \E id \in CacheIds \cup {None} : SetLastEvictable(id)
  PROVE  LoopInv'
<1>1. pc' = "idle" /\ key' = key /\ want' = c' /\ key \in OptLogId
  BY DEF Clear, SetLastEvictable, LoopInv
<1>2. IsCache(c') /\ Covered(c')
  <2>1. CASE Clear
    <3>1. c' = Cache([k \in {} |-> 0], 0, c.last_evictable) /\ c.last_evictable \in OptLogId
      BY <2>1 DEF Clear, cache_clear, LoopInv, IsCache
    <3> QED
      BY <3>1, EmptyCache
  <2>2. ASSUME NEW id \in CacheIds \cup {None}, SetLastEvictable(id)
        PROVE  IsCache(c') /\ Covered(c')
    <3>1. id \in OptLogId /\ IsCache(c) /\ Covered(c)
      BY CacheInputs DEF OptLogId, LoopInv
    <3>2. IsCache(set_last_evictable(c, id)) /\ Covered(set_last_evictable(c, id))
      BY <3>1, SetEvictableType, SetEvictableCovered
    <3> QED
      BY <2>2, <3>2 DEF SetLastEvictable
  <2> QED
    BY <2>1, <2>2
<1>3. Rest' = c'
  BY <1>1, RestPrimed
<1> QED
  BY <1>1, <1>2, <1>3 DEF LoopInv

---------------------------------------------------------------------------
(* The theorems.                                                           *)

\* The inductive invariant holds: whatever calls were made, the method that is
\* running (insert, drain_evictable, truncate_after, purge_upto) leads from
\* the entries left to the end it had when it began.
THEOREM LoopInvHolds == Spec => []LoopInv
<1>1. Init => LoopInv
  <2> SUFFICES ASSUME Init PROVE LoopInv
    OBVIOUS
  <2>1. c = Cache([k \in {} |-> 0], 0, None) /\ None \in OptLogId
    BY DEF Init, new_cache, OptLogId
  <2>2. IsCache(c) /\ Covered(c)
    BY <2>1, EmptyCache
  <2> QED
    BY <2>1, <2>2, RestCases DEF Init, LoopInv
<1>2. LoopInv /\ [Next]_vars => LoopInv'
  <2> SUFFICES ASSUME LoopInv, [Next]_vars PROVE LoopInv'
    OBVIOUS
  <2>1. ASSUME NEW k \in CacheIds, NEW payload \in Sizes, insert(k, payload)
        PROVE  LoopInv'
    BY <2>1, InsertStep
  <2>2. CASE Begin("drain_evictable", None, drain_evictable(c))
    BY <2>2, BeginStep DEF OptLogId
  <2>3. ASSUME NEW k \in CacheIds, Begin("truncate_after", k, cache_truncate_after(c, k))
        PROVE  LoopInv'
    <3>1. k \in OptLogId
      BY CacheInputs DEF OptLogId
    <3> QED
      BY <2>3, <3>1, BeginStep
  <2>4. ASSUME NEW k \in CacheIds, Begin("purge_upto", k, cache_purge_upto(c, k))
        PROVE  LoopInv'
    <3>1. k \in OptLogId
      BY CacheInputs DEF OptLogId
    <3> QED
      BY <2>4, <3>1, BeginStep
  <2>5. CASE Clear \/ \E id \in CacheIds \cup {None} : SetLastEvictable(id)
    BY <2>5, AtOnceStep
  <2>6. CASE Turn
    BY <2>6, TurnStep
  <2>7. CASE Leave
    BY <2>7, LeaveStep
  <2>8. CASE UNCHANGED vars
    BY <2>8 DEF vars, LoopInv, Rest
  <2> QED
    BY <2>1, <2>2, <2>3, <2>4, <2>5, <2>6, <2>7, <2>8 DEF Next
<1> QED
  BY <1>1, <1>2, PTL DEF Spec

\* Every loop that has ended left the map and the size that module PayloadCache
\* states in one expression (try_evict, drain_evictable, truncate_after,
\* purge_upto of payload_cache.rs).
THEOREM LoopsEndAsDefined == Spec => []LoopEndsAsDefined
<1>1. LoopInv => LoopEndsAsDefined
  BY RestCases DEF LoopInv, LoopEndsAsDefined
<1> QED
  BY <1>1, LoopInvHolds, PTL

\* `size -= payload_size` never wraps: at every turn of every loop the size
\* covers what the map holds, also after a key was inserted twice.
THEOREM SizeAlwaysCovers == Spec => []SizeCoversContent
<1>1. LoopInv => SizeCoversContent
  BY DEF LoopInv, Covered, SizeCoversContent
<1> QED
  BY <1>1, LoopInvHolds, PTL
=============================================================================
