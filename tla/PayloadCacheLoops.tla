--------------------------- MODULE PayloadCacheLoops ---------------------------
(***************************************************************************)
(* The methods of PayloadCache as the code runs them, popping one entry at *)
(* a time from an end of the BTreeMap (payload_cache.rs).  When a loop     *)
(* ends, the cache is the one module PayloadCache defines for the method   *)
(* in one expression.                                                      *)
(***************************************************************************)
EXTENDS PayloadCache

CONSTANTS
  CacheIds,    \* the log ids used as keys
  Sizes,       \* the payload sizes
  MaxSize      \* bound on the size accounted for

ASSUME CacheInputs ==
  CacheIds \subseteq LogId /\ Sizes \subseteq Payload /\ MaxSize \in Nat

VARIABLES
  c,      \* the cache
  pc,     \* the loop that is running, or "idle"
  key,    \* the argument of the running or last method
  want    \* what module PayloadCache says the method ends with

vars == <<c, pc, key, want>>

First == CHOOSE k \in Keys(c) : \A j \in Keys(c) : Le(k, j)
Greatest == CHOOSE k \in Keys(c) : \A j \in Keys(c) : Le(j, k)

\* Mutant: the loop looks at the entry and leaves it in the map.
Pop_peeks(k) == c

\* Mutant: the size is reduced twice, as if the old payload of a key that was
\* inserted again were still there.
Pop_twice(k) == Cache([j \in Keys(c) \ {k} |-> c.cache[j]],
                      c.size - 2 * c.cache[k], c.last_evictable)

\* One entry leaves the map, its size is subtracted.
Pop(k) == Cache([j \in Keys(c) \ {k} |-> c.cache[j]], c.size - c.cache[k],
                c.last_evictable)

need_evict == Cardinality(Keys(c)) > MaxItems \/ c.size > Capacity

---------------------------------------------------------------------------
(* The methods begin.                                                      *)

insert(k, payload) ==
  /\ pc = "idle"
  /\ c.size + payload <= MaxSize
  /\ c' = Cache([j \in Keys(c) \cup {k} |-> IF j = k THEN payload ELSE c.cache[j]],
                c.size + payload, c.last_evictable)
  /\ pc' = "try_evict"
  /\ key' = k
  /\ want' = cache_insert(c, k, payload)

Begin(loop, k, end) ==
  /\ pc = "idle"
  /\ pc' = loop
  /\ key' = k
  /\ want' = end
  /\ UNCHANGED c

SetLastEvictable(id) ==
  /\ pc = "idle"
  /\ c' = set_last_evictable(c, id)
  /\ want' = c'
  /\ UNCHANGED <<pc, key>>

Clear ==
  /\ pc = "idle"
  /\ c' = cache_clear(c)
  /\ want' = c'
  /\ UNCHANGED <<pc, key>>

---------------------------------------------------------------------------
(* One turn of a loop: go on with the entry it pops, or leave.             *)

\* Each loop's condition on the entry at its end of the map.
try_evict_pops == need_evict /\ IsEvictable(c, First)

drain_evictable_pops == IsEvictable(c, First)

truncate_after_pops == Lt(key, Greatest)

\* Mutant: purge_upto does not look at the evictable boundary.
purge_upto_pops_all == Le(First, key)

purge_upto_pops == Le(First, key) /\ IsEvictable(c, First)

LoopPops(loop) ==
  /\ Keys(c) # {}
  /\ loop = "try_evict" => try_evict_pops
  /\ loop = "drain_evictable" => drain_evictable_pops
  /\ loop = "truncate_after" => truncate_after_pops
  /\ loop = "purge_upto" => purge_upto_pops

Turn ==
  /\ pc # "idle"
  /\ LoopPops(pc)
  /\ c' = Pop(IF pc = "truncate_after" THEN Greatest ELSE First)
  /\ UNCHANGED <<pc, key, want>>

Leave ==
  /\ pc # "idle"
  /\ ~LoopPops(pc)
  /\ pc' = "idle"
  /\ UNCHANGED <<c, key, want>>

Init == c = new_cache /\ pc = "idle" /\ key = None /\ want = new_cache

Next ==
  \/ \E k \in CacheIds, payload \in Sizes : insert(k, payload)
  \/ Begin("drain_evictable", None, drain_evictable(c))
  \/ \E k \in CacheIds : Begin("truncate_after", k, cache_truncate_after(c, k))
  \/ \E k \in CacheIds : Begin("purge_upto", k, cache_purge_upto(c, k))
  \/ \E id \in CacheIds \cup {None} : SetLastEvictable(id)
  \/ Clear
  \/ Turn
  \/ Leave

Spec == Init /\ [][Next]_vars /\ WF_vars(Turn \/ Leave)

---------------------------------------------------------------------------
\* Each loop of payload_cache.rs ends with the map and the size that module
\* PayloadCache states in one expression, whatever the cache held.
LoopEndsAsDefined == pc = "idle" => c = want

\* `size -= payload_size` never goes below zero, in any loop: the size covers
\* what the map holds even after a key was inserted twice.
SizeCoversContent == c.size >= SizeOf(c, Keys(c))

\* Every loop ends, also when no entry may leave and the limits are exceeded.
LoopsEnd == pc # "idle" ~> pc = "idle"

---------------------------------------------------------------------------
(* What carries the proofs about the loops.                                *)

\* What the method that is running still has to do, in one expression.
Rest ==
  CASE pc = "idle" -> c
    [] pc = "try_evict" -> try_evict(c)
    [] pc = "drain_evictable" -> drain_evictable(c)
    [] pc = "truncate_after" -> cache_truncate_after(c, key)
    [] pc = "purge_upto" -> cache_purge_upto(c, key)

\* The inductive invariant of the loops of payload_cache.rs: from wherever a
\* loop stands, its method leads to the same end as from where it began, and
\* the size covers the payloads that are left.
LoopInv ==
  /\ IsCache(c) /\ Covered(c)
  /\ pc \in {"idle", "try_evict", "drain_evictable", "truncate_after", "purge_upto"}
  /\ key \in OptLogId
  /\ want = Rest
=============================================================================
