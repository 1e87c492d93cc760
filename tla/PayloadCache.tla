------------------------------ MODULE PayloadCache ------------------------------
(***************************************************************************)
(* The payload cache, src/src/raft_log/state_machine/payload_cache.rs: a   *)
(* BTreeMap from log id to payload, the sum of the payload sizes it        *)
(* accounts for, and the boundary last_evictable up to which payloads may  *)
(* leave it.                                                               *)
(*                                                                         *)
(* The code pops entries one at a time from either end of the map.  Here   *)
(* each method is the map it ends with, stated at once; module             *)
(* PayloadCacheLoops runs the loops step by step and shows that they end   *)
(* there.                                                                  *)
(***************************************************************************)
EXTENDS RaftLogTypes, FiniteSets, FiniteSetsExt

CONSTANTS
  MaxItems,   \* Config::log_cache_max_items
  Capacity    \* Config::log_cache_capacity

ASSUME CacheLimits == MaxItems \in Nat /\ Capacity \in Nat

Cache(map, size, last_evictable) ==
  [cache |-> map, size |-> size, last_evictable |-> last_evictable]

\* PayloadCache::new.
new_cache == Cache([k \in {} |-> 0], 0, None)

Keys(c) == DOMAIN c.cache

SizeOf(c, S) == MapThenSumSet(LAMBDA k : c.cache[k], S)

\* c without the entries of S: what popping each of them leaves.
Without(c, S) ==
  Cache([k \in Keys(c) \ S |-> c.cache[k]], c.size - SizeOf(c, S), c.last_evictable)

set_last_evictable(c, id) == Cache(c.cache, c.size, id)

IsEvictable(c, k) == Le(k, c.last_evictable)

\* Mutant: both limits must be exceeded.
need_evict_both(c, k) ==
  /\ Cardinality({j \in Keys(c) : Le(k, j)}) > MaxItems
  /\ c.size - SizeOf(c, {j \in Keys(c) : Lt(j, k)}) > Capacity

\* need_evict, in the map that starts at k: everything below k is gone.
need_evict_from(c, k) ==
  \/ Cardinality({j \in Keys(c) : Le(k, j)}) > MaxItems
  \/ c.size - SizeOf(c, {j \in Keys(c) : Lt(j, k)}) > Capacity

try_evict(c) ==
  Without(c, {k \in Keys(c) : IsEvictable(c, k) /\ need_evict_from(c, k)})

\* Mutant: a payload that is inserted is not added to the size.
cache_insert_uncounted(c, key, payload) ==
  try_evict(
    Cache([k \in Keys(c) \cup {key} |-> IF k = key THEN payload ELSE c.cache[k]],
          c.size, c.last_evictable))

\* The size of the payload a key already held is not subtracted.
cache_insert(c, key, payload) ==
  try_evict(
    Cache([k \in Keys(c) \cup {key} |-> IF k = key THEN payload ELSE c.cache[k]],
          c.size + payload, c.last_evictable))

drain_evictable(c) == Without(c, {k \in Keys(c) : IsEvictable(c, k)})

cache_truncate_after(c, key) == Without(c, {k \in Keys(c) : Lt(key, k)})

\* Mutant: a purge also drops payloads that are not evictable yet.
cache_purge_upto_all(c, key) == Without(c, {k \in Keys(c) : Le(k, key)})

\* Purged payloads that are not evictable yet stay.
cache_purge_upto(c, key) ==
  Without(c, {k \in Keys(c) : Le(k, key) /\ IsEvictable(c, k)})

\* Mutant: the size survives a clear.
cache_clear_keeps_size(c) == Cache([k \in {} |-> 0], c.size, c.last_evictable)

cache_clear(c) == Cache([k \in {} |-> 0], 0, c.last_evictable)

\* What RaftLogStateMachine::apply does to the cache.
apply_cache(c, rec) ==
  CASE rec.type = "Append" -> cache_insert(c, rec.log_id, rec.payload)
    [] rec.type = "TruncateAfter" ->
         IF rec.log_id = None THEN cache_clear(c)
         ELSE cache_truncate_after(c, rec.log_id)
    [] rec.type = "PurgeUpto" -> cache_purge_upto(c, rec.log_id)
    [] rec.type \in {"SaveVote", "Commit", "Checkpoint"} -> c

---------------------------------------------------------------------------
(* The shape of a cache, and what its size is worth.                       *)

IsCache(c) ==
  /\ c = Cache(c.cache, c.size, c.last_evictable)
  /\ c.cache = [k \in DOMAIN c.cache |-> c.cache[k]]
  /\ DOMAIN c.cache \subseteq LogId
  /\ \A k \in DOMAIN c.cache : c.cache[k] \in Payload
  /\ c.last_evictable \in OptLogId

\* The size c accounts for covers the payloads it holds.
Covered(c) ==
  IsFiniteSet(Keys(c)) /\ c.size \in Nat /\ c.size >= SizeOf(c, Keys(c))
=============================================================================
