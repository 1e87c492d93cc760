--------------------------- MODULE RaftLogCacheProofs ---------------------------
(***************************************************************************)
(* The payload cache: reads serve what was appended, a payload leaves the  *)
(* cache only once it can be read from a file that stays, a drained cache  *)
(* does not depend on when the FlushWorker ran, and the size is exact.     *)
(***************************************************************************)
EXTENDS RaftLogRecoveryProofs

---------------------------------------------------------------------------
(* What the methods of PayloadCache do to the map.                         *)

\* What RaftLogStateMachine::apply does to the keys and payloads of the cache:
\* an append enters its payload, and only what is evictable or truncated goes.
LEMMA ApplyCacheKeys ==
  ASSUME NEW c, IsCache(c), NEW rec \in RaftLogRecord
  PROVE  LET d == apply_cache(c, rec) IN
         /\ d.last_evictable = c.last_evictable
         /\ \A k \in Keys(d) :
              \/ rec.type = "Append" /\ k = rec.log_id /\ d.cache[k] = rec.payload
              \/ /\ k \in Keys(c) /\ d.cache[k] = c.cache[k]
                 /\ rec.type = "Append" => k # rec.log_id
         /\ \A k : k \in Keys(c) \/ (rec.type = "Append" /\ k = rec.log_id) =>
              \/ k \in Keys(d) \/ Le(k, c.last_evictable)
              \/ rec.type = "TruncateAfter" /\ Lt(rec.log_id, k)
<1>1. PICK d : d = apply_cache(c, rec)
  OBVIOUS
<1>2. CASE rec.type = "Append"
  <2>1. d = cache_insert(c, rec.log_id, rec.payload)
    BY <1>1, <1>2, Zenon DEF apply_cache
  <2> QED
    BY <1>1, <1>2, <2>1, InsertKeys
<1>3. CASE rec.type = "TruncateAfter"
  <2>1. CASE rec.log_id = None
    <3>1. d = cache_clear(c)
      BY <1>1, <1>3, <2>1, Zenon DEF apply_cache
    <3>2. Keys(d) = {} /\ d.last_evictable = c.last_evictable
      BY <3>1 DEF cache_clear, Cache, Keys
    <3>3. ASSUME NEW k \in Keys(c) PROVE Lt(None, k)
      <4>1. k \in LogId
        BY <3>3 DEF IsCache, Keys
      <4> QED
        BY <4>1 DEF LogId, Lt, None
    <3> QED
      BY <1>1, <1>3, <2>1, <3>2, <3>3
  <2>2. CASE rec.log_id # None
    <3>1. d = Without(c, {k \in Keys(c) : Lt(rec.log_id, k)})
      BY <1>1, <1>3, <2>2, Zenon DEF apply_cache, cache_truncate_after
    <3> QED
      BY <1>1, <1>3, <3>1, WithoutKeys
  <2> QED
    BY <2>1, <2>2
<1>4. CASE rec.type = "PurgeUpto"
  <2>1. d = Without(c, {k \in Keys(c) : Le(k, rec.log_id) /\ IsEvictable(c, k)})
    BY <1>1, <1>4, Zenon DEF apply_cache, cache_purge_upto
  <2> QED
    BY <1>1, <1>4, <2>1, WithoutKeys DEF IsEvictable
<1>5. CASE rec.type \in {"SaveVote", "Commit", "Checkpoint"}
  <2>1. d = c
    BY <1>1, <1>5, Zenon DEF apply_cache
  <2> QED
    BY <1>1, <1>5, <2>1
<1> QED
  BY <1>2, <1>3, <1>4, <1>5, RecordTypes

\* The payloads of the cache stay the latest ones when a record is applied.
LEMMA LatestApplied ==
  ASSUME NEW c, IsCache(c), NEW r, NEW n \in Nat, LatestIn(c, r, n), NEW rr,
         \A p \in 1 .. n : rr[p] = r[p], rr[n + 1].rec \in RaftLogRecord
  PROVE  LatestIn(apply_cache(c, rr[n + 1].rec), rr, n + 1)
<1>1. PICK rec, d : rec = rr[n + 1].rec /\ d = apply_cache(c, rec)
  OBVIOUS
<1>2. SUFFICES ASSUME NEW k \in Keys(d)
               PROVE  \E p \in 1 .. n + 1 :
                        /\ rr[p].rec = AppendAction(k, d.cache[k])
                        /\ \A q \in p + 1 .. n + 1 :
                             rr[q].rec.type = "Append" => rr[q].rec.log_id # k
  BY <1>1 DEF LatestIn
<1>3. CASE rec.type = "Append" /\ k = rec.log_id /\ d.cache[k] = rec.payload
  <2>1. rec = AppendAction(k, d.cache[k])
    BY <1>1, <1>3 DEF AppendAction, RaftLogRecord
  <2>2. n + 1 \in 1 .. n + 1 /\ \A q \in (n + 1) + 1 .. n + 1 : FALSE
    OBVIOUS
  <2> QED
    BY <1>1, <2>1, <2>2
<1>4. CASE /\ k \in Keys(c) /\ d.cache[k] = c.cache[k]
           /\ rec.type = "Append" => k # rec.log_id
  <2>1. PICK p \in 1 .. n :
          /\ r[p].rec = AppendAction(k, c.cache[k])
          /\ \A q \in p + 1 .. n : r[q].rec.type = "Append" => r[q].rec.log_id # k
    BY <1>4 DEF LatestIn
  <2>2. p \in 1 .. n + 1 /\ \A q \in p + 1 .. n + 1 : q = n + 1 \/ (q \in p + 1 .. n /\ q \in 1 .. n)
    OBVIOUS
  <2>3. rr[p].rec = AppendAction(k, d.cache[k])
    BY <1>4, <2>1
  <2>4. \A q \in p + 1 .. n + 1 : rr[q].rec.type = "Append" => rr[q].rec.log_id # k
    BY <1>1, <1>4, <2>1, <2>2
  <2> QED
    BY <2>2, <2>3, <2>4
<1> QED
  BY <1>1, <1>3, <1>4, ApplyCacheKeys

\* Dropping keys keeps the others the latest.
LEMMA LatestWithout ==
  ASSUME NEW c, NEW d, NEW r, NEW n, LatestIn(c, r, n),
         \A k \in Keys(d) : k \in Keys(c) /\ d.cache[k] = c.cache[k]
  PROVE  LatestIn(d, r, n)
  BY Zenon DEF LatestIn

---------------------------------------------------------------------------
(* Where the entries of a log map come from.                               *)

\* An entry of the log map after a record is one of before, or the record's own.
LEMMA EntryOrigin ==
  ASSUME NEW l, IsLog(l), NEW rec \in RaftLogRecord, NEW chunk, NEW seg,
         NEW i \in DOMAIN apply_log(l, rec, chunk, seg)
  PROVE  LET data == apply_log(l, rec, chunk, seg)[i] IN
         \/ /\ i \in DOMAIN l /\ data = l[i]
            /\ rec.type = "Append" => log_index(rec.log_id) # i
         \/ /\ rec.type = "Append" /\ log_index(rec.log_id) = i
            /\ data = NewLogData(rec.log_id, chunk, seg)
<1>1. rec.type = "Append" => apply_log(l, rec, chunk, seg)
        = InsertLog(l, log_index(rec.log_id), NewLogData(rec.log_id, chunk, seg))
  BY Zenon DEF apply_log
<1>2. rec.type = "TruncateAfter" => apply_log(l, rec, chunk, seg)
        = RestrictLog(l, {j \in DOMAIN l : j < next_log_index(rec.log_id)})
  BY Zenon DEF apply_log
<1>3. rec.type = "PurgeUpto" => apply_log(l, rec, chunk, seg)
        = RestrictLog(l, {j \in DOMAIN l : j >= next_log_index(rec.log_id)})
  BY Zenon DEF apply_log
<1>4. rec.type \in {"SaveVote", "Commit", "Checkpoint"} => apply_log(l, rec, chunk, seg) = l
  BY Zenon DEF apply_log
<1>5. CASE rec.type = "Append"
  BY <1>1, <1>5 DEF InsertLog
<1>6. CASE rec.type \in {"TruncateAfter", "PurgeUpto"}
  BY <1>2, <1>3, <1>6 DEF RestrictLog
<1>7. CASE rec.type \in {"SaveVote", "Commit", "Checkpoint"}
  BY <1>4, <1>7
<1> QED
  BY <1>5, <1>6, <1>7, RecordTypes

\* The record an entry points to is the append that made it, and no later one
\* was for its index.
LEMMA PlacedEntry ==
  ASSUME NEW r, NEW h, Wal(r, h), History(r, h), NEW p \in 1 .. Len(r),
         NEW i \in DOMAIN h[p].log
  PROVE  LET data == h[p].log[i] IN
         /\ data.segment \in 1 .. p /\ r[data.segment].chunk = data.chunk_id
         /\ r[data.segment].rec.type = "Append" /\ r[data.segment].rec.log_id = data.log_id
         /\ log_index(data.log_id) = i
         /\ \A q \in data.segment + 1 .. p :
              r[q].rec.type = "Append" => log_index(r[q].rec.log_id) # i
<1>1. PICK data, s : data = h[p].log[i] /\ s = data.segment
  OBVIOUS
<1>2. /\ s \in 1 .. p /\ r[s].chunk = data.chunk_id
      /\ \A q \in s .. p : i \in DOMAIN h[q].log /\ h[q].log[i] = data
  BY <1>1 DEF History, EntriesPlaced
<1>3. Len(r) \in Nat /\ p \in Nat /\ s \in Nat
  BY <1>2, WalTypes
<1>4. ASSUME NEW q \in s .. p
      PROVE  \/ /\ q > s
                /\ r[q].rec.type = "Append" => log_index(r[q].rec.log_id) # i
             \/ /\ q = s /\ r[q].rec.type = "Append" /\ log_index(r[q].rec.log_id) = i
                /\ data = NewLogData(r[q].rec.log_id, r[q].chunk, q)
  <2>1. /\ q \in 1 .. Len(r) /\ q - 1 \in 0 .. Len(r) /\ q \in Nat
        /\ q # 1 => q - 1 \in 1 .. Len(r)
    BY <1>2, <1>3
  <2>2. /\ r[q].rec \in RaftLogRecord /\ r[q].chunk \in Nat /\ IsLog(At(h, q - 1).log)
    BY <2>1, WalTypes
  <2>3. h[q].log = apply_log(At(h, q - 1).log, r[q].rec, r[q].chunk, q)
    BY <2>1 DEF History, RecordsBuild, Builds
  <2>4. i \in DOMAIN h[q].log /\ h[q].log[i] = data
    BY <1>2
  <2>5. \/ /\ i \in DOMAIN At(h, q - 1).log /\ data = At(h, q - 1).log[i]
           /\ r[q].rec.type = "Append" => log_index(r[q].rec.log_id) # i
        \/ /\ r[q].rec.type = "Append" /\ log_index(r[q].rec.log_id) = i
           /\ data = NewLogData(r[q].rec.log_id, r[q].chunk, q)
    BY <2>2, <2>3, <2>4, EntryOrigin
  <2>6. ASSUME i \in DOMAIN At(h, q - 1).log, data = At(h, q - 1).log[i]
        PROVE  q > s
    <3>1. q # 1
      BY <2>6 DEF At, View, EmptyMap
    <3>2. At(h, q - 1) = h[q - 1] /\ q - 1 \in 1 .. Len(r)
      BY <2>1, <3>1 DEF At
    <3>3. h[q - 1].log[i].segment \in 1 .. q - 1
      BY <2>6, <3>2 DEF History, EntriesPlaced
    <3>4. s <= q - 1
      BY <1>1, <2>6, <3>2, <3>3
    <3> QED
      BY <1>3, <2>1, <3>4
  <2>7. ASSUME data = NewLogData(r[q].rec.log_id, r[q].chunk, q)
        PROVE  q = s
    BY <1>1, <2>7 DEF NewLogData
  <2> QED
    BY <2>5, <2>6, <2>7
<1>5. s \in s .. p /\ ~(s > s)
  BY <1>2, <1>3
<1>6. /\ r[s].rec.type = "Append" /\ log_index(r[s].rec.log_id) = i
      /\ data = NewLogData(r[s].rec.log_id, r[s].chunk, s)
  BY <1>4, <1>5
<1>7. data.log_id = r[s].rec.log_id
  BY <1>6 DEF NewLogData
<1>8. \A q \in s + 1 .. p : q \in s .. p /\ q # s
  BY <1>2, <1>3
<1> QED
  BY <1>1, <1>2, <1>4, <1>6, <1>7, <1>8

\* The log map of a store that runs or is being opened is part of the last view.
LEMMA LogEntries ==
  ASSUME RecoveryInv, OpenSucceeds, NEW i \in DOMAIN log
  PROVE  /\ status # "down" /\ Applied \in 1 .. Len(recs)
         /\ i \in DOMAIN snap[Applied].log /\ log[i] = snap[Applied].log[i]
<1>1. /\ Len(recs) \in Nat /\ files \subseteq Nat /\ rp \in Nat
  BY DiskFacts
<1>2. status \in {"down", "replay", "up"}
  BY DEF RecoveryInv, TypeInv, TypeOK, OpenSucceeds
<1>3. status # "down"
  <2>1. DOMAIN EmptyMap = {}
    BY DEF EmptyMap
  <2> QED
    BY <2>1 DEF RecoveryInv, StoreInv, MemoryFollows
<1>4. CASE status = "up"
  <2>1. Len(recs) > 0 /\ log = snap[Len(recs)].log
    BY <1>4, UpFacts DEF RecoveryInv, StoreInv, MemoryFollows
  <2> QED
    BY <1>1, <1>4, <2>1 DEF Applied
<1>5. CASE status = "replay"
  <2>1. files # {} /\ rp # Oldest
    <3>1. log # EmptyMap
      BY DEF EmptyMap
    <3> QED
      BY <1>5, <3>1 DEF RecoveryInv, StoreInv, ReplayOfNothing, ReplayFollows
  <2>2. rp > Oldest /\ rp <= Len(recs) /\ Oldest \in Nat
    BY <1>1, <1>5, <2>1, OldestFile
      DEF RecoveryInv, StoreInv, ReplayFollows, TypeInv, Structure, ReplayPlace
  <2>3. log = After(snap[rp].log, Oldest)
    BY <1>5, <2>1, <2>2 DEF RecoveryInv, StoreInv, ReplayFollows
  <2> QED
    BY <1>1, <1>5, <2>2, <2>3 DEF Applied, After, RestrictLog
<1> QED
  BY <1>2, <1>3, <1>4, <1>5

---------------------------------------------------------------------------
(* append_and_apply, one position at a time.                               *)

\* What append_and_apply leaves: the record is the next one, and where it
\* fills the chunk a checkpoint follows and the sync of the chunk is queued.
Added(rec) ==
  /\ check(log_state, rec)
  /\ log_state' = apply_state(log_state, rec)
  /\ log' = apply_log(log, rec, open_chunk, Len(recs) + 1)
  /\ cache' = apply_cache(cache, rec)
  /\ status' = "up" /\ synced' = synced /\ acked' = acked
  /\ \A p \in 1 .. Len(recs) : recs'[p] = recs[p] /\ snap'[p] = snap[p]
  /\ recs'[Len(recs) + 1] = Entry(open_chunk, rec)
  /\ snap'[Len(recs) + 1] = View(log_state', log')
  /\ \/ /\ Len(recs') = Len(recs) + 1 /\ Len(snap') = Len(recs) + 1
        /\ open_chunk' = open_chunk /\ queue' = queue
     \/ /\ Len(recs') = Len(recs) + 2 /\ Len(snap') = Len(recs) + 2
        /\ recs'[Len(recs) + 2] = Entry(Len(recs) + 1, CheckpointRecord(log_state'))
        /\ snap'[Len(recs) + 2] = View(log_state', log')
        /\ open_chunk' = Len(recs) + 1
        /\ queue' = Append(queue, WriteRequest(open_chunk, Len(recs) + 1, TRUE, FALSE))

\* append_and_apply is such a step, whether or not it closes a chunk.
LEMMA RecordAdded ==
  ASSUME RecoveryInv, status = "up", NEW rec \in RaftLogRecord, NEW buffer \in BOOLEAN,
         append_and_apply(rec, buffer)
  PROVE  Added(rec)
<1> DEFINE pos == Len(recs) + 1
           st == apply_state(log_state, rec)
           lg == apply_log(log, rec, open_chunk, pos)
           full == pos - open_chunk >= ChunkMaxRecords
<1>1. /\ check(log_state, rec) /\ log_state' = st /\ log' = lg
      /\ cache' = apply_cache(cache, rec) /\ status' = "up" /\ synced' = synced
      /\ acked' = acked
  BY DEF append_and_apply, Accepts
<1>2. ~full => /\ recs' = Append(recs, Entry(open_chunk, rec))
               /\ snap' = Append(snap, View(st, lg))
               /\ open_chunk' = open_chunk /\ queue' = queue
  BY DEF append_and_apply
<1>3. full => /\ recs' = Append(Append(recs, Entry(open_chunk, rec)),
                                Entry(pos, CheckpointRecord(st)))
              /\ snap' = Append(Append(snap, View(st, lg)), View(st, lg))
              /\ open_chunk' = pos
              /\ queue' = Append(queue, WriteRequest(open_chunk, pos, TRUE, FALSE))
  BY DEF append_and_apply
<1>4. \E R, H : /\ recs \in Seq(R) /\ Len(recs) \in Nat /\ Len(snap) = Len(recs)
                /\ snap \in Seq(H)
  BY UpFacts DEF Wal, IsHistory
<1> HIDE DEF st, lg, full
<1>5. CASE ~full
  <2>1. /\ Len(recs') = Len(recs) + 1 /\ Len(snap') = Len(recs) + 1
        /\ \A p \in 1 .. Len(recs) : recs'[p] = recs[p] /\ snap'[p] = snap[p]
        /\ recs'[Len(recs) + 1] = Entry(open_chunk, rec)
        /\ snap'[Len(recs) + 1] = View(st, lg)
    BY <1>2, <1>4, <1>5
  <2> QED
    BY <1>1, <1>2, <1>5, <2>1 DEF Added, st, lg
<1>6. CASE full
  <2>1. PICK a, b, v, R, H :
          /\ a = Entry(open_chunk, rec) /\ b = Entry(pos, CheckpointRecord(st))
          /\ v = View(st, lg)
          /\ recs \in Seq(R) /\ Len(recs) \in Nat /\ Len(snap) = Len(recs) /\ snap \in Seq(H)
    BY <1>4
  <2>2. recs' = Append(Append(recs, a), b) /\ snap' = Append(Append(snap, v), v)
    BY <1>3, <1>6, <2>1
  <2>3. /\ Append(recs, a) \in Seq(R \cup {a}) /\ Append(snap, v) \in Seq(H \cup {v})
        /\ Len(Append(recs, a)) = Len(recs) + 1 /\ Len(Append(snap, v)) = Len(recs) + 1
        /\ \A p \in 1 .. Len(recs) : Append(recs, a)[p] = recs[p] /\ Append(snap, v)[p] = snap[p]
        /\ Append(recs, a)[Len(recs) + 1] = a /\ Append(snap, v)[Len(recs) + 1] = v
    BY <2>1
  <2>4. /\ Len(recs') = Len(recs) + 2 /\ Len(snap') = Len(recs) + 2
        /\ \A p \in 1 .. Len(recs) + 1 : /\ recs'[p] = Append(recs, a)[p]
                                         /\ snap'[p] = Append(snap, v)[p]
        /\ recs'[Len(recs) + 2] = b /\ snap'[Len(recs) + 2] = v
    <3> HIDE DEF pos
    <3>1. PICK x, y : x = Append(recs, a) /\ y = Append(snap, v)
      OBVIOUS
    <3>2. /\ x \in Seq(R \cup {a}) /\ y \in Seq(H \cup {v})
          /\ Len(x) = Len(recs) + 1 /\ Len(y) = Len(recs) + 1
      BY <2>3, <3>1
    <3>3. recs' = Append(x, b) /\ snap' = Append(y, v)
      BY <2>2, <3>1
    <3> QED
      BY <2>1, <3>1, <3>2, <3>3
  <2>5. /\ \A p \in 1 .. Len(recs) : p \in 1 .. Len(recs) + 1
        /\ Len(recs) + 1 \in 1 .. Len(recs) + 1
    BY <2>1
  <2>6. /\ \A p \in 1 .. Len(recs) : recs'[p] = recs[p] /\ snap'[p] = snap[p]
        /\ recs'[Len(recs) + 1] = a /\ snap'[Len(recs) + 1] = v
    BY <2>3, <2>4, <2>5
  <2> QED
    BY <1>1, <1>3, <1>6, <2>1, <2>4, <2>6 DEF Added, st, lg
<1> QED
  BY <1>5, <1>6

\* One new record, or two where the first fills the chunk.
LEMMA AddedShape ==
  ASSUME RecoveryInv, status = "up", NEW rec, Added(rec)
  PROVE  LET n == Len(recs) IN
         /\ \/ Len(recs') = n + 1 /\ open_chunk' = open_chunk
            \/ Len(recs') = n + 2 /\ open_chunk' = n + 1
         /\ Len(snap') = Len(recs') /\ open_chunk <= open_chunk'
         /\ Len(recs') = n + 2 =>
              /\ recs'[n + 2] = Entry(n + 1, CheckpointRecord(log_state'))
              /\ snap'[n + 2] = View(log_state', log')
         /\ \A p \in 1 .. Len(recs') :
              p \in 1 .. n \/ p = n + 1 \/ (p = n + 2 /\ Len(recs') = n + 2)
<1>1. PICK n : n = Len(recs)
  OBVIOUS
<1>2. n \in Nat /\ n + 1 # n + 2 /\ open_chunk \in Nat /\ open_chunk < n
  BY <1>1, UpFacts
<1>3. \/ Len(recs') = n + 1 /\ Len(snap') = n + 1 /\ open_chunk' = open_chunk
      \/ Len(recs') = n + 2 /\ Len(snap') = n + 2 /\ open_chunk' = n + 1
  BY <1>1, Zenon DEF Added
<1>4. Len(recs') = n + 2 => /\ recs'[n + 2] = Entry(n + 1, CheckpointRecord(log_state'))
                            /\ snap'[n + 2] = View(log_state', log')
  BY <1>1, <1>2, Zenon DEF Added
<1> QED
  BY <1>1, <1>2, <1>3, <1>4

---------------------------------------------------------------------------
(* CacheInv: each step keeps it.                                           *)

\* A queue that keeps the syncs another has.
LEMMA SyncsKept ==
  ASSUME NEW r, NEW q, NEW g, NEW n, SyncsPrecede(r, q, n),
         \A k \in 1 .. Len(q) : q[k].type = "Write" /\ q[k].sync =>
           \E j \in 1 .. Len(g) : g[j] = q[k]
  PROVE  SyncsPrecede(r, g, n)
<1>1. SUFFICES ASSUME NEW p \in 1 .. Len(r), NEW k \in 1 .. Len(q), q[k].type = "Write",
                      q[k].sync, q[k].upto = r[p].chunk
               PROVE  \E j \in 1 .. Len(g) :
                        g[j].type = "Write" /\ g[j].sync /\ g[j].upto = r[p].chunk
  BY Zenon DEF SyncsPrecede
<1>2. PICK j \in 1 .. Len(g) : g[j] = q[k]
  BY <1>1
<1> QED
  BY <1>1, <1>2

\* A boundary stays one when the chunks, the synced records and the history grow.
LEMMA BoundaryStays ==
  ASSUME NEW id, NEW o \in Nat, NEW n \in Nat, NEW h, BoundaryAt(id, o, n, h),
         NEW oo \in Nat, NEW nn \in Nat, NEW hh, o <= oo \/ n <= oo, n <= nn,
         \A b \in 1 .. n : hh[b] = h[b]
  PROVE  BoundaryAt(id, oo, nn, hh)
<1>1. PICK b \in 0 .. o : b <= n /\ id = At(h, b).log_state.last
  BY DEF BoundaryAt
<1>2. b \in 0 .. oo /\ b <= nn
  BY <1>1
<1>3. At(hh, b) = At(h, b)
  BY <1>1 DEF At
<1> QED
  BY <1>1, <1>2, <1>3 DEF BoundaryAt

\* A record that is written.
LEMMA AddedCache ==
  ASSUME RecoveryInv, RecoveryInv', CacheInv, status = "up", NEW rec \in RaftLogRecord,
         Added(rec)
  PROVE  CacheInv'
<1> DEFINE n == Len(recs)
<1>1. /\ n \in Nat /\ n > 0 /\ open_chunk \in Nat /\ open_chunk = recs[n].chunk
      /\ open_chunk < n /\ log_state \in RaftLogState
  BY UpFacts
<1>2. /\ IsCache(cache) /\ IsCache(cache') /\ queue \in Seq(Requests) /\ synced \in Nat
      /\ synced <= n
  BY DiskFacts DEF RecoveryInv, TypeInv, TypeOK
<1>3. /\ cache' = apply_cache(cache, rec) /\ status' = "up" /\ synced' = synced
      /\ \A p \in 1 .. n : recs'[p] = recs[p] /\ snap'[p] = snap[p]
      /\ recs'[n + 1] = Entry(open_chunk, rec)
  BY DEF Added
<1>4. \/ Len(recs') = n + 1 /\ open_chunk' = open_chunk /\ queue' = queue
      \/ /\ Len(recs') = n + 2 /\ open_chunk' = n + 1
         /\ recs'[n + 2] = Entry(n + 1, CheckpointRecord(log_state'))
         /\ queue' = Append(queue, WriteRequest(open_chunk, n + 1, TRUE, FALSE))
  BY DEF Added
<1>5. recs'[n + 1].rec = rec /\ recs'[n + 1].chunk = open_chunk
  BY <1>3 DEF Entry
<1>6. /\ \/ Len(recs') = n + 1 /\ open_chunk' = open_chunk
         \/ Len(recs') = n + 2 /\ open_chunk' = n + 1
      /\ Len(recs') = n + 2 => recs'[n + 2] = Entry(n + 1, CheckpointRecord(log_state'))
      /\ \A p \in 1 .. Len(recs') :
           p \in 1 .. n \/ p = n + 1 \/ (p = n + 2 /\ Len(recs') = n + 2)
  BY AddedShape
<1>7. LatestIn(cache', recs', n + 1)
  <2>1. LatestIn(cache, recs, n)
    BY DEF CacheInv, CachedLatest, Applied
  <2> HIDE DEF n
  <2> QED
    BY <1>1, <1>2, <1>3, <1>5, <2>1, LatestApplied
<1>8. LatestIn(cache', recs', Len(recs'))
  <2>1. CASE Len(recs') = n + 1
    BY <1>7, <2>1
  <2>2. CASE Len(recs') = n + 2 /\ recs'[n + 2] = Entry(n + 1, CheckpointRecord(log_state'))
    <3>1. PICK m, c : m = n + 1 /\ c = CheckpointRecord(log_state')
      OBVIOUS
    <3>2. log_state' \in RaftLogState
      BY <1>1, ApplyStateType DEF Added
    <3>3. c \in RaftLogRecord /\ c.type = "Checkpoint"
      BY <3>1, <3>2 DEF CheckpointRecord, RaftLogRecord
    <3>4. m \in Nat /\ m + 1 = n + 2 /\ recs'[m + 1].rec = c
      BY <1>1, <2>2, <3>1 DEF Entry
    <3>5. apply_cache(cache', c) = cache'
      BY <3>3, Zenon DEF apply_cache
    <3>6. LatestIn(cache', recs', m)
      BY <1>7, <3>1
    <3> QED
      BY <1>2, <2>2, <3>3, <3>4, <3>5, <3>6, LatestApplied
  <2> QED
    BY <1>4, <2>1, <2>2
<1>9. SyncsPrecede(recs', queue', synced)
  <2>1. SyncsPrecede(recs, queue', synced)
    <3>1. \A k \in 1 .. Len(queue) : \E j \in 1 .. Len(queue') : queue'[j] = queue[k]
      <4>1. ASSUME NEW w, queue' = Append(queue, w)
            PROVE  \A k \in 1 .. Len(queue) : k \in 1 .. Len(queue') /\ queue'[k] = queue[k]
        BY <1>2, <4>1
      <4> QED
        BY <1>4, <4>1
    <3>2. SyncsPrecede(recs, queue, synced)
      BY DEF CacheInv
    <3> QED
      BY <3>1, <3>2, SyncsKept
  <2>2. SUFFICES ASSUME NEW p \in 1 .. Len(recs')
                 PROVE  \/ recs'[p].chunk <= synced
                        \/ \E k \in 1 .. Len(queue') :
                             queue'[k].type = "Write" /\ queue'[k].sync
                               /\ queue'[k].upto = recs'[p].chunk
    BY DEF SyncsPrecede
  <2>3. ASSUME NEW q \in 1 .. n, recs'[p].chunk = recs[q].chunk
        PROVE  \/ recs'[p].chunk <= synced
               \/ \E k \in 1 .. Len(queue') :
                    queue'[k].type = "Write" /\ queue'[k].sync
                      /\ queue'[k].upto = recs'[p].chunk
    BY <2>1, <2>3 DEF SyncsPrecede
  <2>4. CASE p \in 1 .. n
    BY <1>3, <2>3, <2>4
  <2>5. CASE p = n + 1
    BY <1>1, <1>5, <2>3, <2>5
  <2>6. CASE p = n + 2 /\ Len(recs') = n + 2
    <3>1. recs'[p].chunk = n + 1
      BY <1>6, <2>6 DEF Entry
    <3>2. PICK w : w = WriteRequest(open_chunk, n + 1, TRUE, FALSE)
      OBVIOUS
    <3>3. queue' = Append(queue, w) /\ w.type = "Write" /\ w.sync /\ w.upto = n + 1
      BY <1>1, <1>4, <2>6, <3>2 DEF WriteRequest
    <3>4. Len(queue) + 1 \in 1 .. Len(queue') /\ queue'[Len(queue) + 1] = w
      BY <1>2, <3>3
    <3> QED
      BY <3>1, <3>3, <3>4
  <2> QED
    BY <1>6, <2>4, <2>5, <2>6
<1>10. BoundaryAt(cache'.last_evictable, open_chunk', synced, snap')
  <2>1. cache'.last_evictable = cache.last_evictable
    BY <1>2, <1>3, ApplyCacheKeys
  <2>2. open_chunk' \in Nat /\ open_chunk <= open_chunk'
    BY <1>1, <1>6
  <2>3. \A b \in 1 .. synced : snap'[b] = snap[b]
    BY <1>1, <1>2, <1>3
  <2>4. BoundaryAt(cache.last_evictable, open_chunk, synced, snap) /\ synced <= synced
    BY <1>2 DEF CacheInv
  <2> QED
    BY <1>1, <1>2, <2>1, <2>2, <2>3, <2>4, BoundaryStays
<1> QED
  BY <1>3, <1>8, <1>9, <1>10 DEF CacheInv, CachedLatest, Applied

\* Steps that leave the records alone, may drop payloads, and keep the syncs.
LEMMA QuietCache ==
  ASSUME RecoveryInv, CacheInv, status # "down",
         UNCHANGED <<status, recs, snap, open_chunk, rp, synced>>,
         cache'.last_evictable = cache.last_evictable,
         \A k \in Keys(cache') : k \in Keys(cache) /\ cache'.cache[k] = cache.cache[k],
         \A k \in 1 .. Len(queue) : queue[k].type = "Write" /\ queue[k].sync =>
           \E j \in 1 .. Len(queue') : queue'[j] = queue[k]
  PROVE  CacheInv'
<1>1. LatestIn(cache', recs, Applied)
  <2>1. LatestIn(cache, recs, Applied)
    BY DEF CacheInv, CachedLatest
  <2> QED
    BY <2>1, LatestWithout
<1>2. SyncsPrecede(recs, queue', synced)
  <2>1. SyncsPrecede(recs, queue, synced)
    BY DEF CacheInv
  <2> QED
    BY <2>1, SyncsKept
<1>3. Applied' = Applied
  BY DEF Applied
<1> QED
  BY <1>1, <1>2, <1>3 DEF CacheInv, CachedLatest

\* The operations of a caller.
LEMMA CallerCache ==
  ASSUME RecoveryInv, RecoveryInv', CacheInv, Caller, Obliged
  PROVE  CacheInv'
<1>1. ASSUME NEW rec \in RaftLogRecord, Writes(rec) PROVE CacheInv'
  <2>1. status = "up" /\ \E buffer \in BOOLEAN : append_and_apply(rec, buffer)
    BY <1>1 DEF Writes
  <2>2. Added(rec)
    BY <2>1, RecordAdded
  <2> QED
    BY <2>1, <2>2, AddedCache
<1>2. queue \in Seq(Requests)
  BY DiskFacts
<1>3. ASSUME NEW sync \in BOOLEAN, flush(sync) PROVE CacheInv'
  <2>1. /\ status = "up" /\ cache' = cache
        /\ UNCHANGED <<status, recs, snap, open_chunk, rp, synced>>
    BY <1>3 DEF flush, Ready, mem
  <2>2. \E w, x : queue' = Append(queue, w) \/ queue' = Append(Append(queue, w), x)
    BY <1>3 DEF flush
  <2>3. ASSUME NEW w, queue' = Append(queue, w)
        PROVE  \A k \in 1 .. Len(queue) : k \in 1 .. Len(queue') /\ queue'[k] = queue[k]
    BY <1>2, <2>3
  <2>4. ASSUME NEW w, NEW x, queue' = Append(Append(queue, w), x)
        PROVE  \A k \in 1 .. Len(queue) : k \in 1 .. Len(queue') /\ queue'[k] = queue[k]
    BY <1>2, <2>4
  <2>5. \A k \in 1 .. Len(queue) : k \in 1 .. Len(queue') /\ queue'[k] = queue[k]
    BY <2>2, <2>3, <2>4
  <2> QED
    BY <2>1, <2>5, QuietCache
<1>4. CASE append_reject
  BY <1>4, QuietCache DEF append_reject, wal, worker
<1>5. CASE drain_cache_evictable
  <2>1. /\ status = "up" /\ cache' = drain_evictable(cache)
        /\ UNCHANGED <<status, recs, snap, open_chunk, rp, synced, queue>>
    BY <1>5 DEF drain_cache_evictable, Ready, wal, worker
  <2>2. /\ cache'.last_evictable = cache.last_evictable
        /\ \A k \in Keys(cache') : k \in Keys(cache) /\ cache'.cache[k] = cache.cache[k]
    BY <2>1, WithoutKeys DEF drain_evictable
  <2> QED
    BY <2>1, <2>2, QuietCache
<1> QED
  BY <1>1, <1>3, <1>4, <1>5, CallerSteps

\* Where a chunk begins, its first record restates the state reached.
LEMMA LeadingStateReached ==
  ASSUME NEW r, NEW h, Wal(r, h), History(r, h), NEW p \in 1 .. Len(r)
  PROVE  LET c == r[p].chunk IN
         /\ c \in Nat /\ c < p /\ r[c + 1].rec.state = At(h, c).log_state
         /\ c <= r[Len(r)].chunk
<1>1. PICK c : c = r[p].chunk
  OBVIOUS
<1>2. Len(r) \in Nat /\ c \in Nat
  BY <1>1, WalTypes
<1>3. c < p /\ r[c + 1].chunk = c
  BY <1>1 DEF Wal, Led
<1>4. c + 1 \in 1 .. Len(r) /\ (c + 1) - 1 = c /\ Len(r) \in 1 .. Len(r) /\ p <= Len(r)
  BY <1>2, <1>3
<1>5. r[c + 1].rec = CheckpointRecord(At(h, c).log_state)
  BY <1>3, <1>4 DEF History, LeadersRestate
<1>6. c <= r[Len(r)].chunk
  BY <1>1, <1>4 DEF History, ChunksAscend
<1> QED
  BY <1>1, <1>2, <1>3, <1>5, <1>6 DEF CheckpointRecord

\* The FlushWorker: a sync moves the boundary to the end of the chunk before.
LEMMA FlushWorkerCache ==
  ASSUME RecoveryInv, CacheInv, FlushWorker
  PROVE  CacheInv'
<1>1. /\ status = "up" /\ queue # <<>>
      /\ UNCHANGED <<status, recs, snap, open_chunk, rp>>
  BY DEF FlushWorker, WorkerWrite, WorkerSync, WorkerRemove, Serving, wal
<1>2. /\ queue \in Seq(Requests) /\ Covers(queue, recs) /\ Wal(recs, snap)
      /\ History(recs, snap) /\ Len(recs) \in Nat /\ synced \in Nat /\ written \in Nat
      /\ synced <= written /\ open_chunk \in Nat
  BY DiskFacts
<1>3. /\ Len(queue) \in Nat /\ Len(queue) > 0 /\ Head(queue) = queue[1]
      /\ Len(Tail(queue)) = Len(queue) - 1
      /\ \A k \in 1 .. Len(queue) - 1 : Tail(queue)[k] = queue[k + 1]
  BY <1>1, <1>2
<1>4. \A k \in 1 .. Len(queue) : k # 1 =>
        k - 1 \in 1 .. Len(Tail(queue)) /\ Tail(queue)[k - 1] = queue[k]
  <2>1. SUFFICES ASSUME NEW k \in 1 .. Len(queue), k # 1
                 PROVE  k - 1 \in 1 .. Len(Tail(queue)) /\ Tail(queue)[k - 1] = queue[k]
    OBVIOUS
  <2>2. k - 1 \in 1 .. Len(queue) - 1 /\ (k - 1) + 1 = k
    BY <1>3, <2>1
  <2> QED
    BY <1>3, <2>2
<1>5. CASE WorkerWrite
  <2>1. cache' = cache /\ synced' = synced /\ queue' = AfterWrite
    BY <1>5 DEF WorkerWrite, mem
  <2>2. \A k \in 1 .. Len(queue) : queue[k].type = "Write" /\ queue[k].sync =>
          \E j \in 1 .. Len(queue') : queue'[j] = queue[k]
    <3>1. CASE Head(queue).sync
      BY <2>1, <3>1 DEF AfterWrite
    <3>2. CASE ~Head(queue).sync
      <4>1. queue' = Tail(queue)
        BY <2>1, <3>2 DEF AfterWrite
      <4> QED
        BY <1>3, <1>4, <3>2, <4>1
    <3> QED
      BY <3>1, <3>2
  <2> QED
    BY <1>1, <2>1, <2>2, QuietCache
<1>6. CASE WorkerRemove
  <2>1. cache' = cache /\ synced' = synced
    BY <1>6 DEF WorkerRemove, mem
  <2>2. PICK c, x : \/ queue' = Tail(queue)
                    \/ queue' = <<RemoveRequest(x)>> \o Tail(queue)
    BY <1>6 DEF WorkerRemove
  <2>3. Head(queue).type = "RemoveChunks"
    BY <1>6 DEF WorkerRemove, Serving
  <2>4. \A k \in 1 .. Len(queue) : queue[k].type = "Write" /\ queue[k].sync =>
          \E j \in 1 .. Len(queue') : queue'[j] = queue[k]
    <3>1. \A k \in 1 .. Len(queue) : queue[k].type = "Write" => k # 1
      BY <1>3, <2>3
    <3>2. CASE queue' = Tail(queue)
      BY <1>4, <3>1, <3>2
    <3>3. CASE queue' = <<RemoveRequest(x)>> \o Tail(queue)
      <4>1. \A j \in 1 .. Len(Tail(queue)) :
              j + 1 \in 1 .. Len(queue') /\ queue'[j + 1] = Tail(queue)[j]
        <5>1. PICK y, t : y = RemoveRequest(x) /\ t = Tail(queue)
          OBVIOUS
        <5>2. t \in Seq(Requests) /\ queue' = <<y>> \o t
          BY <1>1, <1>2, <3>3, <5>1
        <5>3. /\ Len(queue') = Len(t) + 1 /\ Len(t) \in Nat
              /\ \A k \in 2 .. Len(t) + 1 : queue'[k] = t[k - 1]
          BY <5>2
        <5>4. \A j \in 1 .. Len(t) : j + 1 \in 2 .. Len(t) + 1 /\ (j + 1) - 1 = j
                                     /\ j + 1 \in 1 .. Len(queue')
          BY <5>3
        <5> QED
          BY <5>1, <5>3, <5>4
      <4> QED
        BY <1>4, <3>1, <4>1
    <3> QED
      BY <2>2, <3>2, <3>3
  <2> QED
    BY <1>1, <2>1, <2>4, QuietCache
<1>7. CASE WorkerSync
  <2>1. /\ Head(queue).type = "Write" /\ written = Head(queue).upto /\ synced' = written
        /\ cache' = on_chunk_persisted(Head(queue).chunk) /\ queue' = Tail(queue)
    BY <1>7 DEF WorkerSync, Serving
  <2>2. /\ Head(queue).upto \in 1 .. Len(recs)
        /\ Head(queue).chunk = recs[Head(queue).upto].chunk
    BY <1>1, <1>2, <2>1, CoversTail
  <2>3. cache'.cache = cache.cache
    BY <2>1 DEF on_chunk_persisted, set_last_evictable, Cache
  <2>4. LatestIn(cache', recs, Applied) /\ Applied' = Applied
    <3>1. LatestIn(cache, recs, Applied) /\ Applied' = Applied
      BY <1>1 DEF CacheInv, CachedLatest, Applied
    <3> QED
      BY <2>3, <3>1, LatestWithout DEF Keys
  <2>5. SyncsPrecede(recs, queue', synced')
    <3>1. SUFFICES ASSUME NEW p \in 1 .. Len(recs)
                   PROVE  \/ recs[p].chunk <= synced'
                          \/ \E k \in 1 .. Len(queue') :
                               queue'[k].type = "Write" /\ queue'[k].sync
                                 /\ queue'[k].upto = recs[p].chunk
      BY DEF SyncsPrecede
    <3>2. recs[p].chunk \in Nat
      BY <1>2, WalTypes
    <3>3. CASE recs[p].chunk <= synced
      BY <1>2, <2>1, <3>2, <3>3
    <3>4. ASSUME NEW k \in 1 .. Len(queue), queue[k].type = "Write", queue[k].sync,
                 queue[k].upto = recs[p].chunk
          PROVE  \/ recs[p].chunk <= synced'
                 \/ \E j \in 1 .. Len(queue') :
                      queue'[j].type = "Write" /\ queue'[j].sync
                        /\ queue'[j].upto = recs[p].chunk
      <4>1. CASE k = 1
        BY <1>2, <1>3, <2>1, <3>2, <3>4, <4>1
      <4>2. CASE k # 1
        BY <1>4, <2>1, <3>4, <4>2
      <4> QED
        BY <4>1, <4>2
    <3> QED
      BY <3>3, <3>4 DEF CacheInv, SyncsPrecede
  <2>6. BoundaryAt(cache'.last_evictable, open_chunk, synced', snap)
    <3>1. CASE cache' = cache
      <4>1. BoundaryAt(cache.last_evictable, open_chunk, synced, snap)
        BY DEF CacheInv
      <4>2. \A b \in 1 .. synced : snap[b] = snap[b]
        OBVIOUS
      <4> QED
        BY <1>2, <2>1, <3>1, <4>1, <4>2, BoundaryStays
    <3>2. CASE cache' = set_last_evictable(cache, LeadingState(Head(queue).chunk).last)
      <4>1. PICK c : c = Head(queue).chunk
        OBVIOUS
      <4>2. /\ c \in Nat /\ c < Head(queue).upto /\ recs[c + 1].rec.state = At(snap, c).log_state
            /\ c <= recs[Len(recs)].chunk
        BY <1>2, <2>2, <4>1, LeadingStateReached
      <4>3. open_chunk = recs[Len(recs)].chunk
        BY <1>1, UpFacts
      <4>4. c \in 0 .. open_chunk /\ c <= synced'
        BY <1>2, <2>1, <4>2, <4>3
      <4>5. cache'.last_evictable = At(snap, c).log_state.last
        BY <3>2, <4>1, <4>2 DEF set_last_evictable, Cache, LeadingState
      <4> QED
        BY <4>4, <4>5 DEF BoundaryAt
    <3> QED
      BY <2>1, <3>1, <3>2 DEF on_chunk_persisted
  <2> QED
    BY <1>1, <2>4, <2>5, <2>6 DEF CacheInv, CachedLatest
<1> QED
  BY <1>5, <1>6, <1>7 DEF FlushWorker

\* A crash: the sync of a chunk has passed before any record of the next one
\* can be in the files.
LEMMA CrashCache ==
  ASSUME RecoveryInv, CacheInv, Fail
  PROVE  CacheInv'
<1>1. PICK r \in synced .. Reach, incomplete \in BOOLEAN : Crash(r, incomplete)
  BY DEF Fail
<1>2. /\ status' = "down" /\ recs' = SubSeq(recs, 1, r) /\ snap' = SubSeq(snap, 1, r)
      /\ cache' = new_cache /\ open_chunk' = 0 /\ queue' = <<>> /\ rp' = 0
      /\ synced' = synced
  BY <1>1 DEF Crash
<1>3. /\ Wal(recs, snap) /\ History(recs, snap) /\ Len(recs) \in Nat
      /\ queue \in Seq(Requests) /\ Covers(queue, recs) /\ Ordered(queue, written, handed)
      /\ synced \in Nat /\ written \in Nat /\ handed \in Nat
      /\ written <= handed /\ handed <= Len(recs)
  BY DiskFacts
<1>4. /\ Reach \in Nat /\ Reach <= Len(recs)
      /\ \A k \in 1 .. Len(queue) : queue[k].type = "Write" =>
           queue[k].upto \in Nat /\ Reach <= queue[k].upto
  <2>1. ASSUME NEW k \in 1 .. Len(queue), queue[k].type = "Write"
        PROVE  /\ queue[k].upto \in 1 .. Len(recs) /\ written <= queue[k].upto
               /\ 1 \in 1 .. k /\ (queue[1].type = "Write" => queue[1].upto <= queue[k].upto)
    <3>1. queue[k].upto \in 1 .. Len(recs) /\ written <= queue[k].upto
      BY <1>3, <2>1 DEF Covers, Ordered
    <3>2. 1 \in 1 .. k
      BY <1>3
    <3> QED
      BY <1>3, <2>1, <3>1, <3>2 DEF Ordered
  <2>2. CASE Serving("Write")
    <3>1. queue # <<>> /\ Head(queue).type = "Write" /\ Reach = Head(queue).upto
      BY <2>2 DEF Serving, Reach
    <3>2. Head(queue) = queue[1] /\ 1 \in 1 .. Len(queue)
      BY <1>3, <3>1
    <3> QED
      BY <1>3, <2>1, <3>1, <3>2
  <2>3. CASE ~Serving("Write")
    BY <1>3, <2>1, <2>3 DEF Reach
  <2> QED
    BY <2>2, <2>3
<1>5. r \in 0 .. Len(recs) /\ r \in Nat /\ synced <= r
  BY <1>3, <1>4
<1>6. /\ Len(recs') = r /\ \A p \in 1 .. r : p \in 1 .. Len(recs) /\ recs'[p] = recs[p]
  BY <1>2, <1>3, <1>5, PrefixWal DEF CutAt
<1>7. Keys(cache') = {} /\ cache'.last_evictable = None
  BY <1>2 DEF new_cache, Cache, Keys
<1>8. SyncsPrecede(recs', queue', synced')
  <2>1. SUFFICES ASSUME NEW p \in 1 .. r PROVE recs[p].chunk <= synced
    BY <1>2, <1>6 DEF SyncsPrecede
  <2>2. recs[p].chunk \in Nat /\ recs[p].chunk < p
    BY <1>3, <1>6, WalTypes DEF Wal, Led
  <2>3. ASSUME NEW k \in 1 .. Len(queue), queue[k].type = "Write",
               queue[k].upto = recs[p].chunk
        PROVE  FALSE
    <3>1. queue[k].upto \in Nat /\ Reach <= queue[k].upto
      BY <1>4, <2>3
    <3> QED
      BY <1>4, <1>5, <2>2, <2>3, <3>1
  <2> QED
    BY <1>6, <2>3 DEF CacheInv, SyncsPrecede
<1>9. BoundaryAt(cache'.last_evictable, open_chunk', synced', snap')
  <2>1. At(snap', 0).log_state.last = None
    BY DEF At, View, default_state
  <2>2. 0 \in 0 .. 0 /\ 0 <= synced
    BY <1>3
  <2> QED
    BY <1>2, <1>7, <2>1, <2>2 DEF BoundaryAt
<1> QED
  BY <1>2, <1>7, <1>8, <1>9 DEF CacheInv, CachedLatest, LatestIn

\* A replay that meets another chunk is at its start.
LEMMA ChunkEntered ==
  ASSUME NEW r, NEW h, Wal(r, h), History(r, h), NEW p \in 1 .. Len(r), p + 1 <= Len(r),
         r[p + 1].chunk # r[p].chunk
  PROVE  r[p + 1].chunk = p
<1>1. Len(r) \in Nat /\ p \in Nat /\ p + 1 \in 1 .. Len(r)
  BY WalTypes
<1>2. PICK c : c = r[p + 1].chunk
  OBVIOUS
<1>3. c \in Nat /\ r[p].chunk \in Nat /\ c < p + 1 /\ r[c + 1].chunk = c
  BY <1>1, <1>2, WalTypes DEF Wal, Led
<1>4. p <= p + 1
  BY <1>1
<1>5. r[p].chunk <= c
  BY <1>1, <1>2, <1>4 DEF History, ChunksAscend
<1>6. ASSUME c < p PROVE FALSE
  <2>1. c + 1 \in 1 .. Len(r) /\ c + 1 <= p
    BY <1>1, <1>3, <1>6
  <2>2. c <= r[p].chunk
    BY <1>3, <2>1 DEF History, ChunksAscend
  <2> QED
    BY <1>2, <1>3, <1>5, <2>2
<1> QED
  BY <1>1, <1>2, <1>3, <1>6

\* RaftLog::open.
LEMMA OpenStartCache ==
  ASSUME RecoveryInv, CacheInv, OpenStart, OpenSucceeds'
  PROVE  CacheInv'
<1>1. /\ status = "down" /\ status' = "replay" /\ open_chunk' = rp'
      /\ UNCHANGED <<cache, recs, snap, queue, synced>>
  BY DEF OpenStart, OpenSucceeds, mem, worker
<1>2. Keys(cache) = {} /\ open_chunk = 0
  BY <1>1 DEF CacheInv, CachedLatest
<1>3. rp' \in Nat /\ Len(recs) \in Nat /\ synced \in Nat
  BY DiskFacts, OldestFile DEF OpenStart
<1>4. BoundaryAt(cache.last_evictable, rp', synced, snap)
  <2>1. BoundaryAt(cache.last_evictable, 0, synced, snap)
    BY <1>2 DEF CacheInv
  <2> QED
    BY <1>3, <2>1, BoundaryStays
<1> QED
  BY <1>1, <1>2, <1>4 DEF CacheInv, CachedLatest, LatestIn

\* One record replayed.
LEMMA ReplayCache ==
  ASSUME RecoveryInv, CacheInv, ReplayRecord
  PROVE  CacheInv'
<1> DEFINE chunk == recs[rp + 1].chunk
           rec == recs[rp + 1].rec
           entered == chunk # open_chunk
<1>1. /\ status = "replay" /\ rp < Len(recs) /\ UNCHANGED <<recs, snap, queue, synced>>
  BY DEF ReplayRecord, worker
<1>2. /\ files # {} /\ rp + 1 \in 1 .. Len(recs) /\ Oldest \in Nat /\ rp >= Oldest
      /\ check(log_state, rec)
      /\ chunk # open_chunk => rp > Oldest
  BY <1>1, ReplayStep
<1>3. /\ cache' = apply_cache(IF entered THEN set_last_evictable(cache, log_state.last)
                              ELSE cache, rec)
      /\ open_chunk' = chunk /\ rp' = rp + 1 /\ status' = status
  BY <1>2 DEF ReplayRecord
<1>4. /\ Wal(recs, snap) /\ History(recs, snap) /\ Len(recs) \in Nat /\ rp \in Nat
      /\ open_chunk \in Nat /\ synced \in Nat /\ synced <= Len(recs)
  BY DiskFacts
<1>5. rec \in RaftLogRecord /\ chunk \in Nat /\ chunk < rp + 1
  BY <1>2, <1>4, WalTypes DEF Wal, Led
<1>6. IsCache(cache) /\ log_state \in RaftLogState /\ queue = <<>>
  BY <1>1 DEF RecoveryInv, TypeInv, TypeOK, Structure, WrittenInRange
<1>7. PICK c : c = IF entered THEN set_last_evictable(cache, log_state.last) ELSE cache
  OBVIOUS
<1>8. IsCache(c) /\ c.cache = cache.cache
  <2>1. log_state.last \in OptLogId
    BY <1>6 DEF RaftLogState
  <2>2. IsCache(set_last_evictable(cache, log_state.last))
    BY <1>6, <2>1, SetEvictableType
  <2> HIDE DEF entered
  <2> QED
    BY <1>6, <1>7, <2>2 DEF set_last_evictable, Cache
<1>9. cache' = apply_cache(c, rec)
  BY <1>3, <1>7
<1>10. LatestIn(cache', recs, rp + 1)
  <2>1. LatestIn(cache, recs, rp)
    BY <1>1 DEF CacheInv, CachedLatest, Applied
  <2>2. LatestIn(c, recs, rp)
    BY <1>8, <2>1, LatestWithout DEF Keys
  <2> QED
    BY <1>4, <1>5, <1>8, <1>9, <2>2, LatestApplied
<1>11. BoundaryAt(cache'.last_evictable, chunk, synced, snap)
  <2>1. cache'.last_evictable = c.last_evictable
    BY <1>5, <1>8, <1>9, ApplyCacheKeys
  <2>2. CASE ~entered
    <3>1. c = cache /\ chunk = open_chunk
      BY <1>7, <2>2
    <3> HIDE DEF chunk
    <3> QED
      BY <2>1, <3>1 DEF CacheInv
  <2>3. CASE entered
    <3>1. rp > Oldest /\ rp \in 1 .. Len(recs) /\ rp + 1 <= Len(recs)
      BY <1>1, <1>2, <1>4, <2>3
    <3>2. log_state = snap[rp].log_state /\ open_chunk = recs[rp].chunk
      BY <1>1, <1>2, <3>1 DEF RecoveryInv, StoreInv, ReplayFollows
    <3>3. chunk = rp
      <4>1. recs[rp + 1].chunk # recs[rp].chunk
        BY <2>3, <3>2
      <4> QED
        BY <1>4, <3>1, <4>1, ChunkEntered
    <3>4. chunk <= synced
      <4>1. \A k \in 1 .. Len(queue) : FALSE
        BY <1>6
      <4> QED
        BY <1>2, <4>1 DEF CacheInv, SyncsPrecede
    <3>5. At(snap, rp) = snap[rp]
      BY <3>1 DEF At
    <3>6. c.last_evictable = log_state.last
      BY <1>7, <2>3 DEF set_last_evictable, Cache
    <3>7. rp \in 0 .. chunk /\ rp <= synced
      BY <1>4, <3>3, <3>4
    <3>8. cache'.last_evictable = At(snap, rp).log_state.last
      BY <2>1, <3>2, <3>5, <3>6
    <3> HIDE DEF chunk
    <3> QED
      BY <3>7, <3>8 DEF BoundaryAt
  <2> QED
    BY <2>2, <2>3
<1> HIDE DEF chunk
<1>12. SyncsPrecede(recs', queue', synced')
  BY <1>1 DEF CacheInv
<1> QED
  BY <1>1, <1>3, <1>10, <1>11, <1>12 DEF CacheInv, CachedLatest, Applied

\* The end of a replay.
LEMMA OpenFinishCache ==
  ASSUME RecoveryInv, CacheInv, OpenFinish
  PROVE  CacheInv'
<1> DEFINE n == Len(recs)
           create == files = {} \/ torn
<1>1. /\ status = "replay" /\ rp = n /\ status' = "up" /\ cache' = cache /\ queue' = queue
      /\ open_chunk' = (IF create THEN n ELSE open_chunk)
      /\ recs' = (IF create THEN Append(recs, Entry(n, CheckpointRecord(log_state)))
                  ELSE recs)
      /\ snap' = (IF create THEN Append(snap, View(log_state, log)) ELSE snap)
      /\ synced' = (IF torn THEN n ELSE synced)
  BY DEF OpenFinish
<1>2. /\ recs \in Seq(WalEntry) /\ n \in Nat /\ open_chunk \in Nat /\ synced \in Nat
      /\ synced <= n /\ Len(snap) = n
  BY DiskFacts DEF Wal
<1>3. PICK H : snap \in Seq(H)
  BY DiskFacts DEF Wal, IsHistory
<1>4. IsCache(cache) /\ log_state \in RaftLogState /\ queue = <<>>
  BY <1>1 DEF RecoveryInv, TypeInv, TypeOK, Structure, WrittenInRange
<1>5. files = {} => n = 0
  BY NoFilesNoRecords
<1>6. LatestIn(cache, recs, n)
  BY <1>1 DEF CacheInv, CachedLatest, Applied
<1>7. /\ \A p \in 1 .. n : recs'[p] = recs[p] /\ snap'[p] = snap[p]
      /\ create => /\ Len(recs') = n + 1
                   /\ recs'[n + 1] = Entry(n, CheckpointRecord(log_state))
      /\ ~create => recs' = recs
  <2>1. PICK e, v : e = Entry(n, CheckpointRecord(log_state)) /\ v = View(log_state, log)
    OBVIOUS
  <2>2. CASE create
    <3>1. recs' = Append(recs, e) /\ snap' = Append(snap, v)
      BY <1>1, <2>1, <2>2
    <3> QED
      BY <1>2, <1>3, <2>1, <2>2, <3>1
  <2>3. CASE ~create
    BY <1>1, <2>3
  <2> QED
    BY <2>2, <2>3
<1>8. LatestIn(cache, recs', Len(recs'))
  <2>1. CASE ~create
    BY <1>6, <1>7, <2>1
  <2>2. CASE create
    <3>1. PICK rec : rec = CheckpointRecord(log_state)
      OBVIOUS
    <3>2. rec \in RaftLogRecord /\ rec.type = "Checkpoint" /\ recs'[n + 1].rec = rec
      BY <1>4, <1>7, <2>2, <3>1 DEF CheckpointRecord, RaftLogRecord, Entry
    <3>3. apply_cache(cache, rec) = cache
      BY <3>2, Zenon DEF apply_cache
    <3>4. LatestIn(apply_cache(cache, recs'[n + 1].rec), recs', n + 1)
      <4> HIDE DEF n, create
      <4> QED
        BY <1>2, <1>4, <1>6, <1>7, <3>2, LatestApplied
    <3> QED
      BY <1>7, <2>2, <3>2, <3>3, <3>4
  <2> QED
    BY <2>1, <2>2
<1>9. synced' \in Nat /\ synced <= synced' /\ (create => n <= synced')
  BY <1>1, <1>2, <1>5
<1>10. SyncsPrecede(recs', queue', synced')
  <2>1. SUFFICES ASSUME NEW p \in 1 .. Len(recs') PROVE recs'[p].chunk <= synced'
    BY DEF SyncsPrecede
  <2>2. ASSUME NEW q \in 1 .. n PROVE recs[q].chunk <= synced'
    <3>1. \A k \in 1 .. Len(queue) : FALSE
      BY <1>4
    <3>2. recs[q].chunk <= synced
      BY <3>1 DEF CacheInv, SyncsPrecede
    <3>3. recs[q].chunk \in Nat
      BY DiskFacts, WalTypes
    <3> QED
      BY <1>2, <1>9, <3>2, <3>3
  <2>3. CASE p \in 1 .. n
    BY <1>7, <2>2, <2>3
  <2>4. CASE p = n + 1 /\ create
    BY <1>7, <1>9, <2>4 DEF Entry
  <2>5. p \in 1 .. n \/ (p = n + 1 /\ create)
    <3> HIDE DEF create
    <3> QED
      BY <1>2, <1>7
  <2> QED
    BY <2>3, <2>4, <2>5
<1>11. BoundaryAt(cache.last_evictable, open_chunk', synced', snap')
  <2>1. BoundaryAt(cache.last_evictable, open_chunk, synced, snap)
    BY DEF CacheInv
  <2>2. open_chunk' \in Nat /\ (open_chunk <= open_chunk' \/ synced <= open_chunk')
    BY <1>1, <1>2
  <2>3. \A b \in 1 .. synced : snap'[b] = snap[b]
    <3>1. \A b \in 1 .. synced : b \in 1 .. n
      BY <1>2
    <3> QED
      BY <1>7, <3>1
  <2> HIDE DEF n
  <2> QED
    BY <1>2, <1>9, <2>1, <2>2, <2>3, BoundaryStays
<1> HIDE DEF n, create
<1> QED
  BY <1>1, <1>8, <1>10, <1>11 DEF CacheInv, CachedLatest, Applied

\* A new store has an empty cache and nothing evictable.
LEMMA InitCache ==
  ASSUME Init
  PROVE  CacheInv
<1>1. /\ Keys(cache) = {} /\ cache.last_evictable = None /\ status = "down"
      /\ open_chunk = 0 /\ synced = 0 /\ Len(recs) = 0
  BY DEF Init, new_cache, Cache, Keys
<1>2. At(snap, 0).log_state.last = None
  BY DEF At, View, default_state
<1>3. \A p \in 1 .. Len(recs) : FALSE
  BY <1>1
<1>4. BoundaryAt(None, 0, 0, snap)
  BY <1>2 DEF BoundaryAt
<1> QED
  BY <1>1, <1>3, <1>4 DEF CacheInv, CachedLatest, LatestIn, SyncsPrecede

\* Every step keeps the invariant of the cache.
LEMMA NextCache ==
  ASSUME RecoveryInv, RecoveryInv', CacheInv, OpenSucceeds', [Next]_vars, Obliged
  PROVE  CacheInv'
<1>1. CASE UNCHANGED vars
  BY <1>1 DEF vars, mem, wal, worker, disk, CacheInv, CachedLatest, Applied
<1> QED
  BY <1>1, CallerCache, FlushWorkerCache, CrashCache, OpenStartCache, ReplayCache,
     OpenFinishCache DEF Next, open

\* The inductive invariant of the payload cache (PayloadCache, on_chunk_persisted)
\* holds.
THEOREM CacheInvHolds == Obliged => (Spec => []CacheInv)
<1> SUFFICES ASSUME Obliged
             PROVE  Spec => []CacheInv
  OBVIOUS
<1>1. Init => CacheInv
  BY InitCache
<1>2. RecoveryInv /\ RecoveryInv' /\ CacheInv /\ OpenSucceeds' /\ [Next]_vars => CacheInv'
  BY NextCache
<1>3. Spec => []RecoveryInv
  BY RecoveryInvHolds
<1>4. Spec => []OpenSucceeds
  BY OpenAlwaysSucceeds
<1> QED
  BY <1>1, <1>2, <1>3, <1>4, PTL DEF Spec

\* What a read meets in the file: the latest append of its index, and the
\* payload that the cache, if it still has it, holds as well.
LEMMA PayloadServed ==
  ASSUME RecoveryInv, CacheInv, status = "up", NEW i \in DOMAIN log
  PROVE  LET s == log[i].segment IN
         /\ s \in 1 .. Len(recs) /\ recs[s].chunk = log[i].chunk_id
         /\ recs[s].rec.type = "Append" /\ recs[s].rec.log_id = log[i].log_id
         /\ \A q \in s + 1 .. Len(recs) :
              recs[q].rec.type = "Append" => log_index(recs[q].rec.log_id) # i
         /\ read_payload(log[i]) = load_record(log[i]).payload
<1>1. PICK n, data, s : n = Len(recs) /\ data = log[i] /\ s = data.segment
  OBVIOUS
<1>2. /\ Wal(recs, snap) /\ History(recs, snap) /\ n \in Nat /\ n \in 1 .. Len(recs)
      /\ i \in DOMAIN snap[n].log /\ data = snap[n].log[i]
  BY <1>1, UpFacts DEF RecoveryInv, StoreInv, MemoryFollows
<1>3. /\ s \in 1 .. n /\ recs[s].chunk = data.chunk_id
      /\ recs[s].rec.type = "Append" /\ recs[s].rec.log_id = data.log_id
      /\ log_index(data.log_id) = i
      /\ \A q \in s + 1 .. n : recs[q].rec.type = "Append" => log_index(recs[q].rec.log_id) # i
  BY <1>1, <1>2, PlacedEntry
<1>4. read_payload(data) = recs[s].rec.payload
  <2>1. CASE data.log_id \notin Keys(cache)
    BY <1>1, <2>1 DEF read_payload, load_record
  <2>2. CASE data.log_id \in Keys(cache)
    <3>1. PICK p \in 1 .. n :
            /\ recs[p].rec = AppendAction(data.log_id, cache.cache[data.log_id])
            /\ \A q \in p + 1 .. n :
                 recs[q].rec.type = "Append" => recs[q].rec.log_id # data.log_id
      BY <1>1, <2>2 DEF CacheInv, CachedLatest, LatestIn, Applied
    <3>2. /\ recs[p].rec.type = "Append" /\ recs[p].rec.log_id = data.log_id
          /\ recs[p].rec.payload = read_payload(data)
      BY <2>2, <3>1 DEF AppendAction, read_payload
    <3>3. p \in Nat /\ s \in Nat
      BY <1>2, <1>3
    <3>4. p <= s
      <4>1. ASSUME ~(p <= s) PROVE p \in s + 1 .. n
        BY <1>2, <3>3, <4>1
      <4> QED
        BY <1>3, <3>2, <4>1
    <3>5. s <= p
      <4>1. ASSUME ~(s <= p) PROVE s \in p + 1 .. n
        BY <1>2, <1>3, <3>3, <4>1
      <4> QED
        BY <1>3, <3>1, <4>1
    <3>6. p = s
      BY <3>3, <3>4, <3>5
    <3> QED
      BY <3>2, <3>6
  <2> QED
    BY <2>1, <2>2
<1> QED
  BY <1>1, <1>3, <1>4 DEF load_record

\* A read returns the payload of the latest append of its index, from the
\* cache or from the file, and always meets an append there (RaftLog::read).
LEMMA ServesAppended ==
  ASSUME RecoveryInv, CacheInv
  PROVE  ReadsServeAppended
<1>1. SUFFICES ASSUME status = "up", NEW i \in DOMAIN log
               PROVE  /\ log[i].segment \in 1 .. Len(recs)
                      /\ recs[log[i].segment].chunk = log[i].chunk_id
                      /\ load_record(log[i]).type = "Append"
                      /\ \E p \in 1 .. Len(recs) :
                           /\ recs[p].rec.type = "Append"
                           /\ recs[p].rec.log_id = log[i].log_id
                           /\ recs[p].rec.payload = read_payload(log[i])
                           /\ \A q \in p + 1 .. Len(recs) :
                                recs[q].rec.type = "Append" => log_index(recs[q].rec.log_id) # i
  BY DEF ReadsServeAppended
<1>2. PICK s : s = log[i].segment
  OBVIOUS
<1>3. /\ s \in 1 .. Len(recs) /\ recs[s].chunk = log[i].chunk_id
      /\ recs[s].rec.type = "Append" /\ recs[s].rec.log_id = log[i].log_id
      /\ \A q \in s + 1 .. Len(recs) :
           recs[q].rec.type = "Append" => log_index(recs[q].rec.log_id) # i
      /\ read_payload(log[i]) = recs[s].rec.payload
      /\ load_record(log[i]) = recs[s].rec
  BY <1>1, <1>2, PayloadServed DEF load_record
<1> QED
  BY <1>2, <1>3

\* RaftLog::read serves what was appended, whatever the cache has evicted and
\* wherever a crash struck.
THEOREM ReadsAlwaysServe == Obliged => (Spec => []ReadsServeAppended)
<1> SUFFICES ASSUME Obliged
             PROVE  Spec => []ReadsServeAppended
  OBVIOUS
<1>1. RecoveryInv /\ CacheInv => ReadsServeAppended
  BY ServesAppended
<1>2. Spec => []RecoveryInv
  BY RecoveryInvHolds
<1>3. Spec => []CacheInv
  BY CacheInvHolds
<1> QED
  BY <1>1, <1>2, <1>3, PTL

---------------------------------------------------------------------------
(* FreshInv: with fresh ids, the order of ids is the order of positions.   *)

\* The entries of a consistent log end at `last`.
LEMMA EntriesUpToLast ==
  ASSUME NEW s, NEW l, IsLog(l), WellFormed(s, l), NEW i \in DOMAIN l
  PROVE  Le(l[i].log_id, s.last)
<1>1. PICK j : j = log_index(s.last)
  OBVIOUS
<1>2. j \in DOMAIN l /\ l[j].log_id = s.last /\ i <= j /\ i \in Nat /\ j \in Nat
  BY <1>1 DEF WellFormed, LogFits, IsLog
<1>3. CASE i = j
  BY <1>2, <1>3 DEF Le
<1>4. CASE i # j
  <2>1. i < j
    BY <1>2, <1>4
  <2> QED
    BY <1>2, <2>1 DEF WellFormed, LogIsRun, Le
<1> QED
  BY <1>3, <1>4

\* What the boundary makes evictable was appended before it was reached.
LEMMA EvictablePlaced ==
  ASSUME NEW r, NEW h, Wal(r, h), History(r, h), FreshHistory(r, h),
         NEW p \in 1 .. Len(r), NEW i \in DOMAIN h[p].log,
         NEW id, NEW o \in Nat, NEW m \in Nat, BoundaryAt(id, o, m, h),
         Le(h[p].log[i].log_id, id)
  PROVE  h[p].log[i].segment <= m /\ h[p].log[i].chunk_id < o
<1>1. PICK b \in 0 .. o : b <= m /\ id = At(h, b).log_state.last
  BY DEF BoundaryAt
<1>2. PICK data, s : data = h[p].log[i] /\ s = data.segment
  OBVIOUS
<1>3. /\ s \in 1 .. p /\ r[s].chunk = data.chunk_id
      /\ r[s].rec.type = "Append" /\ r[s].rec.log_id = data.log_id
  BY <1>2, PlacedEntry
<1>4. /\ Len(r) \in Nat /\ s \in 1 .. Len(r) /\ s \in Nat
  BY <1>3, WalTypes
<1>5. data.log_id \in LogId /\ data.log_id \in OptLogId /\ data.chunk_id \in Nat /\ data.chunk_id < s
  <2>1. r[s].rec \in RaftLogRecord /\ r[s].chunk \in Nat
    BY <1>4, WalTypes
  <2>2. r[s].chunk < s
    BY <1>4 DEF Wal, Led
  <2> QED
    BY <1>3, <2>1, <2>2, RecordTypes DEF OptLogId
<1>6. s <= b
  <2>1. SUFFICES ASSUME b < s PROVE FALSE
    BY <1>4
  <2>2. CASE b = 0
    <3>1. id = None
      BY <1>1, <2>2 DEF At, View, default_state
    <3>2. data.log_id # None
      BY <1>5 DEF LogId, None
    <3> QED
      BY <1>2, <1>5, <3>1, <3>2, IdIndex DEF Le
  <2>3. CASE b # 0
    <3>1. b \in 1 .. s - 1 /\ b \in 1 .. Len(r)
      BY <1>4, <2>1, <2>3
    <3>2. id = h[b].log_state.last /\ id \in OptLogId
      <4>1. h[b].log_state \in RaftLogState
        BY <3>1, WalTypes
      <4> QED
        BY <1>1, <2>3, <4>1 DEF At, RaftLogState
    <3>3. Lt(id, data.log_id)
      BY <1>3, <1>4, <3>1, <3>2 DEF FreshHistory
    <3> QED
      BY <1>2, <1>5, <3>2, <3>3, IdOrder DEF Le
  <2> QED
    BY <2>2, <2>3
<1> QED
  BY <1>1, <1>2, <1>4, <1>5, <1>6

\* A record that is applied: what it makes leave the cache, the log does not
\* hold any more, or is settled.
LEMMA SettledApplied ==
  ASSUME NEW s \in RaftLogState, NEW l, IsLog(l), NEW c, IsCache(c),
         NEW rec \in RaftLogRecord, NEW chunk \in Nat, NEW seg \in Nat,
         NEW ll, ll = apply_log(l, rec, chunk, seg), IsLog(ll),
         \A i \in DOMAIN ll : Le(ll[i].log_id, apply_state(s, rec).last),
         NEW n \in Nat, NEW nn \in Nat, n <= nn, NEW o \in Nat, NEW oo \in Nat, o <= oo,
         Settled(c, l, n, o),
         \A i \in DOMAIN ll : Le(ll[i].log_id, c.last_evictable) =>
           ll[i].segment <= nn /\ ll[i].chunk_id < oo
  PROVE  Settled(apply_cache(c, rec), ll, nn, oo)
<1>1. PICK d : d = apply_cache(c, rec)
  OBVIOUS
<1>2. SUFFICES ASSUME NEW i \in DOMAIN ll, ll[i].log_id \notin Keys(d)
               PROVE  ll[i].segment <= nn /\ ll[i].chunk_id < oo
  BY <1>1 DEF Settled
<1>3. ll[i] \in LogData /\ ll[i].log_id \in OptLogId
  BY DEF IsLog, LogData, OptLogId
<1>4. ASSUME rec.type = "TruncateAfter", Lt(rec.log_id, ll[i].log_id) PROVE FALSE
  <2>1. rec.log_id \in OptLogId /\ s.last \in OptLogId
    BY <1>4, RecordTypes DEF RaftLogState
  <2>2. apply_state(s, rec).last = IF Lt(rec.log_id, s.last) THEN rec.log_id ELSE s.last
    BY <1>4, ApplyStateCases DEF truncate_after, RaftLogState
  <2>3. Le(ll[i].log_id, rec.log_id) \/ (Le(ll[i].log_id, s.last) /\ ~Lt(rec.log_id, s.last))
    BY <2>2
  <2> QED
    BY <1>3, <1>4, <2>1, <2>3, IdOrder DEF Le
<1>5. ASSUME ll[i].log_id \in Keys(c) \/ (rec.type = "Append" /\ ll[i].log_id = rec.log_id)
      PROVE  ll[i].segment <= nn /\ ll[i].chunk_id < oo
  <2>1. Le(ll[i].log_id, c.last_evictable)
    BY <1>1, <1>2, <1>4, <1>5, ApplyCacheKeys
  <2> QED
    BY <2>1
<1>6. CASE i \in DOMAIN l /\ ll[i] = l[i]
  <2>1. l[i].log_id \in Keys(c) \/ (l[i].segment <= n /\ l[i].chunk_id < o)
    BY <1>6 DEF Settled
  <2>2. CASE l[i].log_id \in Keys(c)
    BY <1>5, <1>6, <2>2
  <2>3. CASE l[i].segment <= n /\ l[i].chunk_id < o
    BY <1>3, <1>6, <2>3 DEF LogData
  <2> QED
    BY <2>1, <2>2, <2>3
<1>7. CASE rec.type = "Append" /\ ll[i] = NewLogData(rec.log_id, chunk, seg)
  BY <1>5, <1>7 DEF NewLogData
<1> QED
  BY <1>6, <1>7, EntryOrigin

\* Every evictable entry of the log map of a running store, or of one that is
\* being opened, is settled.
LEMMA EvictableSettled ==
  ASSUME RecoveryInv, OpenSucceeds, CacheInv, FreshHistory(recs, snap),
         NEW i \in DOMAIN log, Le(log[i].log_id, cache.last_evictable)
  PROVE  log[i].segment <= synced /\ log[i].chunk_id < open_chunk
<1>1. PICK p : p = Applied
  OBVIOUS
<1>2. p \in 1 .. Len(recs) /\ i \in DOMAIN snap[p].log /\ log[i] = snap[p].log[i]
  BY <1>1, LogEntries
<1>3. /\ Wal(recs, snap) /\ History(recs, snap) /\ synced \in Nat /\ open_chunk \in Nat
  BY DiskFacts
<1>4. BoundaryAt(cache.last_evictable, open_chunk, synced, snap)
  BY DEF CacheInv
<1> QED
  BY <1>2, <1>3, <1>4, EvictablePlaced

\* A record that is written is fresh, and so are the ones its call has left.
LEMMA AddedFresh ==
  ASSUME "fresh_ids" \in Contract, RecoveryInv, FreshHistory(recs, snap), CallFresh,
         status = "up", NEW rec \in RaftLogRecord, CallGoesOn(rec), Added(rec)
  PROVE  FreshHistory(recs', snap') /\ CallFresh'
<1> DEFINE n == Len(recs)
<1>1. /\ n \in Nat /\ log_state \in RaftLogState /\ log_state.last \in OptLogId
      /\ \A q \in 1 .. n : snap[q].log_state.last \in OptLogId
      /\ Len(snap) = n
  BY UpFacts, WalTypes DEF RaftLogState, Wal
<1>2. /\ \A q \in 1 .. n : recs'[q] = recs[q] /\ snap'[q] = snap[q]
      /\ recs'[n + 1].rec = rec /\ snap'[n + 1].log_state = log_state'
      /\ log_state' = apply_state(log_state, rec) /\ check(log_state, rec)
      /\ status' = "up"
  BY DEF Added, Entry, View
<1>3. /\ Len(snap') = Len(recs')
      /\ Len(recs') = n + 2 => /\ recs'[n + 2].rec.type = "Checkpoint"
                               /\ snap'[n + 2].log_state = log_state'
  BY AddedShape DEF Entry, View, CheckpointRecord
<1>4. \A q \in 1 .. Len(recs') : q \in 1 .. n \/ q = n + 1 \/ (q = n + 2 /\ Len(recs') = n + 2)
  BY AddedShape
<1>5. CASE rec.type # "Append" /\ call' = NoCall
  <2>1. CallFresh'
    <3>1. \A k \in 1 .. Len(call'.rest) : FALSE
      BY <1>5 DEF NoCall
    <3> QED
      BY <3>1 DEF CallFresh
  <2>2. FreshHistory(recs', snap')
    <3>1. SUFFICES ASSUME NEW p \in 1 .. Len(recs'), recs'[p].rec.type = "Append",
                          NEW q \in 1 .. p - 1
                   PROVE  Lt(snap'[q].log_state.last, recs'[p].rec.log_id)
      BY DEF FreshHistory
    <3>2. p \in 1 .. n
      BY <1>2, <1>3, <1>4, <1>5, <3>1
    <3>3. q \in 1 .. n
      BY <1>1, <3>2
    <3> QED
      BY <1>2, <3>1, <3>2, <3>3 DEF FreshHistory
  <2> QED
    BY <2>1, <2>2
<1>6. ASSUME NEW entries \in Seq(LogId \X Payload), entries # <<>>,
             rec = AppendAction(entries[1][1], entries[1][2]),
             call'.rest = Tail(entries),
             entries = call.rest \/ \A k \in 1 .. Len(entries) : FreshId(entries[k][1])
      PROVE  FreshHistory(recs', snap') /\ CallFresh'
  <2>1. PICK id : id = entries[1][1]
    OBVIOUS
  <2>2. /\ Len(entries) \in Nat /\ 1 \in 1 .. Len(entries)
        /\ \A k \in 1 .. Len(entries) : entries[k] \in LogId \X Payload
        /\ Len(Tail(entries)) = Len(entries) - 1
        /\ \A k \in 1 .. Len(entries) - 1 : Tail(entries)[k] = entries[k + 1]
    BY <1>6
  <2>3. \A k \in 1 .. Len(entries) : entries[k][1] \in OptLogId
    BY <2>2 DEF OptLogId
  <2>4. rec.type = "Append" /\ rec.log_id = id /\ id \in OptLogId
    BY <1>6, <2>1, <2>2, <2>3 DEF AppendAction
  <2>5. Lt(log_state.last, id) /\ log_state'.last = id
    <3>1. Lt(log_state.last, id)
      BY <1>2, <2>4 DEF check, check_append
    <3>2. log_state' = [log_state EXCEPT !.last = id]
      BY <1>2, <2>4, ApplyStateCases
    <3> QED
      BY <1>1, <3>1, <3>2 DEF RaftLogState
  <2>6. ASSUME NEW k \in 1 .. Len(entries), NEW q \in 1 .. n
        PROVE  \/ Lt(snap[q].log_state.last, entries[k][1])
               \/ Le(snap[q].log_state.last, log_state.last)
    <3>1. CASE entries = call.rest
      BY <1>1, <3>1 DEF CallFresh
    <3>2. CASE FreshId(entries[k][1])
      BY <1>1, <3>2 DEF FreshId
    <3> QED
      BY <1>6, <3>1, <3>2
  <2>7. ASSUME NEW q \in 1 .. n
        PROVE  Lt(snap[q].log_state.last, id)
    <3>1. \/ Lt(snap[q].log_state.last, id)
          \/ Le(snap[q].log_state.last, log_state.last)
      BY <2>1, <2>2, <2>6
    <3> QED
      BY <1>1, <2>4, <2>5, <3>1, IdOrder DEF Le
  <2>8. FreshHistory(recs', snap')
    <3>1. SUFFICES ASSUME NEW p \in 1 .. Len(recs'), recs'[p].rec.type = "Append",
                          NEW q \in 1 .. p - 1
                   PROVE  Lt(snap'[q].log_state.last, recs'[p].rec.log_id)
      BY DEF FreshHistory
    <3>2. CASE p \in 1 .. n
      <4>1. q \in 1 .. n
        BY <1>1, <3>2
      <4> QED
        BY <1>2, <3>1, <3>2, <4>1 DEF FreshHistory
    <3>3. CASE p = n + 1
      <4>1. q \in 1 .. n
        BY <1>1, <3>3
      <4> QED
        BY <1>2, <2>4, <2>7, <3>3, <4>1
    <3> QED
      BY <1>3, <1>4, <3>1, <3>2, <3>3
  <2>9. CallFresh'
    <3>1. SUFFICES ASSUME NEW k \in 1 .. Len(call'.rest), NEW q \in 1 .. Len(snap')
                   PROVE  \/ Lt(snap'[q].log_state.last, call'.rest[k][1])
                          \/ Le(snap'[q].log_state.last, log_state'.last)
      BY <1>2 DEF CallFresh
    <3>2. k + 1 \in 1 .. Len(entries) /\ call'.rest[k] = entries[k + 1]
      BY <1>6, <2>2
    <3>3. CASE q \in 1 .. n
      BY <1>2, <2>5, <2>7, <3>3 DEF Le
    <3>4. CASE q \notin 1 .. n
      <4>1. snap'[q].log_state = log_state'
        BY <1>2, <1>3, <1>4, <3>1, <3>4
      <4> QED
        BY <4>1 DEF Le
    <3> QED
      BY <3>3, <3>4
  <2> QED
    BY <2>8, <2>9
<1> QED
  BY <1>5, <1>6 DEF CallGoesOn

\* A record that is written leaves what the cache gave up settled.
LEMMA AddedSettled ==
  ASSUME RecoveryInv, RecoveryInv', OpenSucceeds', CacheInv, CacheInv',
         FreshHistory(recs', snap'), EvictedSettled,
         status = "up", NEW rec \in RaftLogRecord, Added(rec)
  PROVE  EvictedSettled'
<1>1. /\ Len(recs) \in Nat /\ log_state \in RaftLogState /\ IsLog(log) /\ open_chunk \in Nat
      /\ open_chunk < Len(recs)
  BY UpFacts
<1>2. IsCache(cache) /\ synced \in Nat
  BY DiskFacts DEF RecoveryInv, TypeInv, TypeOK
<1>3. /\ cache' = apply_cache(cache, rec) /\ log_state' = apply_state(log_state, rec)
      /\ log' = apply_log(log, rec, open_chunk, Len(recs) + 1)
      /\ status' = "up" /\ synced' = synced
  BY DEF Added
<1>4. PICK p, r, h, m, id, o : /\ r = recs' /\ h = snap' /\ m = synced /\ o = open_chunk'
                               /\ id = cache.last_evictable /\ p = Len(recs')
  OBVIOUS
<1>5. /\ Wal(r, h) /\ History(r, h) /\ o \in Nat /\ p \in Nat /\ p > 0
      /\ log' = h[p].log /\ log_state' = h[p].log_state
  BY <1>3, <1>4 DEF RecoveryInv, HistoryInv, TypeInv, TypeOK, Structure, ChunksLed, Wal,
                    StoreInv, MemoryFollows, WalEntry, OpenChunkIsLast
<1>6. p \in 1 .. Len(r)
  BY <1>4, <1>5
<1>7. cache'.last_evictable = id
  BY <1>2, <1>3, <1>4, ApplyCacheKeys
<1>8. BoundaryAt(id, o, m, h) /\ FreshHistory(r, h)
  BY <1>3, <1>4, <1>7 DEF CacheInv
<1>9. open_chunk <= open_chunk'
  BY AddedShape
<1>10. IsLog(log') /\ WellFormed(log_state', log')
  BY <1>5, <1>6, WalTypes DEF History, ViewsWellFormed, Wal
<1>11. \A i \in DOMAIN log' : Le(log'[i].log_id, log_state'.last)
  BY <1>10, EntriesUpToLast
<1>12. \A i \in DOMAIN log' : Le(log'[i].log_id, cache.last_evictable) =>
         log'[i].segment <= synced /\ log'[i].chunk_id < open_chunk'
  BY <1>2, <1>4, <1>5, <1>6, <1>8, EvictablePlaced
<1>13. Settled(cache, log, synced, open_chunk)
  BY DEF EvictedSettled
<1>14. Settled(cache', log', synced, open_chunk')
  <2>1. PICK ll, oo, sg : ll = log' /\ oo = open_chunk' /\ sg = Len(recs) + 1
    OBVIOUS
  <2>2. /\ ll = apply_log(log, rec, open_chunk, sg) /\ IsLog(ll) /\ oo \in Nat /\ sg \in Nat
        /\ open_chunk <= oo
        /\ \A i \in DOMAIN ll : Le(ll[i].log_id, apply_state(log_state, rec).last)
        /\ \A i \in DOMAIN ll : Le(ll[i].log_id, cache.last_evictable) =>
             ll[i].segment <= synced /\ ll[i].chunk_id < oo
        /\ synced <= synced
    BY <1>1, <1>2, <1>3, <1>4, <1>5, <1>9, <1>10, <1>11, <1>12, <2>1
  <2>3. Settled(apply_cache(cache, rec), ll, synced, oo)
    BY <1>1, <1>2, <1>13, <2>2, SettledApplied
  <2> QED
    BY <1>3, <2>1, <2>3
<1> QED
  BY <1>3, <1>14 DEF EvictedSettled

\* A store that holds more on stable storage, and the same payloads.
LEMMA SettledLater ==
  ASSUME NEW c, NEW d, NEW l, IsLog(l), NEW n \in Nat, NEW nn \in Nat, n <= nn,
         NEW o \in Nat, NEW oo \in Nat, o <= oo, Settled(c, l, n, o), Keys(d) = Keys(c)
  PROVE  Settled(d, l, nn, oo)
<1>1. SUFFICES ASSUME NEW i \in DOMAIN l, l[i].log_id \notin Keys(d)
               PROVE  l[i].segment <= nn /\ l[i].chunk_id < oo
  BY DEF Settled
<1>2. l[i].segment \in Nat /\ l[i].chunk_id \in Nat
  BY DEF IsLog, LogData
<1>3. l[i].segment <= n /\ l[i].chunk_id < o
  BY <1>1 DEF Settled
<1> QED
  BY <1>2, <1>3

\* The operations of a caller.
LEMMA CallerFresh ==
  ASSUME "fresh_ids" \in Contract, RecoveryInv, RecoveryInv', OpenSucceeds, OpenSucceeds',
         CacheInv, CacheInv', FreshInv, Caller, Obliged
  PROVE  FreshInv'
<1>1. FreshHistory(recs, snap) /\ CallFresh /\ EvictedSettled
  BY DEF FreshInv
<1>2. ASSUME NEW rec \in RaftLogRecord, Writes(rec) PROVE FreshInv'
  <2>1. /\ status = "up" /\ CallGoesOn(rec)
        /\ \E buffer \in BOOLEAN : append_and_apply(rec, buffer)
    BY <1>2 DEF Writes
  <2>2. Added(rec)
    BY <2>1, RecordAdded
  <2>3. FreshHistory(recs', snap') /\ CallFresh'
    BY <1>1, <2>1, <2>2, AddedFresh
  <2>4. EvictedSettled'
    BY <1>1, <2>1, <2>2, <2>3, AddedSettled
  <2> QED
    BY <2>3, <2>4 DEF FreshInv
<1>3. ASSUME NEW sync \in BOOLEAN, flush(sync) PROVE FreshInv'
  BY <1>1, <1>3 DEF flush, mem, FreshInv, CallFresh, EvictedSettled
<1>4. CASE append_reject
  <2>1. \A k \in 1 .. Len(call'.rest) : FALSE
    BY <1>4 DEF append_reject, NoCall
  <2> QED
    BY <1>1, <1>4, <2>1 DEF append_reject, wal, worker, FreshInv, CallFresh, EvictedSettled
<1>5. CASE drain_cache_evictable
  <2>1. /\ cache' = drain_evictable(cache)
        /\ UNCHANGED <<status, log_state, log, call, recs, snap, open_chunk, synced>>
    BY <1>5 DEF drain_cache_evictable, wal, worker
  <2>2. Keys(cache') = Keys(cache) \ {k \in Keys(cache) : Le(k, cache.last_evictable)}
    BY <2>1, WithoutKeys DEF drain_evictable, IsEvictable
  <2>3. Settled(cache', log, synced, open_chunk)
    <3>1. SUFFICES ASSUME NEW i \in DOMAIN log, log[i].log_id \notin Keys(cache')
                   PROVE  log[i].segment <= synced /\ log[i].chunk_id < open_chunk
      BY DEF Settled
    <3>2. CASE log[i].log_id \notin Keys(cache)
      BY <1>1, <3>2 DEF EvictedSettled, Settled
    <3>3. CASE Le(log[i].log_id, cache.last_evictable)
      BY <1>1, <3>3, EvictableSettled
    <3> QED
      BY <2>2, <3>1, <3>2, <3>3
  <2> QED
    BY <1>1, <2>1, <2>3 DEF FreshInv, CallFresh, EvictedSettled
<1> QED
  BY <1>2, <1>3, <1>4, <1>5, CallerSteps

\* The FlushWorker.
LEMMA FlushWorkerFresh ==
  ASSUME "fresh_ids" \in Contract, RecoveryInv, FreshInv, FlushWorker
  PROVE  FreshInv'
<1>1. UNCHANGED <<status, log_state, log, call, recs, snap, open_chunk>>
  BY DEF FlushWorker, WorkerWrite, WorkerSync, WorkerRemove, mem, wal
<1>2. /\ IsLog(log) /\ synced \in Nat /\ open_chunk \in Nat /\ written \in Nat
      /\ synced <= written
  BY DiskFacts DEF RecoveryInv, TypeInv, TypeOK
<1>3. Keys(cache') = Keys(cache) /\ (synced' = synced \/ synced' = written)
  <2>1. CASE WorkerSync
    BY <2>1 DEF WorkerSync, on_chunk_persisted, set_last_evictable, Cache, Keys
  <2>2. CASE WorkerWrite \/ WorkerRemove
    BY <2>2 DEF WorkerWrite, WorkerRemove, mem
  <2> QED
    BY <2>1, <2>2 DEF FlushWorker
<1>4. Settled(cache', log, synced', open_chunk)
  <2>1. /\ synced' \in Nat /\ synced <= synced' /\ open_chunk <= open_chunk
        /\ Settled(cache, log, synced, open_chunk)
    BY <1>2, <1>3 DEF FreshInv, EvictedSettled
  <2> QED
    BY <1>2, <1>3, <2>1, SettledLater
<1> QED
  BY <1>1, <1>4 DEF FreshInv, CallFresh, EvictedSettled

\* A crash: the records that are left were fresh as well.
LEMMA CrashFresh ==
  ASSUME "fresh_ids" \in Contract, RecoveryInv, FreshInv, Fail
  PROVE  FreshInv'
<1>1. PICK r \in synced .. Reach, incomplete \in BOOLEAN : Crash(r, incomplete)
  BY DEF Fail
<1>2. /\ recs' = SubSeq(recs, 1, r) /\ snap' = SubSeq(snap, 1, r)
      /\ log' = EmptyMap /\ call' = NoCall
  BY <1>1 DEF Crash
<1>3. Wal(recs, snap) /\ r \in 0 .. Len(recs) /\ r \in Nat /\ Len(recs) \in Nat
  <2>1. /\ Wal(recs, snap) /\ Len(recs) \in Nat /\ synced \in Nat /\ written \in Nat
        /\ written <= Len(recs) /\ queue \in Seq(Requests) /\ Covers(queue, recs)
        /\ handed \in Nat
    BY DiskFacts
  <2>2. Reach \in Nat /\ Reach <= Len(recs)
    BY <2>1, CoversTail DEF Reach, Serving
  <2> QED
    BY <2>1, <2>2
<1>4. /\ Len(recs') = r /\ Len(snap') = r
      /\ \A p \in 1 .. r : p \in 1 .. Len(recs) /\ recs'[p] = recs[p] /\ snap'[p] = snap[p]
  BY <1>2, <1>3, PrefixWal DEF CutAt
<1>5. FreshHistory(recs', snap')
  <2>1. SUFFICES ASSUME NEW p \in 1 .. r, recs'[p].rec.type = "Append", NEW q \in 1 .. p - 1
                 PROVE  Lt(snap'[q].log_state.last, recs'[p].rec.log_id)
    BY <1>4 DEF FreshHistory
  <2>2. q \in 1 .. r
    BY <1>3
  <2> QED
    BY <1>4, <2>1, <2>2 DEF FreshInv, FreshHistory
<1>6. (\A k \in 1 .. Len(call'.rest) : FALSE) /\ DOMAIN log' = {}
  BY <1>2 DEF NoCall, EmptyMap
<1> QED
  BY <1>5, <1>6 DEF FreshInv, CallFresh, EvictedSettled, Settled

\* RaftLog::open.
LEMMA ReplayFresh ==
  ASSUME "fresh_ids" \in Contract, RecoveryInv, RecoveryInv', OpenSucceeds, CacheInv,
         CacheInv', FreshInv, ReplayRecord
  PROVE  FreshInv'
<1> DEFINE chunk == recs[rp + 1].chunk
           rec == recs[rp + 1].rec
           entered == chunk # open_chunk
<1>1. /\ status = "replay" /\ rp < Len(recs) /\ UNCHANGED <<recs, snap, call, synced>>
  BY DEF ReplayRecord, worker
<1>2. /\ files # {} /\ rp + 1 \in 1 .. Len(recs) /\ Oldest \in Nat
      /\ check(log_state, rec)
      /\ apply_state(log_state, rec) = snap[rp + 1].log_state
      /\ apply_log(log, rec, chunk, rp + 1) = After(snap[rp + 1].log, Oldest)
  BY <1>1, ReplayStep
<1>3. /\ log' = apply_log(log, rec, chunk, rp + 1)
      /\ cache' = apply_cache(IF entered THEN set_last_evictable(cache, log_state.last)
                              ELSE cache, rec)
      /\ open_chunk' = chunk /\ rp' = rp + 1 /\ status' = status
  BY <1>2 DEF ReplayRecord
<1>4. /\ Wal(recs, snap) /\ History(recs, snap) /\ Len(recs) \in Nat /\ rp \in Nat
      /\ open_chunk \in Nat /\ synced \in Nat
  BY DiskFacts
<1>5. rec \in RaftLogRecord /\ chunk \in Nat
  BY <1>2, <1>4, WalTypes
<1>6. IsCache(cache) /\ log_state \in RaftLogState /\ IsLog(log)
  BY DEF RecoveryInv, TypeInv, TypeOK
<1>7. PICK c, ll, l : /\ c = (IF entered THEN set_last_evictable(cache, log_state.last) ELSE cache)
                      /\ ll = log' /\ l = snap[rp + 1].log
  OBVIOUS
<1>8. IsCache(c) /\ Keys(c) = Keys(cache) /\ cache' = apply_cache(c, rec)
  <2>1. log_state.last \in OptLogId
    BY <1>6 DEF RaftLogState
  <2>2. IsCache(set_last_evictable(cache, log_state.last))
    BY <1>6, <2>1, SetEvictableType
  <2>3. cache' = apply_cache(c, rec)
    BY <1>3, <1>7
  <2> HIDE DEF entered, rec
  <2> QED
    BY <1>6, <1>7, <2>2, <2>3 DEF set_last_evictable, Cache, Keys
<1>9. cache'.last_evictable = c.last_evictable
  BY <1>5, <1>8, ApplyCacheKeys
<1>10. IsLog(l) /\ WellFormed(snap[rp + 1].log_state, l)
  BY <1>2, <1>4, <1>7, WalTypes DEF History, ViewsWellFormed, Wal
<1>11. /\ ll = After(l, Oldest) /\ ll = apply_log(log, rec, chunk, rp + 1) /\ IsLog(ll)
  BY <1>2, <1>3, <1>7, <1>10, RestrictLogType DEF After
<1>12. \A i \in DOMAIN ll : i \in DOMAIN l /\ ll[i] = l[i]
  BY <1>11 DEF After, RestrictLog
<1>13. \A i \in DOMAIN ll : Le(ll[i].log_id, apply_state(log_state, rec).last)
  BY <1>2, <1>10, <1>12, EntriesUpToLast
<1>14. \A i \in DOMAIN ll : Le(ll[i].log_id, c.last_evictable) =>
         ll[i].segment <= synced /\ ll[i].chunk_id < chunk
  <2>1. BoundaryAt(c.last_evictable, chunk, synced, snap)
    BY <1>1, <1>3, <1>9 DEF CacheInv
  <2>2. FreshHistory(recs, snap)
    BY DEF FreshInv
  <2> HIDE DEF chunk
  <2> QED
    BY <1>2, <1>4, <1>5, <1>7, <1>12, <2>1, <2>2, EvictablePlaced
<1>15. open_chunk <= chunk
  <2>1. CASE rp = Oldest
    <3>1. chunk = open_chunk
      BY <1>1, <2>1, ReplayStep
    <3> QED
      BY <1>4, <3>1
  <2>2. CASE rp # Oldest
    <3>1. rp > Oldest /\ rp \in 1 .. Len(recs) /\ rp <= rp + 1
      BY <1>1, <1>2, <1>4, <2>2, ReplayStep
    <3>2. open_chunk = recs[rp].chunk
      BY <1>1, <1>2, <3>1 DEF RecoveryInv, StoreInv, ReplayFollows
    <3> QED
      BY <1>2, <1>4, <3>1, <3>2 DEF History, ChunksAscend
  <2> QED
    BY <2>1, <2>2
<1>16. Settled(c, log, synced, open_chunk)
  BY <1>8 DEF FreshInv, EvictedSettled, Settled
<1>17. Settled(apply_cache(c, rec), ll, synced, chunk)
  <2> HIDE DEF chunk, rec
  <2>1. rp + 1 \in Nat /\ synced <= synced
    BY <1>4
  <2> QED
    BY <1>4, <1>5, <1>6, <1>8, <1>11, <1>13, <1>14, <1>15, <1>16, <2>1, SettledApplied
<1>18. EvictedSettled'
  BY <1>1, <1>3, <1>7, <1>8, <1>17 DEF EvictedSettled
<1>19. \A k \in 1 .. Len(call.rest) : FALSE
  BY <1>1 DEF FreshInv, CallFresh
<1> QED
  BY <1>1, <1>18, <1>19 DEF FreshInv, CallFresh

\* The end of a replay adds at most a checkpoint, which appends nothing.
LEMMA OpenFinishFresh ==
  ASSUME "fresh_ids" \in Contract, RecoveryInv, FreshInv, OpenFinish
  PROVE  FreshInv'
<1> DEFINE n == Len(recs)
           create == files = {} \/ torn
<1>1. /\ status = "replay" /\ rp = n /\ UNCHANGED <<log_state, log, cache, call>>
      /\ open_chunk' = (IF create THEN n ELSE open_chunk)
      /\ recs' = (IF create THEN Append(recs, Entry(n, CheckpointRecord(log_state)))
                  ELSE recs)
      /\ snap' = (IF create THEN Append(snap, View(log_state, log)) ELSE snap)
      /\ synced' = (IF torn THEN n ELSE synced)
  BY DEF OpenFinish
<1>2. /\ recs \in Seq(WalEntry) /\ n \in Nat /\ open_chunk \in Nat /\ synced \in Nat
      /\ synced <= n /\ Len(snap) = n /\ Wal(recs, snap) /\ IsLog(log)
  BY DiskFacts DEF Wal, RecoveryInv, TypeInv, TypeOK
<1>3. PICK H : snap \in Seq(H)
  BY <1>2 DEF Wal, IsHistory
<1>4. \A k \in 1 .. Len(call.rest) : FALSE
  BY <1>1 DEF FreshInv, CallFresh
<1>5. FreshHistory(recs', snap')
  <2>1. CASE ~create
    BY <1>1, <2>1 DEF FreshInv
  <2>2. CASE create
    <3>1. PICK e, v : e = Entry(n, CheckpointRecord(log_state)) /\ v = View(log_state, log)
      OBVIOUS
    <3>2. recs' = Append(recs, e) /\ snap' = Append(snap, v)
      BY <1>1, <2>2, <3>1
    <3>3. /\ Len(recs') = n + 1 /\ recs'[n + 1] = e
          /\ \A p \in 1 .. n : recs'[p] = recs[p] /\ snap'[p] = snap[p]
      BY <1>2, <1>3, <3>2
    <3>4. e.rec.type = "Checkpoint"
      BY <3>1 DEF Entry, CheckpointRecord
    <3>5. SUFFICES ASSUME NEW p \in 1 .. Len(recs'), recs'[p].rec.type = "Append",
                          NEW q \in 1 .. p - 1
                   PROVE  Lt(snap'[q].log_state.last, recs'[p].rec.log_id)
      BY DEF FreshHistory
    <3>6. p \in 1 .. n /\ q \in 1 .. n
      <4>1. p # n + 1
        BY <3>3, <3>4, <3>5
      <4> QED
        BY <1>2, <3>3, <3>5, <4>1
    <3> QED
      BY <3>3, <3>5, <3>6 DEF FreshInv, FreshHistory
  <2> QED
    BY <2>1, <2>2
<1>6. EvictedSettled'
  <2>1. CASE files = {}
    <3>1. DOMAIN log' = {}
      BY <1>1, <2>1 DEF RecoveryInv, StoreInv, ReplayOfNothing, EmptyMap
    <3> QED
      BY <3>1 DEF EvictedSettled, Settled
  <2>2. CASE files # {}
    <3>1. n > 0 /\ open_chunk = recs[n].chunk
      BY <1>1, <2>2, ReplayedAll
    <3>2. open_chunk < n
      BY <1>2, <3>1 DEF Wal, Led
    <3>3. /\ open_chunk' \in Nat /\ open_chunk <= open_chunk' /\ synced' \in Nat
          /\ synced <= synced'
      BY <1>1, <1>2, <3>2
    <3>4. Settled(cache, log, synced, open_chunk)
      BY DEF FreshInv, EvictedSettled
    <3>5. Settled(cache, log, synced', open_chunk')
      BY <1>2, <3>3, <3>4, SettledLater
    <3> QED
      BY <1>1, <3>5 DEF EvictedSettled
  <2> QED
    BY <2>1, <2>2
<1> QED
  BY <1>1, <1>4, <1>5, <1>6 DEF FreshInv, CallFresh

\* The start of a replay touches neither records nor entries.
LEMMA OpenStartFresh ==
  ASSUME "fresh_ids" \in Contract, RecoveryInv, FreshInv, OpenStart
  PROVE  FreshInv'
<1>1. status = "down" /\ UNCHANGED <<log, call, recs, snap>>
  BY DEF OpenStart, mem
<1>2. DOMAIN log = {}
  BY <1>1 DEF RecoveryInv, StoreInv, MemoryFollows, EmptyMap
<1>3. \A k \in 1 .. Len(call.rest) : FALSE
  BY <1>1 DEF FreshInv, CallFresh
<1> QED
  BY <1>1, <1>2, <1>3 DEF FreshInv, CallFresh, EvictedSettled, Settled

\* Every step keeps the invariant of callers that append fresh ids.
LEMMA NextFresh ==
  ASSUME RecoveryInv, RecoveryInv', OpenSucceeds, OpenSucceeds', CacheInv, CacheInv',
         FreshInv, [Next]_vars, Obliged
  PROVE  FreshInv'
<1>1. CASE UNCHANGED vars
  BY <1>1 DEF vars, mem, wal, worker, FreshInv, CallFresh, EvictedSettled
<1>2. CASE "fresh_ids" \in Contract /\ Next
  BY <1>2, CallerFresh, FlushWorkerFresh, CrashFresh, OpenStartFresh, ReplayFresh,
     OpenFinishFresh DEF Next, open
<1>3. CASE "fresh_ids" \notin Contract
  BY <1>3 DEF FreshInv
<1> QED
  BY <1>1, <1>2, <1>3

\* With callers that append fresh ids, what has left the cache is settled.
THEOREM FreshInvHolds == Obliged => (Spec => []FreshInv)
<1> SUFFICES ASSUME Obliged
             PROVE  Spec => []FreshInv
  OBVIOUS
<1>1. Init => FreshInv
  <2>1. ASSUME Init PROVE FreshInv
    <3>1. Len(recs) = 0 /\ Len(call.rest) = 0 /\ DOMAIN log = {}
      BY <2>1 DEF Init, NoCall, EmptyMap
    <3> QED
      BY <3>1 DEF FreshInv, FreshHistory, CallFresh, EvictedSettled, Settled
  <2> QED
    BY <2>1
<1>2. (RecoveryInv /\ RecoveryInv' /\ OpenSucceeds /\ OpenSucceeds' /\ CacheInv /\ CacheInv'
         /\ FreshInv /\ [Next]_vars) => FreshInv'
  BY NextFresh
<1>3. Spec => []RecoveryInv
  BY RecoveryInvHolds
<1>4. Spec => []OpenSucceeds
  BY OpenAlwaysSucceeds
<1>5. Spec => []CacheInv
  BY CacheInvHolds
<1> QED
  BY <1>1, <1>2, <1>3, <1>4, <1>5, PTL DEF Spec

\* An entry that is settled is in a closed chunk: the chunks on their way out
\* hold no entry of the log.
LEMMA SettledIsDurable ==
  ASSUME RecoveryInv, FilesInv, FreshInv, "fresh_ids" \in Contract
  PROVE  EvictedIsDurable
<1>1. SUFFICES ASSUME status = "up", NEW i \in DOMAIN log, log[i].log_id \notin Keys(cache)
               PROVE  /\ log[i].chunk_id \in DOMAIN closed /\ log[i].chunk_id \in files
                      /\ log[i].segment <= synced
  BY DEF EvictedIsDurable
<1>2. PICK n, c : n = Len(recs) /\ c = log[i].chunk_id
  OBVIOUS
<1>3. log[i].segment <= synced /\ c < open_chunk
  BY <1>1, <1>2 DEF FreshInv, EvictedSettled, Settled
<1>4. /\ n \in 1 .. Len(recs) /\ n \in Nat /\ i \in DOMAIN snap[n].log
      /\ snap[n].log[i].chunk_id = c
  BY <1>1, <1>2, UpFacts DEF RecoveryInv, StoreInv, MemoryFollows
<1>5. /\ synced \in Nat /\ synced <= n /\ queue \in Seq(Requests) /\ Covers(queue, recs)
      /\ RemovalsDead(queue, synced, recs, snap) /\ Hold(files, synced, recs, snap)
      /\ \A d \in removed_chunks : Dead(recs, snap, d, n)
  BY <1>2, DiskFacts
<1>6. \A u : u <= n => ~Dead(recs, snap, c, u)
  BY <1>4 DEF Dead
<1>7. c \in files
  BY <1>4, <1>5 DEF Hold
<1>8. c \notin removed_chunks
  BY <1>4, <1>5, <1>6
<1>9. c \notin Leaving(queue)
  <2>1. SUFFICES ASSUME NEW k \in 1 .. Len(queue), queue[k].type = "RemoveChunks",
                        c \in queue[k].ids
                 PROVE  FALSE
    BY <1>5, LeavingMembers
  <2>2. CASE Dead(recs, snap, c, synced)
    BY <1>5, <1>6, <2>2
  <2>3. ASSUME NEW j \in 1 .. k - 1, queue[j].type = "Write",
               Dead(recs, snap, c, queue[j].upto)
        PROVE  FALSE
    <3>1. j \in 1 .. Len(queue)
      BY <1>5
    <3>2. queue[j].upto <= n
      BY <1>2, <1>4, <1>5, <2>3, <3>1 DEF Covers
    <3> QED
      BY <1>6, <2>3, <3>2
  <2> QED
    BY <1>5, <2>1, <2>2, <2>3 DEF RemovalsDead
<1>10. c # open_chunk
  BY <1>1, <1>3, <1>4, UpFacts
<1> QED
  BY <1>1, <1>2, <1>3, <1>7, <1>8, <1>9, <1>10, UpFiles

\* "un-synced data must stay in memory": with callers that append fresh ids, a
\* payload that has left the cache is on stable storage, in a closed chunk
\* whose file stays (PayloadCache::last_evictable).
THEOREM EvictedStaysDurable ==
  Obliged /\ "fresh_ids" \in Contract => (Spec => []EvictedIsDurable)
<1> SUFFICES ASSUME Obliged, "fresh_ids" \in Contract
             PROVE  Spec => []EvictedIsDurable
  OBVIOUS
<1>1. RecoveryInv /\ FilesInv /\ FreshInv => EvictedIsDurable
  BY SettledIsDurable
<1>2. Spec => []RecoveryInv
  BY RecoveryInvHolds
<1>3. Spec => []FilesInv
  BY FilesInvHolds
<1>4. Spec => []FreshInv
  BY FreshInvHolds
<1> QED
  BY <1>1, <1>2, <1>3, <1>4, PTL

---------------------------------------------------------------------------
(* What a drained cache holds.                                             *)

\* The ids that are left, by the records that appended them.
LEMMA NotTruncatedMembers ==
  ASSUME NEW r, NEW k
  PROVE  k \in NotTruncated(r) <=>
           \E p \in 1 .. Len(r) : Untruncated(r, p) /\ k = r[p].rec.log_id
  BY Zenon DEF NotTruncated

\* Of the payloads a truncation leaves, none is above it.
LEMMA TruncatedKeys ==
  ASSUME NEW c, IsCache(c), NEW rec \in RaftLogRecord, rec.type = "TruncateAfter",
         NEW k \in Keys(apply_cache(c, rec))
  PROVE  k \in Keys(c) /\ Le(k, rec.log_id)
<1>1. rec.log_id \in OptLogId
  BY RecordTypes
<1>2. apply_cache(c, rec) = IF rec.log_id = None THEN cache_clear(c)
                            ELSE cache_truncate_after(c, rec.log_id)
  BY Zenon DEF apply_cache
<1>3. CASE rec.log_id = None
  <2>1. Keys(apply_cache(c, rec)) = {}
    BY <1>2, <1>3 DEF cache_clear, Cache, Keys
  <2> QED
    BY <2>1
<1>4. CASE rec.log_id # None
  <2>1. k \in Keys(c) /\ ~Lt(rec.log_id, k)
    BY <1>2, <1>4, WithoutKeys DEF cache_truncate_after
  <2>2. k \in OptLogId
    BY <2>1 DEF IsCache, Keys, OptLogId
  <2> QED
    BY <1>1, <2>1, <2>2, IdOrder DEF Le
<1> QED
  BY <1>3, <1>4

\* Only a truncation moves `last` back, and not behind what it keeps.
LEMMA LastKept ==
  ASSUME NEW s \in RaftLogState, NEW rec \in RaftLogRecord, check(s, rec),
         rec.type = "Checkpoint" => Le(s.last, rec.state.last),
         NEW k \in OptLogId, Le(k, s.last),
         rec.type = "TruncateAfter" => Le(k, rec.log_id)
  PROVE  Le(k, apply_state(s, rec).last)
<1>1. PICK t : t = apply_state(s, rec)
  OBVIOUS
<1>2. t \in RaftLogState /\ t.last \in OptLogId /\ s.last \in OptLogId
  BY <1>1, ApplyStateType DEF RaftLogState
<1>3. CASE rec.type \in {"SaveVote", "Commit"}
  <2>1. t = [s EXCEPT !.vote = rec.vote] \/ t = [s EXCEPT !.committed = rec.log_id]
    BY <1>1, <1>3, ApplyStateCases, Zenon
  <2>2. t.last = s.last
    BY <2>1 DEF RaftLogState
  <2> QED
    BY <1>1, <2>2
<1>4. CASE rec.type = "Append"
  <2>1. t = [s EXCEPT !.last = rec.log_id]
    BY <1>1, <1>4, ApplyStateCases, Zenon
  <2>2. t.last = rec.log_id /\ Lt(s.last, rec.log_id)
    BY <1>4, <2>1 DEF RaftLogState, check, check_append
  <2> QED
    BY <1>1, <1>2, <2>2, IdOrder DEF Le
<1>5. CASE rec.type = "TruncateAfter"
  <2>1. t = truncate_after(s, rec.log_id)
    BY <1>1, <1>5, ApplyStateCases, Zenon
  <2>2. t.last = rec.log_id \/ t.last = s.last
    BY <2>1 DEF RaftLogState, truncate_after
  <2> QED
    BY <1>1, <1>5, <2>2
<1>6. CASE rec.type = "PurgeUpto"
  <2>1. t = purge_state(s, rec.log_id)
    BY <1>1, <1>6, ApplyStateCases, Zenon
  <2>2. t.last = (IF Lt(s.last, rec.log_id) THEN rec.log_id ELSE s.last)
    BY <2>1 DEF RaftLogState, purge_state
  <2>3. t.last = s.last \/ Lt(s.last, t.last)
    BY <2>2
  <2> QED
    BY <1>1, <1>2, <2>3, IdOrder DEF Le
<1>7. CASE rec.type = "Checkpoint"
  <2>1. t = rec.state
    BY <1>1, <1>7, ApplyStateCases, Zenon
  <2>2. s.last = t.last \/ Lt(s.last, t.last)
    BY <1>7, <2>1 DEF Le
  <2> QED
    BY <1>1, <1>2, <2>2, IdOrder DEF Le
<1> QED
  BY <1>3, <1>4, <1>5, <1>6, <1>7, RecordTypes

\* What a record that is written leaves of the ids appended.
LEMMA AddedUntruncated ==
  ASSUME RecoveryInv, status = "up", NEW rec \in RaftLogRecord, Added(rec)
  PROVE  LET n == Len(recs) IN
         /\ \A p \in 1 .. n :
              Untruncated(recs', p) <=>
                /\ Untruncated(recs, p)
                /\ rec.type = "TruncateAfter" => Le(recs[p].rec.log_id, rec.log_id)
         /\ Untruncated(recs', n + 1) <=> rec.type = "Append"
         /\ Len(recs') = n + 2 => ~Untruncated(recs', n + 2)
<1>1. PICK n, m : n = Len(recs) /\ m = Len(recs')
  OBVIOUS
<1>2. n \in Nat
  BY <1>1, UpFacts
<1>3. /\ \A p \in 1 .. n : recs'[p] = recs[p]
      /\ recs'[n + 1].rec = rec
  BY <1>1 DEF Added, Entry
<1>4. /\ m = n + 1 \/ m = n + 2
      /\ m = n + 2 => recs'[n + 2].rec.type = "Checkpoint"
  BY <1>1, AddedShape DEF Entry, CheckpointRecord
<1>5. ASSUME NEW p \in 1 .. n
      PROVE  Untruncated(recs', p) <=>
               /\ Untruncated(recs, p)
               /\ rec.type = "TruncateAfter" => Le(recs[p].rec.log_id, rec.log_id)
  <2>1. recs'[p] = recs[p] /\ n + 1 \in p + 1 .. m
    BY <1>2, <1>3, <1>4
  <2>2. \A q \in p + 1 .. n : q \in p + 1 .. m /\ recs'[q] = recs[q]
    BY <1>2, <1>3, <1>4
  <2>3. \A q \in p + 1 .. m : q \in p + 1 .. n \/ q = n + 1 \/ (q = n + 2 /\ m = n + 2)
    BY <1>2, <1>4
  <2>4. \A q \in p + 1 .. m : recs'[q].rec.type = "TruncateAfter" =>
          q \in p + 1 .. n \/ q = n + 1
    BY <1>4, <2>3
  <2> QED
    BY <1>1, <1>3, <2>1, <2>2, <2>4 DEF Untruncated
<1>6. Untruncated(recs', n + 1) <=> rec.type = "Append"
  <2>1. \A q \in n + 2 .. m : q = n + 2 /\ m = n + 2
    BY <1>2, <1>4
  <2>2. n + 1 + 1 = n + 2
    BY <1>2
  <2> QED
    BY <1>1, <1>3, <1>4, <2>1, <2>2 DEF Untruncated
<1>7. m = n + 2 => ~Untruncated(recs', n + 2)
  BY <1>4 DEF Untruncated
<1> QED
  BY <1>1, <1>5, <1>6, <1>7

LEMMA AddedNotTruncated ==
  ASSUME RecoveryInv, status = "up", NEW rec \in RaftLogRecord, Added(rec), NEW k
  PROVE  k \in NotTruncated(recs') <=>
           \/ k \in NotTruncated(recs) /\ (rec.type = "TruncateAfter" => Le(k, rec.log_id))
           \/ rec.type = "Append" /\ k = rec.log_id
<1>1. PICK n : n = Len(recs)
  OBVIOUS
<1>2. n \in Nat
  BY <1>1, UpFacts
<1>3. /\ \A p \in 1 .. n : recs'[p] = recs[p]
      /\ recs'[n + 1].rec = rec
  BY <1>1 DEF Added, Entry
<1>4. /\ \A p \in 1 .. Len(recs') :
           p \in 1 .. n \/ p = n + 1 \/ (p = n + 2 /\ Len(recs') = n + 2)
      /\ Len(recs') = n + 1 \/ Len(recs') = n + 2
  BY <1>1, AddedShape
<1>5. /\ \A p \in 1 .. n :
              Untruncated(recs', p) <=>
                /\ Untruncated(recs, p)
                /\ rec.type = "TruncateAfter" => Le(recs[p].rec.log_id, rec.log_id)
      /\ Untruncated(recs', n + 1) <=> rec.type = "Append"
      /\ Len(recs') = n + 2 => ~Untruncated(recs', n + 2)
  BY <1>1, AddedUntruncated
<1>6. \A p \in 1 .. n + 1 : p \in 1 .. Len(recs')
  BY <1>2, <1>4
<1>7. \A p \in 1 .. n : p \in 1 .. n + 1
  BY <1>2
<1>8. n + 1 \in 1 .. n + 1
  BY <1>2
<1>9. /\ k \in NotTruncated(recs') <=>
           \E p \in 1 .. Len(recs') : Untruncated(recs', p) /\ k = recs'[p].rec.log_id
      /\ k \in NotTruncated(recs) <=>
           \E p \in 1 .. n : Untruncated(recs, p) /\ k = recs[p].rec.log_id
  <2>1. k \in NotTruncated(recs') <=>
          \E p \in 1 .. Len(recs') : Untruncated(recs', p) /\ k = recs'[p].rec.log_id
    BY NotTruncatedMembers
  <2>2. k \in NotTruncated(recs) <=>
          \E p \in 1 .. n : Untruncated(recs, p) /\ k = recs[p].rec.log_id
    BY <1>1, NotTruncatedMembers
  <2> QED
    BY <2>1, <2>2, Zenon
<1>10. ASSUME NEW p \in 1 .. Len(recs'), Untruncated(recs', p), k = recs'[p].rec.log_id
       PROVE  \/ k \in NotTruncated(recs) /\ (rec.type = "TruncateAfter" => Le(k, rec.log_id))
              \/ rec.type = "Append" /\ k = rec.log_id
  <2>1. CASE p \in 1 .. n
    BY <1>3, <1>5, <1>9, <1>10, <2>1
  <2>2. CASE p = n + 1
    BY <1>3, <1>5, <1>10, <2>2
  <2> QED
    BY <1>4, <1>5, <1>10, <2>1, <2>2
<1>11. ASSUME NEW p \in 1 .. n, Untruncated(recs, p), k = recs[p].rec.log_id,
              rec.type = "TruncateAfter" => Le(k, rec.log_id)
       PROVE  k \in NotTruncated(recs')
  BY <1>3, <1>5, <1>6, <1>7, <1>9, <1>11
<1>12. rec.type = "Append" /\ k = rec.log_id => k \in NotTruncated(recs')
  BY <1>3, <1>5, <1>6, <1>8, <1>9
<1> QED
  BY <1>9, <1>10, <1>11, <1>12

\* A record that is written: the ids that are left stay at or below `last`.
LEMMA AddedKept ==
  ASSUME RecoveryInv, KeptUpToLast(recs, snap), status = "up", NEW rec \in RaftLogRecord,
         Issued(rec), Added(rec)
  PROVE  KeptUpToLast(recs', snap')
<1>1. PICK n : n = Len(recs)
  OBVIOUS
<1>2. /\ n \in Nat /\ n > 0 /\ log_state \in RaftLogState
      /\ snap[n].log_state = log_state
      /\ Wal(recs, snap)
  BY <1>1, UpFacts DEF At, View
<1>3. /\ \A p \in 1 .. n : recs'[p] = recs[p] /\ snap'[p] = snap[p]
      /\ recs'[n + 1].rec = rec /\ snap'[n + 1].log_state = log_state'
      /\ log_state' = apply_state(log_state, rec) /\ check(log_state, rec)
  BY <1>1 DEF Added, Entry, View
<1>4. /\ \A p \in 1 .. Len(recs') :
           p \in 1 .. n \/ p = n + 1 \/ (p = n + 2 /\ Len(recs') = n + 2)
      /\ Len(recs') = n + 2 => snap'[n + 2].log_state = log_state'
  BY <1>1, AddedShape DEF View
<1>5. /\ \A p \in 1 .. n :
              Untruncated(recs', p) <=>
                /\ Untruncated(recs, p)
                /\ rec.type = "TruncateAfter" => Le(recs[p].rec.log_id, rec.log_id)
      /\ Untruncated(recs', n + 1) <=> rec.type = "Append"
      /\ Len(recs') = n + 2 => ~Untruncated(recs', n + 2)
  BY <1>1, AddedUntruncated
<1>6. rec.type = "Checkpoint" => Le(log_state.last, rec.state.last)
  <2>1. ASSUME NEW u \in UserDatas, rec.state = [log_state EXCEPT !.user_data = u]
        PROVE  rec.state.last = log_state.last
    BY <1>2, <2>1 DEF RaftLogState
  <2> QED
    BY <2>1 DEF Issued, Le
<1>7. SUFFICES ASSUME NEW p \in 1 .. Len(recs'), Untruncated(recs', p),
                      NEW q \in p .. Len(recs')
               PROVE  Le(recs'[p].rec.log_id, snap'[q].log_state.last)
  BY DEF KeptUpToLast
<1>8. Len(recs') \in Nat /\ q \in 1 .. Len(recs')
  BY <1>2, <1>7, AddedShape, <1>1
<1>9. q \notin 1 .. n => snap'[q].log_state = log_state'
  BY <1>3, <1>4, <1>8
<1>10. CASE p \in 1 .. n
  <2>1. PICK k : k = recs[p].rec.log_id
    OBVIOUS
  <2>2. /\ Untruncated(recs, p)
        /\ rec.type = "TruncateAfter" => Le(k, rec.log_id)
        /\ recs'[p].rec.log_id = k
    BY <1>3, <1>5, <1>7, <1>10, <2>1
  <2>3. \A i \in p .. n : Le(k, snap[i].log_state.last)
    BY <1>1, <1>10, <2>1, <2>2 DEF KeptUpToLast
  <2>4. CASE q \in 1 .. n
    <3>1. q \in p .. n
      BY <1>7, <2>4
    <3> QED
      BY <1>3, <2>2, <2>3, <2>4, <3>1
  <2>5. CASE q \notin 1 .. n
    <3>1. n \in p .. n
      BY <1>2, <1>10
    <3>2. k \in OptLogId
      <4>1. recs[p].rec \in RaftLogRecord /\ recs[p].rec.type = "Append"
        BY <1>1, <1>2, <1>10, <2>2, WalTypes DEF Untruncated
      <4> QED
        BY <2>1, <4>1, RecordTypes DEF OptLogId
    <3>3. Le(k, log_state.last)
      BY <1>2, <2>3, <3>1
    <3>4. Le(k, log_state'.last)
      BY <1>2, <1>3, <1>6, <2>2, <3>2, <3>3, LastKept
    <3> QED
      BY <1>9, <2>2, <2>5, <3>4
  <2> QED
    BY <2>4, <2>5
<1>11. CASE p = n + 1
  <2>1. q \notin 1 .. n
    BY <1>2, <1>7, <1>11
  <2>2. rec.type = "Append"
    BY <1>5, <1>7, <1>11
  <2>3. log_state' = [log_state EXCEPT !.last = rec.log_id]
    BY <1>3, <2>2, ApplyStateCases, Zenon
  <2>4. log_state'.last = rec.log_id
    BY <1>2, <2>3 DEF RaftLogState
  <2> QED
    BY <1>3, <1>9, <1>11, <2>1, <2>4 DEF Le
<1> QED
  BY <1>4, <1>5, <1>7, <1>10, <1>11

\* A record that is written: the cache takes it in, and gives up only what is
\* evictable or truncated.
LEMMA AddedAccounts ==
  ASSUME RecoveryInv, status = "up", NEW rec \in RaftLogRecord, Added(rec), NEW id,
         cache.last_evictable = id, Accounts(cache, recs, id)
  PROVE  Accounts(cache', recs', id)
<1>1. IsCache(cache) /\ cache' = apply_cache(cache, rec)
  BY DEF RecoveryInv, TypeInv, TypeOK, Added
<1>2. /\ \A k \in Keys(cache') :
           (rec.type = "Append" /\ k = rec.log_id) \/ k \in Keys(cache)
      /\ \A k : k \in Keys(cache) \/ (rec.type = "Append" /\ k = rec.log_id) =>
           \/ k \in Keys(cache') \/ Le(k, id)
           \/ rec.type = "TruncateAfter" /\ Lt(rec.log_id, k)
  BY <1>1, ApplyCacheKeys
<1>3. \A k \in Keys(cache') : rec.type = "TruncateAfter" => Le(k, rec.log_id)
  BY <1>1, TruncatedKeys
<1>4. \A k \in Keys(cache') : k \in NotTruncated(recs')
  BY <1>2, <1>3, AddedNotTruncated DEF Accounts
<1>5. ASSUME NEW k \in NotTruncated(recs')
      PROVE  k \in Keys(cache') \/ Le(k, id)
  <2>1. CASE rec.type = "Append" /\ k = rec.log_id
    BY <1>2, <2>1
  <2>2. CASE k \in NotTruncated(recs) /\ (rec.type = "TruncateAfter" => Le(k, rec.log_id))
    <3>1. k \in Keys(cache) \/ Le(k, id)
      BY <2>2 DEF Accounts
    <3>2. CASE k \in Keys(cache)
      <4>1. k \in OptLogId
        BY <1>1, <3>2 DEF IsCache, Keys, OptLogId
      <4>2. rec.type = "TruncateAfter" => rec.log_id \in OptLogId
        BY RecordTypes
      <4>3. ~(rec.type = "TruncateAfter" /\ Lt(rec.log_id, k))
        BY <2>2, <4>1, <4>2, IdOrder DEF Le
      <4> QED
        BY <1>2, <3>2, <4>3
    <3> QED
      BY <3>1, <3>2
  <2> QED
    BY <1>5, <2>1, <2>2, AddedNotTruncated
<1> QED
  BY <1>4, <1>5 DEF Accounts

\* Records that follow do not move the boundary of the last sync.
LEMMA BoundaryKept ==
  ASSUME RecoveryInv, \A p \in 1 .. Len(recs) : recs'[p] = recs[p],
         synced' = synced, first_chunk' = first_chunk
  PROVE  SyncedBoundary' = SyncedBoundary
<1>1. /\ Wal(recs, snap) /\ History(recs, snap) /\ Len(recs) \in Nat /\ synced \in Nat
      /\ synced <= Len(recs)
  BY DiskFacts
<1>2. CASE synced = 0
  BY <1>2 DEF SyncedBoundary
<1>3. CASE synced # 0
  <2>1. PICK c : c = recs[synced].chunk
    OBVIOUS
  <2>2. synced \in 1 .. Len(recs)
    BY <1>1, <1>3
  <2>3. c \in Nat /\ c < synced
    BY <1>1, <2>1, <2>2, LeadingStateReached
  <2>4. recs'[synced] = recs[synced] /\ recs'[c + 1] = recs[c + 1]
    BY <1>1, <2>2, <2>3
  <2>5. LeadingState(c)' = LeadingState(c)
    BY <2>4 DEF LeadingState
  <2>6. SyncedBoundary = IF c = first_chunk THEN None ELSE LeadingState(c).last
    BY <1>3, <2>1 DEF SyncedBoundary
  <2>7. SyncedBoundary' = IF c = first_chunk THEN None ELSE LeadingState(c)'.last
    BY <1>3, <2>1, <2>4 DEF SyncedBoundary
  <2> QED
    BY <2>5, <2>6, <2>7
<1> QED
  BY <1>2, <1>3

\* What was lost at the end of a chunk was appended before it and not truncated
\* since, so the ends of later chunks reach it as well.
LEMMA LostReached ==
  ASSUME NEW r, NEW h, Wal(r, h), FreshHistory(r, h), KeptUpToLast(r, h),
         NEW b \in 1 .. Len(r), NEW c \in b .. Len(r), NEW k \in NotTruncated(r),
         Le(k, h[b].log_state.last)
  PROVE  Le(k, h[c].log_state.last)
<1>1. PICK p \in 1 .. Len(r) : Untruncated(r, p) /\ k = r[p].rec.log_id
  BY NotTruncatedMembers
<1>2. Len(r) \in Nat /\ r[p].rec \in RaftLogRecord /\ h[b].log_state \in RaftLogState
  BY WalTypes
<1>3. r[p].rec.type = "Append"
  BY <1>1 DEF Untruncated
<1>4. k \in OptLogId /\ h[b].log_state.last \in OptLogId
  BY <1>1, <1>2, <1>3, RecordTypes DEF OptLogId, RaftLogState
<1>5. p <= b
  <2>1. SUFFICES ASSUME b < p PROVE FALSE
    BY <1>2
  <2>2. b \in 1 .. p - 1
    BY <1>2, <2>1
  <2>3. Lt(h[b].log_state.last, k)
    BY <1>1, <1>3, <2>2 DEF FreshHistory
  <2> QED
    BY <1>4, <2>3, IdOrder DEF Le
<1>6. c \in p .. Len(r)
  BY <1>2, <1>5
<1> QED
  BY <1>1, <1>6 DEF KeptUpToLast

\* Where the boundary of the last sync lies in a store that has not crashed.
LEMMA BoundaryPlace ==
  ASSUME RecoveryInv, first_chunk = 0
  PROVE  \/ SyncedBoundary = None /\ (synced = 0 \/ recs[synced].chunk = 0)
         \/ /\ synced \in 1 .. Len(recs) /\ recs[synced].chunk \in 1 .. synced
            /\ SyncedBoundary = snap[recs[synced].chunk].log_state.last
<1>1. /\ Wal(recs, snap) /\ History(recs, snap) /\ Len(recs) \in Nat /\ synced \in Nat
      /\ synced <= Len(recs)
  BY DiskFacts
<1>2. CASE synced = 0
  BY <1>2 DEF SyncedBoundary
<1>3. CASE synced # 0
  <2>1. PICK c : c = recs[synced].chunk
    OBVIOUS
  <2>2. synced \in 1 .. Len(recs)
    BY <1>1, <1>3
  <2>3. c \in Nat /\ c < synced /\ recs[c + 1].rec.state = At(snap, c).log_state
    BY <1>1, <2>1, <2>2, LeadingStateReached
  <2>4. CASE c = 0
    BY <2>1, <2>4 DEF SyncedBoundary
  <2>5. CASE c # 0
    <3>1. At(snap, c) = snap[c]
      BY <2>5 DEF At
    <3>2. SyncedBoundary = recs[c + 1].rec.state.last
      BY <1>3, <2>1, <2>5 DEF SyncedBoundary, LeadingState
    <3>3. c \in 1 .. synced
      BY <1>1, <2>3, <2>5
    <3> QED
      BY <2>1, <2>2, <2>3, <3>1, <3>2, <3>3
  <2> QED
    BY <2>4, <2>5
<1> QED
  BY <1>2, <1>3

\* A sync moves the boundary: nothing above it is missing from the cache.
LEMMA SyncDrain ==
  ASSUME RecoveryInv, FreshHistory(recs, snap), DrainInv, crashes = 0, WorkerSync
  PROVE  DrainInv'
<1>1. /\ status = "up" /\ queue # <<>> /\ Head(queue).type = "Write"
      /\ written = Head(queue).upto /\ synced' = written
      /\ cache' = on_chunk_persisted(Head(queue).chunk)
      /\ UNCHANGED <<status, recs, snap, first_chunk, torn, files, crashes>>
  BY DEF WorkerSync, Serving, wal, disk
<1>2. /\ queue \in Seq(Requests) /\ Covers(queue, recs) /\ Wal(recs, snap)
      /\ History(recs, snap) /\ Len(recs) \in Nat /\ synced \in Nat /\ written \in Nat
      /\ synced <= written
  BY DiskFacts
<1>3. PICK u, c : u = written /\ c = Head(queue).chunk
  OBVIOUS
<1>4. u \in 1 .. Len(recs) /\ c = recs[u].chunk
  BY <1>1, <1>2, <1>3, CoversTail
<1>5. /\ first_chunk = 0 /\ ~torn /\ cache.last_evictable = SyncedBoundary
      /\ KeptUpToLast(recs, snap) /\ Accounts(cache, recs, SyncedBoundary)
  BY DEF DrainInv, FirstRun
<1>6. Keys(cache') = Keys(cache)
  BY <1>1 DEF on_chunk_persisted, set_last_evictable, Cache, Keys
<1>7. \/ SyncedBoundary' = None /\ c = 0
      \/ c \in 1 .. u /\ SyncedBoundary' = snap[c].log_state.last
  <2>1. first_chunk' = 0 /\ synced' = u /\ recs' = recs /\ u # 0
    BY <1>1, <1>3, <1>4, <1>5
  <2>2. SyncedBoundary' = IF c = 0 THEN None ELSE recs[c + 1].rec.state.last
    BY <1>4, <2>1 DEF SyncedBoundary, LeadingState
  <2>3. c \in Nat /\ c < u /\ recs[c + 1].rec.state = At(snap, c).log_state
    BY <1>2, <1>4, LeadingStateReached
  <2>4. c # 0 => c \in 1 .. u /\ At(snap, c) = snap[c]
    BY <1>4, <2>3 DEF At
  <2> QED
    BY <2>2, <2>3, <2>4
<1>8. CASE c = 0
  <2>1. SyncedBoundary = None
    <3>1. SUFFICES ASSUME synced \in 1 .. Len(recs), recs[synced].chunk \in 1 .. synced
                   PROVE  FALSE
      BY <1>5, BoundaryPlace
    <3>2. recs[synced].chunk <= recs[u].chunk
      BY <1>2, <1>3, <1>4, <3>1 DEF History, ChunksAscend
    <3> QED
      BY <1>2, <1>4, <1>8, <3>1, <3>2
  <2>2. cache' = cache /\ SyncedBoundary' = None
    BY <1>1, <1>3, <1>5, <1>7, <1>8 DEF on_chunk_persisted
  <2> QED
    BY <1>1, <1>5, <2>1, <2>2 DEF DrainInv, FirstRun
<1>9. CASE c # 0
  <2>1. c \in 1 .. u /\ SyncedBoundary' = snap[c].log_state.last
    BY <1>7, <1>9
  <2>2. cache'.last_evictable = SyncedBoundary'
    <3>1. recs[c + 1].rec.state = At(snap, c).log_state
      BY <1>2, <1>4, LeadingStateReached
    <3>2. At(snap, c) = snap[c]
      BY <1>9 DEF At
    <3>3. cache' = set_last_evictable(cache, recs[c + 1].rec.state.last)
      BY <1>1, <1>3, <1>5, <1>9 DEF on_chunk_persisted, LeadingState
    <3> QED
      BY <2>1, <3>1, <3>2, <3>3 DEF set_last_evictable, Cache
  <2>3. ASSUME NEW k \in NotTruncated(recs), k \notin Keys(cache)
        PROVE  Le(k, SyncedBoundary')
    <3>1. Le(k, SyncedBoundary)
      BY <1>5, <2>3 DEF Accounts
    <3>2. SyncedBoundary # None
      <4>1. PICK p \in 1 .. Len(recs) : Untruncated(recs, p) /\ k = recs[p].rec.log_id
        BY <2>3, NotTruncatedMembers
      <4>2. recs[p].rec \in RaftLogRecord /\ recs[p].rec.type = "Append"
        BY <1>2, <4>1, WalTypes DEF Untruncated
      <4>3. k \in LogId
        BY <4>1, <4>2, RecordTypes
      <4>4. k \in OptLogId /\ k # None
        BY <4>3 DEF OptLogId, LogId, None
      <4> QED
        BY <3>1, <4>4, IdIndex DEF Le
    <3>3. PICK b : b = recs[synced].chunk
      OBVIOUS
    <3>4. synced \in 1 .. Len(recs) /\ b \in 1 .. synced /\ SyncedBoundary = snap[b].log_state.last
      BY <1>5, <3>2, <3>3, BoundaryPlace
    <3>5. b <= c
      BY <1>2, <1>3, <1>4, <3>3, <3>4 DEF History, ChunksAscend
    <3>6. b \in 1 .. Len(recs) /\ c \in b .. Len(recs)
      BY <1>2, <1>4, <2>1, <3>4, <3>5
    <3> QED
      BY <1>2, <1>5, <2>1, <2>3, <3>1, <3>4, <3>6, LostReached
  <2>4. Accounts(cache', recs, SyncedBoundary')
    BY <1>5, <1>6, <2>3 DEF Accounts
  <2> QED
    BY <1>1, <1>5, <2>2, <2>4 DEF DrainInv, FirstRun
<1> QED
  BY <1>8, <1>9

\* A step that leaves records, boundary and sync alone, and takes at most what
\* is evictable from the cache.
LEMMA QuietDrain ==
  ASSUME RecoveryInv, DrainInv, crashes = 0, status = "up",
         UNCHANGED <<status, recs, snap, first_chunk, torn, synced, crashes>>,
         cache'.last_evictable = cache.last_evictable,
         \A k \in Keys(cache') : k \in Keys(cache),
         \A k \in Keys(cache) : k \in Keys(cache') \/ Le(k, cache.last_evictable)
  PROVE  DrainInv'
<1>1. /\ first_chunk = 0 /\ ~torn /\ cache.last_evictable = SyncedBoundary
      /\ KeptUpToLast(recs, snap) /\ Accounts(cache, recs, SyncedBoundary)
  BY DEF DrainInv, FirstRun
<1>2. SyncedBoundary' = SyncedBoundary
  BY BoundaryKept
<1>3. Accounts(cache', recs', SyncedBoundary')
  BY <1>1, <1>2 DEF Accounts
<1> QED
  BY <1>1, <1>2, <1>3 DEF DrainInv, FirstRun

\* The operations of a caller.
LEMMA CallerDrain ==
  ASSUME RecoveryInv, DrainInv, crashes = 0, Caller, Obliged
  PROVE  DrainInv'
<1>1. ASSUME NEW rec \in RaftLogRecord, Writes(rec) PROVE DrainInv'
  <2>1. PICK buffer \in BOOLEAN : append_and_apply(rec, buffer)
    BY <1>1 DEF Writes
  <2>2. status = "up" /\ Issued(rec) /\ Added(rec)
    BY <1>1, <2>1, RecordAdded DEF Writes
  <2>3. UNCHANGED <<status, first_chunk, torn, synced, crashes>>
    BY <2>1 DEF append_and_apply
  <2>4. /\ first_chunk = 0 /\ ~torn /\ cache.last_evictable = SyncedBoundary
        /\ KeptUpToLast(recs, snap) /\ Accounts(cache, recs, SyncedBoundary)
    BY DEF DrainInv, FirstRun
  <2>5. SyncedBoundary' = SyncedBoundary
    <3>1. \A p \in 1 .. Len(recs) : recs'[p] = recs[p]
      BY <2>2 DEF Added
    <3> QED
      BY <2>3, <3>1, BoundaryKept
  <2>6. cache'.last_evictable = cache.last_evictable
    <3>1. IsCache(cache) /\ cache' = apply_cache(cache, rec)
      BY <2>2 DEF RecoveryInv, TypeInv, TypeOK, Added
    <3> QED
      BY <3>1, ApplyCacheKeys
  <2>7. KeptUpToLast(recs', snap')
    BY <2>2, <2>4, AddedKept
  <2>8. Accounts(cache', recs', SyncedBoundary)
    BY <2>2, <2>4, AddedAccounts
  <2> QED
    BY <2>2, <2>3, <2>4, <2>5, <2>6, <2>7, <2>8 DEF DrainInv, FirstRun
<1>2. ASSUME NEW sync \in BOOLEAN, flush(sync) PROVE DrainInv'
  <2>1. /\ status = "up" /\ cache' = cache
        /\ UNCHANGED <<status, recs, snap, first_chunk, torn, synced, crashes>>
    BY <1>2 DEF flush, Ready, mem, disk
  <2> QED
    BY <2>1, QuietDrain
<1>3. CASE append_reject
  <2>1. /\ status = "up" /\ cache' = cache
        /\ UNCHANGED <<status, recs, snap, first_chunk, torn, synced, crashes>>
    BY <1>3 DEF append_reject, wal, worker, disk
  <2> QED
    BY <2>1, QuietDrain
<1>4. CASE drain_cache_evictable
  <2>1. /\ status = "up" /\ cache' = drain_evictable(cache)
        /\ UNCHANGED <<status, recs, snap, first_chunk, torn, synced, crashes>>
    BY <1>4 DEF drain_cache_evictable, Ready, wal, worker, disk
  <2>2. /\ cache'.last_evictable = cache.last_evictable
        /\ Keys(cache') = Keys(cache) \ {k \in Keys(cache) : Le(k, cache.last_evictable)}
    BY <2>1, WithoutKeys DEF drain_evictable, IsEvictable
  <2>3. /\ \A k \in Keys(cache') : k \in Keys(cache)
        /\ \A k \in Keys(cache) : k \in Keys(cache') \/ Le(k, cache.last_evictable)
    BY <2>2
  <2> QED
    BY <2>1, <2>2, <2>3, QuietDrain
<1> QED
  BY <1>1, <1>2, <1>3, <1>4, CallerSteps

\* RaftLog::open of a store that has nothing yet.
LEMMA OpenDrain ==
  ASSUME RecoveryInv, DrainInv, crashes = 0, open
  PROVE  DrainInv'
<1>1. /\ first_chunk = 0 /\ ~torn /\ cache.last_evictable = SyncedBoundary
  BY DEF DrainInv, FirstRun
<1>2. status # "up" /\ crashes' = crashes
  BY DEF open, OpenStart, ReplayRecord, OpenFinish, disk
<1>3. Len(recs) = 0 /\ files = {} /\ Keys(cache) = {} /\ synced = 0
  <2>1. Len(recs) = 0 /\ files = {} /\ Keys(cache) = {}
    BY <1>2 DEF DrainInv, FirstRun
  <2> QED
    BY <2>1, DiskFacts
<1>4. SyncedBoundary = None
  BY <1>3 DEF SyncedBoundary
<1>5. CASE OpenStart
  <2>1. /\ UNCHANGED <<recs, snap, first_chunk, torn, synced, files, cache>> /\ status' # "up"
    BY <1>3, <1>5 DEF OpenStart, mem, worker, disk
  <2>2. SyncedBoundary' = None
    BY <1>3, <2>1 DEF SyncedBoundary
  <2> QED
    BY <1>1, <1>3, <1>4, <2>1, <2>2 DEF DrainInv, FirstRun
<1>6. CASE ReplayRecord
  <2>1. rp < Len(recs) /\ rp \in Nat
    BY <1>6, DiskFacts DEF ReplayRecord
  <2> QED
    BY <1>3, <2>1
<1>7. CASE OpenFinish
  <2>1. /\ status' = "up" /\ first_chunk' = Len(recs) /\ ~torn' /\ synced' = synced
        /\ cache' = cache
        /\ recs' = Append(recs, Entry(Len(recs), CheckpointRecord(log_state)))
    BY <1>1, <1>3, <1>7 DEF OpenFinish
  <2>2. PICK e : e = Entry(Len(recs), CheckpointRecord(log_state))
    OBVIOUS
  <2>3. e.rec.type = "Checkpoint"
    BY <2>2 DEF Entry, CheckpointRecord
  <2>4. recs \in Seq(WalEntry)
    BY DiskFacts DEF Wal
  <2>5. Len(recs') = 1 /\ recs'[1] = e
    BY <1>3, <2>1, <2>2, <2>4
  <2>6. \A p \in 1 .. Len(recs') : ~Untruncated(recs', p)
    BY <2>3, <2>5 DEF Untruncated
  <2>7. NotTruncated(recs') = {}
    <3>1. \A k : k \notin NotTruncated(recs')
      BY <2>6, NotTruncatedMembers
    <3> QED
      BY <3>1
  <2>8. SyncedBoundary' = None
    BY <1>3, <2>1 DEF SyncedBoundary
  <2>9. KeptUpToLast(recs', snap')
    BY <2>6 DEF KeptUpToLast
  <2>10. Accounts(cache', recs', SyncedBoundary')
    BY <1>3, <2>1, <2>7 DEF Accounts
  <2> QED
    BY <1>1, <1>3, <1>4, <2>1, <2>8, <2>9, <2>10 DEF DrainInv, FirstRun
<1> QED
  BY <1>5, <1>6, <1>7 DEF open

\* Every step keeps the account of the cache.
LEMMA NextDrain ==
  ASSUME RecoveryInv, FreshInv, DrainInv, [Next]_vars, Obliged, "fresh_ids" \in Contract
  PROVE  DrainInv'
<1>1. crashes \in Nat
  BY DEF RecoveryInv, TypeInv, TypeOK
<1>2. CASE UNCHANGED vars
  BY <1>2 DEF vars, mem, wal, worker, disk, DrainInv, FirstRun, SyncedBoundary, LeadingState
<1>3. CASE crashes # 0
  <2>1. crashes' = crashes \/ crashes' = crashes + 1
    BY DEF Next, vars, disk, Caller, FlushWorker, open, Fail, Crash, save_vote,
       save_user_data, append, append_next, append_reject, truncate, purge, commit,
       update_state, flush, drain_cache_evictable, append_and_apply, WorkerWrite,
       WorkerSync, WorkerRemove, OpenStart, ReplayRecord, OpenFinish
  <2>2. crashes' # 0
    BY <1>1, <1>3, <2>1
  <2> QED
    BY <2>2 DEF DrainInv
<1>4. CASE crashes = 0 /\ WorkerSync
  BY <1>4, SyncDrain DEF FreshInv
<1>5. CASE crashes = 0 /\ (WorkerWrite \/ WorkerRemove)
  <2>1. /\ status = "up" /\ cache' = cache
        /\ UNCHANGED <<status, recs, snap, first_chunk, torn, synced, crashes>>
    BY <1>5 DEF WorkerWrite, WorkerRemove, Serving, mem, wal, disk
  <2> QED
    BY <1>5, <2>1, QuietDrain
<1>6. CASE Fail
  <2>1. crashes' = crashes + 1
    BY <1>6 DEF Fail, Crash
  <2> QED
    BY <1>1, <2>1 DEF DrainInv
<1> QED
  BY <1>2, <1>3, <1>4, <1>5, <1>6, CallerDrain, OpenDrain DEF Next, FlushWorker

\* With callers that append fresh ids, the cache of a store that has not crashed
\* has lost nothing above the boundary of the last sync.
THEOREM DrainInvHolds ==
  Obliged /\ "fresh_ids" \in Contract => (Spec => []DrainInv)
<1> SUFFICES ASSUME Obliged, "fresh_ids" \in Contract
             PROVE  Spec => []DrainInv
  OBVIOUS
<1>1. Init => DrainInv
  <2>1. ASSUME Init PROVE DrainInv
    <3>1. /\ first_chunk = 0 /\ ~torn /\ Len(recs) = 0 /\ files = {} /\ synced = 0
          /\ Keys(cache) = {} /\ cache.last_evictable = None
      BY <2>1 DEF Init, new_cache, Cache, Keys
    <3>2. SyncedBoundary = None
      BY <3>1 DEF SyncedBoundary
    <3>3. \A k : k \notin NotTruncated(recs)
      BY <3>1, NotTruncatedMembers
    <3> QED
      BY <3>1, <3>2, <3>3 DEF DrainInv, FirstRun, KeptUpToLast, Accounts
  <2> QED
    BY <2>1
<1>2. RecoveryInv /\ FreshInv /\ DrainInv /\ [Next]_vars => DrainInv'
  BY NextDrain
<1>3. Spec => []RecoveryInv
  BY RecoveryInvHolds
<1>4. Spec => []FreshInv
  BY FreshInvHolds
<1> QED
  BY <1>1, <1>2, <1>3, <1>4, PTL DEF Spec

\* "to normalize the cache to a deterministic state": whenever the FlushWorker
\* ran and whatever the limits evicted, draining the cache leaves exactly the
\* payloads not truncated that lie above the boundary of the last sync
\* (RaftLog::drain_cache_evictable).
THEOREM DrainAlwaysNormalizes ==
  Obliged /\ "fresh_ids" \in Contract => (Spec => []DrainNormalizes)
<1> SUFFICES ASSUME Obliged, "fresh_ids" \in Contract
             PROVE  Spec => []DrainNormalizes
  OBVIOUS
<1>1. RecoveryInv /\ DrainInv => DrainNormalizes
  <2>1. SUFFICES ASSUME RecoveryInv, DrainInv, crashes = 0
                 PROVE  Keys(drain_evictable(cache)) =
                          {k \in NotTruncated(recs) : Lt(SyncedBoundary, k)}
    BY DEF DrainNormalizes
  <2>2. /\ cache.last_evictable = SyncedBoundary /\ Accounts(cache, recs, SyncedBoundary)
    BY <2>1 DEF DrainInv
  <2>3. IsCache(cache)
    BY <2>1 DEF RecoveryInv, TypeInv, TypeOK
  <2>4. SyncedBoundary \in OptLogId /\ \A k \in Keys(cache) : k \in OptLogId
    BY <2>2, <2>3 DEF IsCache, Keys, OptLogId
  <2>5. Keys(drain_evictable(cache)) = {k \in Keys(cache) : ~Le(k, SyncedBoundary)}
    BY <2>2, WithoutKeys DEF drain_evictable, IsEvictable
  <2>6. ASSUME NEW k \in Keys(cache)
        PROVE  ~Le(k, SyncedBoundary) <=> Lt(SyncedBoundary, k)
    BY <2>4, IdOrder DEF Le
  <2>7. ASSUME NEW k \in NotTruncated(recs), Lt(SyncedBoundary, k)
        PROVE  k \in Keys(cache)
    <3>1. PICK p \in 1 .. Len(recs) : Untruncated(recs, p) /\ k = recs[p].rec.log_id
      BY <2>7, NotTruncatedMembers
    <3>2. recs[p].rec \in RaftLogRecord /\ recs[p].rec.type = "Append"
      BY <2>1, <3>1, DiskFacts, WalTypes DEF Untruncated
    <3>3. k \in OptLogId
      BY <3>1, <3>2, RecordTypes DEF OptLogId
    <3>4. ~Le(k, SyncedBoundary)
      BY <2>4, <2>7, <3>3, IdOrder DEF Le
    <3> QED
      BY <2>2, <2>7, <3>4 DEF Accounts
  <2> QED
    BY <2>2, <2>5, <2>6, <2>7 DEF Accounts
<1>2. Spec => []RecoveryInv
  BY RecoveryInvHolds
<1>3. Spec => []DrainInv
  BY DrainInvHolds
<1> QED
  BY <1>1, <1>2, <1>3, PTL

---------------------------------------------------------------------------
(* What the cache accounts for.                                            *)

\* RaftLogStateMachine::apply: the size goes on covering the payloads, and stays
\* exact unless an append replaces a payload.
LEMMA ApplyCovered ==
  ASSUME NEW c, IsCache(c), Covered(c), NEW rec \in RaftLogRecord
  PROVE  LET d == apply_cache(c, rec) IN
         /\ Covered(d)
         /\ Slack(c) = 0 /\ (rec.type = "Append" => rec.log_id \notin Keys(c)) => Slack(d) = 0
<1>1. PICK d : d = apply_cache(c, rec)
  OBVIOUS
<1>2. CASE rec.type = "Append"
  <2>1. d = cache_insert(c, rec.log_id, rec.payload)
    BY <1>1, <1>2, Zenon DEF apply_cache
  <2>2. rec.log_id \in LogId /\ rec.payload \in Payload
    BY <1>2, RecordTypes
  <2> QED
    BY <1>1, <1>2, <2>1, <2>2, InsertCovered
<1>3. ASSUME NEW S \in SUBSET Keys(c), d = Without(c, S)
      PROVE  Covered(d) /\ Slack(d) = Slack(c)
  BY <1>3, WithoutCovered
<1>4. CASE rec.type = "TruncateAfter"
  <2>1. CASE rec.log_id = None
    <3>1. d = Cache([k \in {} |-> 0], 0, c.last_evictable)
      BY <1>1, <1>4, <2>1, Zenon DEF apply_cache, cache_clear
    <3>2. c.last_evictable \in OptLogId
      BY DEF IsCache
    <3> QED
      BY <1>1, <3>1, <3>2, EmptyCache
  <2>2. CASE rec.log_id # None
    <3>1. d = Without(c, {k \in Keys(c) : Lt(rec.log_id, k)})
      BY <1>1, <1>4, <2>2, Zenon DEF apply_cache, cache_truncate_after
    <3> QED
      BY <1>1, <1>3, <3>1
  <2> QED
    BY <2>1, <2>2
<1>5. CASE rec.type = "PurgeUpto"
  <2>1. d = Without(c, {k \in Keys(c) : Le(k, rec.log_id) /\ IsEvictable(c, k)})
    BY <1>1, <1>5, Zenon DEF apply_cache, cache_purge_upto
  <2> QED
    BY <1>1, <1>3, <2>1
<1>6. CASE rec.type \in {"SaveVote", "Commit", "Checkpoint"}
  <2>1. d = c
    BY <1>1, <1>6, Zenon DEF apply_cache
  <2> QED
    BY <1>1, <2>1
<1> QED
  BY <1>2, <1>4, <1>5, <1>6, RecordTypes

\* The log reached every id it took in, so that a fresh one is not in the cache.
LEMMA FreshNotCached ==
  ASSUME NEW c, NEW r, NEW h, Wal(r, h), History(r, h), FreshHistory(r, h),
         NEW n \in Nat, n + 1 \in 1 .. Len(r), LatestIn(c, r, n),
         r[n + 1].rec.type = "Append"
  PROVE  r[n + 1].rec.log_id \notin Keys(c)
<1>1. SUFFICES ASSUME NEW k \in Keys(c), k = r[n + 1].rec.log_id PROVE FALSE
  OBVIOUS
<1>2. PICK p \in 1 .. n : r[p].rec = AppendAction(k, c.cache[k])
  BY DEF LatestIn
<1>3. Len(r) \in Nat /\ p \in 1 .. Len(r) /\ p \in 1 .. (n + 1) - 1 /\ p - 1 \in 0 .. Len(r)
  BY <1>2, WalTypes
<1>4. r[p].rec.type = "Append" /\ r[p].rec.log_id = k
  BY <1>2 DEF AppendAction
<1>5. PICK s : s = At(h, p - 1).log_state
  OBVIOUS
<1>6. h[p].log_state = apply_state(s, r[p].rec) /\ s \in RaftLogState
  BY <1>3, <1>5, WalTypes DEF History, RecordsBuild, Builds
<1>7. h[p].log_state.last = k
  <2>1. h[p].log_state = [s EXCEPT !.last = k]
    BY <1>4, <1>6, ApplyStateCases
  <2> QED
    BY <1>6, <2>1 DEF RaftLogState
<1>8. Lt(h[p].log_state.last, r[n + 1].rec.log_id)
  BY <1>3 DEF FreshHistory
<1>9. k \in OptLogId
  BY <1>1, WalTypes, RecordTypes DEF OptLogId
<1> QED
  BY <1>1, <1>7, <1>8, <1>9, IdOrder

\* What a step may do to the cache.
LEMMA CacheSteps ==
  ASSUME RecoveryInv, RecoveryInv', CacheInv, FreshInv, FreshInv', OpenSucceeds',
         [Next]_vars, Obliged
  PROVE  \/ cache' = cache \/ cache' = new_cache
         \/ \E id : cache' = set_last_evictable(cache, id)
         \/ \E S \in SUBSET Keys(cache) : cache' = Without(cache, S)
         \/ \E c : \E rec \in RaftLogRecord :
              /\ c = cache \/ \E id \in OptLogId : c = set_last_evictable(cache, id)
              /\ cache' = apply_cache(c, rec)
              /\ "fresh_ids" \in Contract /\ rec.type = "Append" =>
                   rec.log_id \notin Keys(cache)
<1> DEFINE Applies(c, rec) ==
             /\ c = cache \/ \E id \in OptLogId : c = set_last_evictable(cache, id)
             /\ cache' = apply_cache(c, rec)
             /\ "fresh_ids" \in Contract /\ rec.type = "Append" =>
                  rec.log_id \notin Keys(cache)
<1>1. ASSUME NEW rec \in RaftLogRecord, Writes(rec) PROVE Applies(cache, rec)
  <2>1. PICK n : n = Len(recs)
    OBVIOUS
  <2>2. status = "up" /\ Added(rec)
    BY <1>1, RecordAdded DEF Writes
  <2>3. /\ n \in Nat /\ cache' = apply_cache(cache, rec)
        /\ \A p \in 1 .. n : recs'[p] = recs[p]
        /\ recs'[n + 1] = Entry(open_chunk, rec)
        /\ Len(recs') = n + 1 \/ Len(recs') = n + 2
    BY <2>1, <2>2, DiskFacts DEF Added
  <2>4. recs'[n + 1].rec = rec /\ n + 1 \in 1 .. Len(recs')
    BY <2>3 DEF Entry
  <2>5. LatestIn(cache, recs, n)
    BY <2>1, <2>2 DEF CacheInv, CachedLatest, Applied
  <2>6. LatestIn(cache, recs', n)
    <3>1. ASSUME NEW k \in Keys(cache)
          PROVE  \E p \in 1 .. n :
                   /\ recs'[p].rec = AppendAction(k, cache.cache[k])
                   /\ \A q \in p + 1 .. n : recs'[q].rec.type = "Append" => recs'[q].rec.log_id # k
      <4>1. PICK p \in 1 .. n :
                   /\ recs[p].rec = AppendAction(k, cache.cache[k])
                   /\ \A q \in p + 1 .. n : recs[q].rec.type = "Append" => recs[q].rec.log_id # k
        BY <2>5 DEF LatestIn
      <4>2. \A q \in p + 1 .. n : q \in 1 .. n
        BY <2>3
      <4> QED
        BY <2>3, <4>1, <4>2
    <3> QED
      BY <3>1 DEF LatestIn
  <2>7. Wal(recs', snap') /\ History(recs', snap')
    BY DEF RecoveryInv, HistoryInv, TypeInv, TypeOK, Structure, ChunksLed, Wal, WalEntry
  <2>8. ASSUME "fresh_ids" \in Contract, rec.type = "Append"
        PROVE  rec.log_id \notin Keys(cache)
    <3>1. FreshHistory(recs', snap')
      BY <2>8 DEF FreshInv
    <3>2. PICK r, h : r = recs' /\ h = snap'
      OBVIOUS
    <3>3. /\ Wal(r, h) /\ History(r, h) /\ FreshHistory(r, h) /\ LatestIn(cache, r, n)
          /\ n + 1 \in 1 .. Len(r) /\ r[n + 1].rec = rec
      BY <2>4, <2>6, <2>7, <3>1, <3>2
    <3> QED
      BY <2>3, <2>8, <3>3, FreshNotCached
  <2> QED
    BY <2>3, <2>8
<1>2. CASE Caller
  <2>1. ASSUME NEW sync \in BOOLEAN, flush(sync) PROVE cache' = cache
    BY <2>1 DEF flush, mem
  <2>2. ASSUME append_reject PROVE cache' = cache
    BY <2>2 DEF append_reject
  <2>3. ASSUME drain_cache_evictable
        PROVE  \E S \in SUBSET Keys(cache) : cache' = Without(cache, S)
    BY <2>3 DEF drain_cache_evictable, drain_evictable
  <2>4. ASSUME NEW rec \in RaftLogRecord, Writes(rec)
        PROVE  \E r \in RaftLogRecord : Applies(cache, r)
    <3>1. Applies(cache, rec)
      BY <1>1, <2>4
    <3> HIDE DEF Applies
    <3> QED
      BY <2>4, <3>1
  <2> HIDE DEF Applies
  <2>5. \/ cache' = cache
        \/ \E S \in SUBSET Keys(cache) : cache' = Without(cache, S)
        \/ \E rec \in RaftLogRecord : Applies(cache, rec)
    BY <1>2, <2>1, <2>2, <2>3, <2>4, CallerSteps
  <2> QED
    BY <2>5 DEF Applies
<1>3. CASE FlushWorker
  BY <1>3 DEF FlushWorker, WorkerWrite, WorkerSync, WorkerRemove, on_chunk_persisted, mem
<1>4. CASE Fail
  BY <1>4 DEF Fail, Crash
<1>5. CASE OpenStart \/ OpenFinish
  BY <1>5 DEF OpenStart, OpenFinish, mem
<1>6. CASE ReplayRecord
  <2>1. PICK rec, c : /\ rec = recs[rp + 1].rec
                      /\ c = IF recs[rp + 1].chunk # open_chunk
                               THEN set_last_evictable(cache, log_state.last) ELSE cache
    OBVIOUS
  <2>2. status = "replay" /\ rp < Len(recs)
    BY <1>6 DEF ReplayRecord
  <2>3. rp + 1 \in 1 .. Len(recs) /\ check(log_state, rec)
    BY <1>6, <2>1, <2>2, ReplayStep
  <2>4. cache' = apply_cache(c, rec)
    BY <1>6, <2>1, <2>3 DEF ReplayRecord
  <2>5. /\ rec \in RaftLogRecord /\ log_state.last \in OptLogId /\ rp \in Nat
        /\ Wal(recs, snap) /\ History(recs, snap)
    BY <2>1, <2>3, DiskFacts, WalTypes DEF RecoveryInv, TypeInv, TypeOK, RaftLogState
  <2>6. LatestIn(cache, recs, rp)
    BY <2>2 DEF CacheInv, CachedLatest, Applied
  <2>7. "fresh_ids" \in Contract /\ rec.type = "Append" => rec.log_id \notin Keys(cache)
    BY <2>1, <2>3, <2>5, <2>6, FreshNotCached DEF FreshInv
  <2>8. c = cache \/ \E id \in OptLogId : c = set_last_evictable(cache, id)
    BY <2>1, <2>5
  <2> QED
    BY <2>4, <2>5, <2>7, <2>8
<1>7. CASE UNCHANGED vars
  BY <1>7 DEF vars, mem
<1> HIDE DEF Applies
<1> QED
  BY <1>2, <1>3, <1>4, <1>5, <1>6, <1>7 DEF Next, open

\* Every step keeps the size covering the payloads, and exact with fresh ids.
LEMMA NextSize ==
  ASSUME RecoveryInv, RecoveryInv', CacheInv, FreshInv, FreshInv', OpenSucceeds',
         SizeInv, [Next]_vars, Obliged
  PROVE  SizeInv'
<1>1. IsCache(cache) /\ Covered(cache) /\ IsCache(cache')
  BY DEF RecoveryInv, TypeInv, TypeOK, SizeInv
<1>2. ASSUME NEW c, IsCache(c), Covered(c)
      PROVE  c.size = SizeOf(c, Keys(c)) <=> Slack(c) = 0
  <2>1. SizeOf(c, Keys(c)) \in Nat
    BY <1>2, KeysSized
  <2> QED
    BY <1>2, <2>1 DEF Covered, Slack
<1>3. "fresh_ids" \in Contract => Slack(cache) = 0
  BY <1>1, <1>2 DEF SizeInv, CacheSizeExact
<1>4. SUFFICES Covered(cache') /\ ("fresh_ids" \in Contract => Slack(cache') = 0)
  BY <1>1, <1>2, <1>4 DEF SizeInv, CacheSizeExact
<1>5. CASE cache' = cache
  BY <1>1, <1>3, <1>5
<1>6. CASE cache' = new_cache
  <2>1. None \in OptLogId
    BY DEF OptLogId
  <2> QED
    BY <1>6, <2>1, EmptyCache DEF new_cache
<1>7. ASSUME NEW id, cache' = set_last_evictable(cache, id)
      PROVE  Covered(cache') /\ ("fresh_ids" \in Contract => Slack(cache') = 0)
  BY <1>1, <1>3, <1>7, SetEvictableCovered
<1>8. ASSUME NEW S \in SUBSET Keys(cache), cache' = Without(cache, S)
      PROVE  Covered(cache') /\ ("fresh_ids" \in Contract => Slack(cache') = 0)
  BY <1>1, <1>3, <1>8, WithoutCovered
<1>9. ASSUME NEW c, NEW rec \in RaftLogRecord,
             c = cache \/ \E id \in OptLogId : c = set_last_evictable(cache, id),
             cache' = apply_cache(c, rec),
             "fresh_ids" \in Contract /\ rec.type = "Append" => rec.log_id \notin Keys(cache)
      PROVE  Covered(cache') /\ ("fresh_ids" \in Contract => Slack(cache') = 0)
  <2>1. IsCache(c) /\ Covered(c) /\ Slack(c) = Slack(cache) /\ Keys(c) = Keys(cache)
    BY <1>1, <1>9, SetEvictableCovered, SetEvictableType
  <2> QED
    BY <1>3, <1>9, <2>1, ApplyCovered
<1> QED
  BY <1>5, <1>6, <1>7, <1>8, <1>9, CacheSteps

\* The inductive invariant of the size (PayloadCache::size) holds.
THEOREM SizeInvHolds == Obliged => (Spec => []SizeInv)
<1> SUFFICES ASSUME Obliged
             PROVE  Spec => []SizeInv
  OBVIOUS
<1>1. Init => SizeInv
  <2>1. ASSUME Init PROVE SizeInv
    <3>1. cache = Cache([k \in {} |-> 0], 0, None) /\ None \in OptLogId
      BY <2>1 DEF Init, new_cache, OptLogId
    <3>2. IsCache(cache) /\ Covered(cache)
      BY <3>1, EmptyCache
    <3>3. Keys(cache) = {} /\ cache.size = 0
      BY <3>1 DEF Keys, Cache
    <3> QED
      BY <3>2, <3>3, SizeEmpty DEF SizeInv, CacheSizeExact
  <2> QED
    BY <2>1
<1>2. (RecoveryInv /\ RecoveryInv' /\ OpenSucceeds' /\ CacheInv /\ FreshInv /\ FreshInv'
         /\ SizeInv /\ [Next]_vars) => SizeInv'
  BY NextSize
<1>3. Spec => []RecoveryInv
  BY RecoveryInvHolds
<1>4. Spec => []OpenSucceeds
  BY OpenAlwaysSucceeds
<1>5. Spec => []CacheInv
  BY CacheInvHolds
<1>6. Spec => []FreshInv
  BY FreshInvHolds
<1> QED
  BY <1>1, <1>2, <1>3, <1>4, <1>5, <1>6, PTL DEF Spec

\* With callers that append fresh ids, the size the cache accounts for is the
\* size of what it holds, through evictions, truncations, purges, crashes and
\* replays (PayloadCache::size).
THEOREM CacheSizeAlwaysExact ==
  Obliged /\ "fresh_ids" \in Contract => (Spec => []CacheSizeExact)
<1> SUFFICES ASSUME Obliged, "fresh_ids" \in Contract
             PROVE  Spec => []CacheSizeExact
  OBVIOUS
<1>1. SizeInv => CacheSizeExact
  BY DEF SizeInv
<1> QED
  BY <1>1, SizeInvHolds, PTL

\* A step that appends evicts until the cache is within its limits.
LEMMA InsertWithinLimits ==
  ASSUME RecoveryInv, SizeInv, [Next]_vars, Obliged, status = "up",
         Len(recs') > Len(recs), recs'[Len(recs) + 1].rec.type = "Append"
  PROVE  \/ Cardinality(Keys(cache')) <= MaxItems /\ cache'.size <= Capacity
         \/ \A k \in Keys(cache') : ~IsEvictable(cache', k)
<1>1. ASSUME recs' = recs PROVE FALSE
  BY <1>1, DiskFacts
<1>2. ASSUME NEW rec \in RaftLogRecord, Writes(rec)
      PROVE  \/ Cardinality(Keys(cache')) <= MaxItems /\ cache'.size <= Capacity
             \/ \A k \in Keys(cache') : ~IsEvictable(cache', k)
  <2>1. Added(rec)
    BY <1>2, RecordAdded DEF Writes
  <2>2. recs'[Len(recs) + 1] = Entry(open_chunk, rec) /\ cache' = apply_cache(cache, rec)
    BY <2>1 DEF Added
  <2>3. rec.type = "Append"
    BY <2>2 DEF Entry
  <2>4. rec.log_id \in LogId /\ rec.payload \in Payload
    BY <2>3, RecordTypes
  <2>5. PICK b : b = Entered(cache, rec.log_id, rec.payload)
    OBVIOUS
  <2>6. IsCache(b) /\ Covered(b)
    BY <2>4, <2>5, EnteredCovered DEF RecoveryInv, TypeInv, TypeOK, SizeInv
  <2>7. cache' = cache_insert(cache, rec.log_id, rec.payload)
    BY <2>2, <2>3, Zenon DEF apply_cache
  <2>8. cache' = try_evict(b)
    BY <2>5, <2>7 DEF cache_insert, Entered
  <2> QED
    BY <2>6, <2>8, EvictLimits
<1>3. CASE Caller
  <2>1. ASSUME NEW sync \in BOOLEAN, flush(sync) PROVE FALSE
    BY <1>1, <2>1 DEF flush
  <2>2. CASE append_reject \/ drain_cache_evictable
    BY <1>1, <2>2 DEF append_reject, drain_cache_evictable, wal
  <2> QED
    BY <1>2, <1>3, <2>1, <2>2, CallerSteps
<1>4. CASE FlushWorker
  BY <1>1, <1>4 DEF FlushWorker, WorkerWrite, WorkerSync, WorkerRemove, wal
<1>5. CASE Fail
  <2>1. Keys(cache') = {}
    BY <1>5 DEF Fail, Crash, new_cache, Cache, Keys
  <2> QED
    BY <2>1
<1>6. CASE open
  BY <1>6 DEF open, OpenStart, ReplayRecord, OpenFinish
<1>7. CASE UNCHANGED vars
  BY <1>1, <1>7 DEF vars, wal
<1> QED
  BY <1>3, <1>4, <1>5, <1>6, <1>7 DEF Next

\* Every append leaves the cache within both limits, or without a payload that
\* may be evicted, whatever ids callers append (PayloadCache::try_evict).
THEOREM InsertsKeepLimits == Obliged => (Spec => InsertKeepsLimits)
<1> SUFFICES ASSUME Obliged
             PROVE  Spec => InsertKeepsLimits
  OBVIOUS
<1> DEFINE Limits == status = "up" /\ Len(recs') > Len(recs)
                       /\ recs'[Len(recs) + 1].rec.type = "Append" =>
                       \/ Cardinality(Keys(cache')) <= MaxItems /\ cache'.size <= Capacity
                       \/ \A k \in Keys(cache') : ~IsEvictable(cache', k)
<1>1. RecoveryInv /\ SizeInv /\ [Next]_vars => [Limits]_vars
  BY InsertWithinLimits
<1>2. Spec => []RecoveryInv
  BY RecoveryInvHolds
<1>3. Spec => []SizeInv
  BY SizeInvHolds
<1>4. [][Limits]_vars => InsertKeepsLimits
  BY DEF InsertKeepsLimits
<1> HIDE DEF Limits
<1> QED
  BY <1>1, <1>2, <1>3, <1>4, PTL DEF Spec
=============================================================================
