---------------------------- MODULE RaftLogInvariant ----------------------------
(***************************************************************************)
(* The invariants that carry the proofs about module RaftLog: how the      *)
(* records, the chunks, the requests and the files fit together.           *)
(***************************************************************************)
EXTENDS RaftLogProperties

\* Every chunk starts right after the record its id counts up to, with a
\* checkpoint.
Led(r) ==
  \A p \in 1 .. Len(r) :
    LET c == r[p].chunk IN
    c < p /\ r[c + 1].chunk = c /\ r[c + 1].rec.type = "Checkpoint"

ChunksLed == Led(recs)

\* New records go to the chunk of the last one.
OpenChunkIsLast ==
  status = "up" => Len(recs) > 0 /\ open_chunk = recs[Len(recs)].chunk

\* A write request names the chunk of the last record it covers.
Covers(q, r) ==
  \A k \in 1 .. Len(q) :
    q[k].type = "Write" =>
      q[k].upto \in 1 .. Len(r) /\ q[k].chunk = r[q[k].upto].chunk

RequestsCover == Covers(queue, recs)

\* The files reach at most as far as the records; a store that is not running
\* has nothing else.
WrittenInRange ==
  /\ written <= Len(recs)
  /\ status # "up" => written = Len(recs) /\ queue = <<>>

\* A file that is left has its first record.
FilesLed == status # "up" => \A c \in files : c < Len(recs)

\* Where a replay stands: before the first record of the oldest file, or
\* after a record of the chunk it is reading.
ReplayPlace ==
  status = "replay" =>
    /\ rp <= Len(recs)
    /\ files = {} => rp = Len(recs)
    /\ files # {} => \/ rp < Len(recs) /\ open_chunk = rp
                     \/ rp > 0 /\ open_chunk = recs[rp].chunk

Structure ==
  /\ ChunksLed
  /\ OpenChunkIsLast
  /\ RequestsCover
  /\ WrittenInRange
  /\ FilesLed
  /\ ReplayPlace

TypeInv == TypeOK /\ Structure

---------------------------------------------------------------------------
(* The history: what records r build, with h the view after each of them.  *)

\* The view after p records of history h.
At(h, p) == IF p = 0 THEN View(default_state, EmptyMap) ELSE h[p]

\* Record e, at position p, passes the check in view prev and turns it into v.
Builds(prev, e, p, v) ==
  /\ check(prev.log_state, e.rec)
  /\ v.log_state = apply_state(prev.log_state, e.rec)
  /\ v.log = apply_log(prev.log, e.rec, e.chunk, p)

RecordsBuild(r, h) == \A p \in 1 .. Len(r) : Builds(At(h, p - 1), r[p], p, h[p])

\* A chunk starts by restating the state reached.
LeadersRestate(r, h) ==
  \A p \in 1 .. Len(r) :
    r[p].chunk = p - 1 => r[p].rec = CheckpointRecord(At(h, p - 1).log_state)

\* Every view is one consistent log.
ViewsWellFormed(h) == \A p \in 1 .. Len(h) : WellFormed(h[p].log_state, h[p].log)

\* The chunks follow one another.
ChunksAscend(r) == \A p, q \in 1 .. Len(r) : p <= q => r[p].chunk <= r[q].chunk

\* An entry is where its LogData says, and has been in the log since.
EntriesPlaced(r, h) ==
  \A p \in 1 .. Len(r) : \A i \in DOMAIN h[p].log :
    LET data == h[p].log[i] IN
    /\ data.segment \in 1 .. p
    /\ r[data.segment].chunk = data.chunk_id
    /\ \A q \in data.segment .. p : i \in DOMAIN h[q].log /\ h[q].log[i] = data

\* The vote never goes back.
VotesAscend(h) ==
  \A p, q \in 1 .. Len(h) : p <= q => h[p].log_state.vote <= h[q].log_state.vote

History(r, h) ==
  /\ RecordsBuild(r, h)
  /\ LeadersRestate(r, h)
  /\ ViewsWellFormed(h)
  /\ ChunksAscend(r)
  /\ EntriesPlaced(r, h)
  /\ VotesAscend(h)

HistoryInv == History(recs, snap)

---------------------------------------------------------------------------
(* The store and the disk: how memory follows the history, and what is     *)
(* safe to remove.                                                         *)

\* What a running store, and one that is down, hold in memory.
MemoryFollows ==
  /\ status = "up" => log_state = snap[Len(recs)].log_state /\ log = snap[Len(recs)].log
  /\ status = "down" => log_state = default_state /\ log = EmptyMap /\ closed = EmptyMap

\* A closed chunk is before the open one; its trailing state is the one its
\* last record left.
ClosedAtEnd(chunks, open_id, r, h) ==
  \A c \in DOMAIN chunks :
    /\ c < open_id
    /\ \E e \in 1 .. Len(r) :
         /\ chunks[c] = h[e].log_state
         /\ \A s \in 1 .. Len(r) : r[s].chunk = c => s <= e

\* The entries of a log map that come after position p.
After(l, p) == RestrictLog(l, {i \in DOMAIN l : l[i].segment > p})

\* A replay has rebuilt the state, and the entries of the files it has.
ReplayFollows ==
  status = "replay" /\ files # {} =>
    /\ rp >= Oldest
    /\ rp = Oldest => /\ log_state = default_state /\ log = EmptyMap
                      /\ closed = EmptyMap /\ open_chunk = rp
    /\ rp > Oldest => /\ log_state = snap[rp].log_state
                      /\ log = After(snap[rp].log, Oldest)
                      /\ open_chunk = recs[rp].chunk

ReplayOfNothing ==
  status = "replay" /\ files = {} =>
    log_state = default_state /\ log = EmptyMap /\ closed = EmptyMap

\* The requests cover growing positions between two bounds.
Ordered(q, low, high) ==
  \A k \in 1 .. Len(q) :
    q[k].type = "Write" =>
      /\ low <= q[k].upto /\ q[k].upto <= high
      /\ \A j \in 1 .. k : q[j].type = "Write" => q[j].upto <= q[k].upto

PositionsInOrder ==
  /\ acked <= synced /\ synced <= written /\ written <= handed /\ handed <= Len(recs)
  /\ Ordered(queue, written, handed)

\* From position u on, chunk c holds neither the last record nor a live entry.
Dead(r, h, c, u) ==
  /\ c < Len(r)
  /\ \A p \in 1 .. Len(r) : u <= p =>
       /\ r[p].chunk # c
       /\ \A i \in DOMAIN h[p].log : h[p].log[i].chunk_id # c

RemovedDead == \A c \in removed_chunks : Dead(recs, snap, c, Len(recs))

\* When a removal is served, a sync has passed from which its chunks are dead.
RemovalsDead(q, n, r, h) ==
  \A k \in 1 .. Len(q) : q[k].type = "RemoveChunks" =>
    \A c \in q[k].ids :
      \/ Dead(r, h, c, n)
      \/ \E j \in 1 .. k - 1 :
           q[j].type = "Write" /\ q[j].sync /\ Dead(r, h, c, q[j].upto)

\* Wherever, from n on, a crash cuts the WAL, the files F are the ones needed.
Hold(F, n, r, h) ==
  \A p \in 1 .. Len(r) : n <= p =>
    /\ r[p].chunk \in F
    /\ \A i \in DOMAIN h[p].log : h[p].log[i].chunk_id \in F

\* A file starts with the first record of its chunk.
Start(F, r) == \A c \in F : c < Len(r) /\ r[c + 1].chunk = c

TornPlace == torn => Len(recs) > 0

StoreInv ==
  /\ MemoryFollows
  /\ ClosedAtEnd(closed, open_chunk, recs, snap)
  /\ ReplayFollows
  /\ ReplayOfNothing
  /\ PositionsInOrder
  /\ RemovedDead
  /\ RemovalsDead(queue, synced, recs, snap)
  /\ Hold(files, synced, recs, snap)
  /\ Start(files, recs)
  /\ TornPlace

\* The inductive invariant behind the theorems on recovery. Every record the
\* WAL holds (append_and_apply) passed its check in the view before it and built
\* the next one; memory is the view of the last record; the requests of flush
\* and of closed chunks reach the FlushWorker in order, each removal behind the
\* sync that makes its chunks dead; and wherever a crash cuts the WAL, the
\* files hold what the replay of RaftLog::open needs.
RecoveryInv == TypeInv /\ HistoryInv /\ StoreInv
---------------------------------------------------------------------------
(* The files: which there are, and in which order they go.                 *)

Below(A, B) == \A a \in A, b \in B : a < b

\* No file is missing after any other.
Connected(F, r) == \A c \in F : \A p \in 1 .. Len(r) : p > c => r[p].chunk \in F

\* A replay has closed the files before the one it is reading.
FilesReplayed ==
  status = "replay" /\ files # {} =>
    open_chunk \in files /\ DOMAIN closed = {c \in files : c < open_chunk}

\* A request removes chunks older than those of the requests behind it.
RemovalsAscend(q) ==
  \A j, k \in 1 .. Len(q) :
    j < k /\ q[j].type = "RemoveChunks" /\ q[k].type = "RemoveChunks" =>
      Below(q[j].ids, q[k].ids)

\* Chunks go from closed to removed_chunks and from there to the queue, the
\* oldest first.
InRemovalOrder ==
  status = "up" =>
    /\ Below(Leaving(queue), removed_chunks \cup DOMAIN closed \cup {open_chunk})
    /\ Below(removed_chunks, DOMAIN closed \cup {open_chunk})
    /\ RemovalsAscend(queue)

\* The inductive invariant behind the theorems on files: the FlushWorker always
\* unlinks the oldest file, so that the files that stay follow one another
\* (buffer_removable_chunks, RaftLog::flush), wherever a crash cuts the WAL
\* and wherever it stops the removals.
FilesInv ==
  /\ OpenSucceeds
  /\ Connected(files, recs)
  /\ FilesReplayed
  /\ FilesAccounted
  /\ InRemovalOrder

---------------------------------------------------------------------------
(* The payload cache: what it holds, and what it may drop.                 *)

\* The records the state machine has taken in.
Applied == IF status = "up" THEN Len(recs) ELSE rp

\* A payload c holds is the one of the latest append of its log id, in the
\* first n records of r.
LatestIn(c, r, n) ==
  \A k \in Keys(c) : \E p \in 1 .. n :
    /\ r[p].rec = AppendAction(k, c.cache[k])
    /\ \A q \in p + 1 .. n : r[q].rec.type = "Append" => r[q].rec.log_id # k

CachedLatest ==
  /\ LatestIn(cache, recs, Applied)
  /\ status = "down" => Keys(cache) = {} /\ open_chunk = 0

\* Everything before a chunk is on stable storage, or the sync of the chunk
\* before it waits.
SyncsPrecede(r, q, n) ==
  \A p \in 1 .. Len(r) :
    \/ r[p].chunk <= n
    \/ \E k \in 1 .. Len(q) : q[k].type = "Write" /\ q[k].sync /\ q[k].upto = r[p].chunk

\* last_evictable is the last id reached before some chunk began, with
\* everything before that chunk on stable storage.
BoundaryAt(id, open_id, n, h) ==
  \E b \in 0 .. open_id : b <= n /\ id = At(h, b).log_state.last

\* The inductive invariant behind the theorems on reads: a cached payload is the
\* one of the latest append of its id (cache_insert, truncate_after), and
\* last_evictable is the end of some chunk with everything before it synced
\* (on_chunk_persisted), whatever ids callers append.
CacheInv ==
  /\ CachedLatest
  /\ SyncsPrecede(recs, queue, synced)
  /\ BoundaryAt(cache.last_evictable, open_chunk, synced, snap)

\* Every append was of an id above all that the log had reached.
FreshHistory(r, h) ==
  \A p \in 1 .. Len(r) : r[p].rec.type = "Append" =>
    \A q \in 1 .. p - 1 : Lt(h[q].log_state.last, r[p].rec.log_id)

\* The entries an append call has left are above what was reached when it
\* began; since then the log has only grown.
CallFresh ==
  \A k \in 1 .. Len(call.rest) :
    /\ status = "up"
    /\ \A q \in 1 .. Len(snap) :
         \/ Lt(snap[q].log_state.last, call.rest[k][1])
         \/ Le(snap[q].log_state.last, log_state.last)

\* An entry whose payload has left the cache is within the n records on stable
\* storage, in a chunk before the open one.
Settled(c, l, n, open_id) ==
  \A i \in DOMAIN l :
    \/ l[i].log_id \in Keys(c)
    \/ l[i].segment <= n /\ l[i].chunk_id < open_id

EvictedSettled == Settled(cache, log, synced, open_chunk)

\* The inductive invariant behind EvictedIsDurable, of callers that append fresh
\* ids: an append is above everything the log had reached, so that the boundary
\* on_chunk_persisted moves separates the entries by position as it does by id,
\* and what try_evict or drain_evictable took is settled.
FreshInv == "fresh_ids" \in Contract => FreshHistory(recs, snap) /\ CallFresh /\ EvictedSettled

---------------------------------------------------------------------------
(* What a drained cache holds, of a store that has not crashed.            *)

\* An id that was appended and not truncated is never above `last` again.
KeptUpToLast(r, h) ==
  \A p \in 1 .. Len(r) : Untruncated(r, p) =>
    \A q \in p .. Len(r) : Le(r[p].rec.log_id, h[q].log_state.last)

\* Cache c holds only payloads that were not truncated, and has lost none of
\* those above id.
Accounts(c, r, id) ==
  /\ \A k \in Keys(c) : k \in NotTruncated(r)
  /\ \A k \in NotTruncated(r) : k \in Keys(c) \/ Le(k, id)

\* A store that has not crashed opened with nothing.
FirstRun ==
  /\ first_chunk = 0 /\ ~torn
  /\ status # "up" => Len(recs) = 0 /\ files = {} /\ Keys(cache) = {}

\* The inductive invariant behind DrainNormalizes: whenever the FlushWorker ran,
\* last_evictable is where the last sync put it (on_chunk_persisted), and
\* whatever try_evict, drain_evictable and a purge took, and whatever was
\* truncated since, nothing above it is missing from the cache.
DrainInv ==
  crashes = 0 =>
    /\ FirstRun
    /\ cache.last_evictable = SyncedBoundary
    /\ KeptUpToLast(recs, snap)
    /\ Accounts(cache, recs, SyncedBoundary)

---------------------------------------------------------------------------
(* What the cache accounts for.                                            *)

\* The inductive invariant behind CacheSizeExact and InsertKeepsLimits: the size
\* covers what the map holds whatever ids callers append, although an insert
\* (PayloadCache::insert) does not subtract the payload it replaces; with fresh
\* ids it replaces none, and the size is exact.
SizeInv == Covered(cache) /\ ("fresh_ids" \in Contract => CacheSizeExact)
=============================================================================
