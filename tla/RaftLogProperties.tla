--------------------------- MODULE RaftLogProperties ---------------------------
(***************************************************************************)
(* What makes a raft-log store correct, stated of module RaftLog.          *)
(***************************************************************************)
EXTENDS RaftLog

---------------------------------------------------------------------------
(* Types.                                                                  *)

IsView(v) == v = View(v.log_state, v.log) /\ v.log_state \in RaftLogState
             /\ IsLog(v.log)

\* A sequence of views.
IsHistory(h) ==
  /\ h \in Seq({h[p] : p \in DOMAIN h})
  /\ \A p \in DOMAIN h : IsView(h[p])

IsClosed(chunks) ==
  /\ chunks = [c \in DOMAIN chunks |-> chunks[c]]
  /\ DOMAIN chunks \subseteq Nat
  /\ \A c \in DOMAIN chunks : chunks[c] \in RaftLogState

Requests ==
  [type : {"Write"}, chunk : Nat, upto : Nat, sync : BOOLEAN, ack : BOOLEAN]
    \cup [type : {"RemoveChunks"}, ids : SUBSET Nat]

\* The type invariant: every variable of the store, of the WAL and of the
\* disk keeps the shape the structs of the code give it.
TypeOK ==
  /\ status \in {"down", "replay", "up", "failed"}
  /\ log_state \in RaftLogState
  /\ IsLog(log)
  /\ IsCache(cache)
  /\ call \in [rest : Seq(LogId \X Payload), from : Nat]
  /\ recs \in Seq([chunk : Nat, rec : RaftLogRecord])
  /\ Len(snap) = Len(recs) /\ IsHistory(snap)
  /\ IsClosed(closed)
  /\ queue \in Seq(Requests)
  /\ removed_chunks \subseteq Nat /\ files \subseteq Nat
  /\ \A n \in {open_chunk, first_chunk, handed, written, synced, acked, rp,
               crashes} : n \in Nat
  /\ torn \in BOOLEAN

---------------------------------------------------------------------------
(* Safety.                                                                 *)

\* The log map and the state agree (RaftLogState::check, apply): the entries
\* are one run of consecutive indexes with growing ids, all above `purged`,
\* ending at `last`; `purged` and `committed` never pass `last`.
LogMatchesState == status = "up" => WellFormed(log_state, log)

\* A payload leaves the cache only when a read can still get it: the entry
\* lies in a closed chunk that is still held and is on stable storage
\* ("un-synced data must stay in memory", PayloadCache::last_evictable).
EvictedIsDurable ==
  status = "up" =>
    \A i \in DOMAIN log :
      \/ log[i].log_id \in Keys(cache)
      \/ /\ log[i].chunk_id \in DOMAIN closed
         /\ log[i].chunk_id \in files
         /\ log[i].segment <= synced

\* RaftLog::read returns, for every index of the log, the id and the payload
\* of the latest append at that index, wherever the payload comes from, and
\* never meets another record (its panic "Expect Record::Append").
ReadsServeAppended ==
  status = "up" =>
    \A i \in DOMAIN log :
      /\ log[i].segment \in 1 .. Len(recs)
      /\ recs[log[i].segment].chunk = log[i].chunk_id
      /\ load_record(log[i]).type = "Append"
      /\ \E p \in 1 .. Len(recs) :
           /\ recs[p].rec.type = "Append"
           /\ recs[p].rec.log_id = log[i].log_id
           /\ recs[p].rec.payload = read_payload(log[i])
           /\ \A q \in p + 1 .. Len(recs) :
                recs[q].rec.type = "Append" => log_index(recs[q].rec.log_id) # i

\* The size the cache accounts for is the size of what it holds, so that the
\* capacity limit bounds real payloads (PayloadCache::size).
CacheSizeExact == cache.size = SizeOf(cache, Keys(cache))

\* A replay that reaches the end of the records has rebuilt the state and
\* the log map that existed when the last of them was written, although the
\* chunks purged since are gone (RaftLog::open).
RecoveryExact ==
  status = "replay" /\ rp = Len(recs) => View(log_state, log) = SnapAt(rp)

\* A store that crashed can be opened again: no gap between the files left,
\* no record that replay rejects.
OpenSucceeds == status # "failed"

\* Unlinking waits for the purge to be durable (RaftLog::flush): wherever a
\* crash may cut the WAL, each entry live at the cut has its chunk file.
LiveChunksOnDisk ==
  \A p \in synced .. Len(recs) :
    \A i \in DOMAIN SnapAt(p).log : SnapAt(p).log[i].chunk_id \in files

\* What an acknowledged sync flush covered is never taken back: the vote of a
\* running store is at least the one that was acknowledged, through any
\* number of crashes.
AckedVoteKept ==
  status = "up" => acked <= Len(recs) /\ log_state.vote >= SnapAt(acked).log_state.vote

\* No chunk that holds only purged entries is left unnoticed: the oldest
\* closed chunk reaches above the purge point (buffer_removable_chunks, run
\* on a purge, on a close and on open).
ObsoleteChunksBuffered ==
  status = "up" =>
    \A c \in DOMAIN closed :
      (\A d \in DOMAIN closed : c <= d) =>
        log_state.purged = None \/ Lt(log_state.purged, closed[c].last)

\* The chunks whose removal waits in queue q.
Leaving(q) == UNION {q[k].ids : k \in {k \in DOMAIN q : q[k].type = "RemoveChunks"}}

\* Every file is accounted for: it is the open chunk, a closed chunk, or on
\* its way to be removed.
FilesAccounted ==
  status = "up" =>
    files = {open_chunk} \cup DOMAIN closed \cup removed_chunks \cup Leaving(queue)

\* No truncation of records r dropped the entry appended at p from the cache.
Untruncated(r, p) ==
  /\ r[p].rec.type = "Append"
  /\ \A q \in p + 1 .. Len(r) :
       r[q].rec.type = "TruncateAfter" => Le(r[p].rec.log_id, r[q].rec.log_id)

\* The ids appended whose payload no later truncation dropped from the cache.
NotTruncated(r) == {r[p].rec.log_id : p \in {p \in 1 .. Len(r) : Untruncated(r, p)}}

\* The end of the chunk before the one the last sync was for.
SyncedBoundary ==
  IF synced = 0 \/ recs[synced].chunk = first_chunk THEN None
  ELSE LeadingState(recs[synced].chunk).last

\* Draining an idle store leaves a cache that depends on the calls made, not
\* on when the FlushWorker ran ("to normalize the cache to a deterministic
\* state", RaftLog::drain_cache_evictable): exactly the payloads not truncated
\* that lie above the boundary of the last sync, purged ones too, whatever the
\* limits evicted on the way.
DrainNormalizes ==
  status = "up" /\ queue = <<>> /\ crashes = 0 =>
    Keys(drain_evictable(cache)) = {k \in NotTruncated(recs) : Lt(SyncedBoundary, k)}

---------------------------------------------------------------------------
(* Action properties.                                                      *)

\* A running store gives up a committed entry only by purging it.
CommittedOnlyPurged ==
  [][status = "up" /\ status' = "up" =>
       \A i \in DOMAIN log \ DOMAIN log' :
         Le(log[i].log_id, log_state.committed) => i < next_log_index(log_state'.purged)
    ]_vars

\* An append leaves the cache within its limits, or without a single payload
\* that may be evicted (PayloadCache::try_evict).
InsertKeepsLimits ==
  [][status = "up" /\ Len(recs') > Len(recs)
       /\ recs'[Len(recs) + 1].rec.type = "Append" =>
         \/ Cardinality(Keys(cache')) <= MaxItems /\ cache'.size <= Capacity
         \/ \A k \in Keys(cache') : ~IsEvictable(cache', k)
    ]_vars

---------------------------------------------------------------------------
(* What the repository says of the store and the code does not do.         *)

\* "`purge` additionally rejects a log id that conflicts with the log id
\* stored at that index" (docs/architecture.md).
PurgeRejectsConflict ==
  [][status = "up" /\ Len(recs') > Len(recs) =>
       LET rec == recs'[Len(recs) + 1].rec IN
       rec.type = "PurgeUpto" /\ log_index(rec.log_id) \in DOMAIN log =>
         log[log_index(rec.log_id)].log_id = rec.log_id
    ]_vars

\* "`vote`, `committed` and `user_data` are free to change here": update_state
\* takes a state whose `last` and `purged` are the present ones.
UpdateStateTakesPresentLog == status = "up" => check_checkpoint(log, log_state)

\* "A rejected write must change nothing": an append call that is rejected has
\* written nothing.
RejectedWriteChangesNothing ==
  [][call # NoCall /\ call' = NoCall /\ status' = "up" /\ recs' = recs =>
       Len(recs) = call.from
    ]_vars

---------------------------------------------------------------------------
(* Liveness, under the fairness of module RaftLogObservers.                *)

\* The store comes up after every crash.
EventuallyUp == status # "up" ~> status = "up"

\* Everything handed to the FlushWorker by a sync flush becomes durable,
\* unless the process crashes first.
SyncCompletes ==
  \A n \in 1 .. MaxRecs :
    (\E k \in DOMAIN queue : queue[k].type = "Write" /\ queue[k].sync /\ queue[k].upto = n)
      ~> (synced >= n \/ status # "up")

\* The file of chunk c, and every older file, ends at or below a purge point
\* that is on stable storage, and so is the start of the chunk after it.
ObsoleteOnDisk(c) ==
  /\ c \in files
  /\ SnapAt(synced).log_state.purged # None
  /\ \A d \in files : d <= c =>
       \E e \in 1 .. synced - 1 :
         /\ recs[e].chunk = d /\ recs[e + 1].chunk # d
         /\ Le(snap[e].log_state.last, SnapAt(synced).log_state.purged)

\* The file of a chunk that holds only purged entries is unlinked in the end,
\* also when a crash loses the removal that was waiting or under way.
ObsoleteFilesUnlinked ==
  \A c \in 0 .. MaxRecs : ObsoleteOnDisk(c) ~> c \notin files
=============================================================================
