-------------------------------- MODULE RaftLog --------------------------------
(***************************************************************************)
(* A raft-log store (src/src/raft_log/raft_log.rs): the caller's           *)
(* operations on RaftLog, the FlushWorker thread that writes, syncs and    *)
(* unlinks chunk files behind it, crashes, and RaftLog::open, which        *)
(* replays the files left on disk.                                         *)
(*                                                                         *)
(* The crate keeps its records in the external crate `chunked-wal`, which  *)
(* is modelled from how this repository uses and documents it.  The WAL is *)
(* one sequence of records, recs; a position in it stands for the byte     *)
(* range (Segment) of a record.  A chunk is a file holding a run of        *)
(* consecutive records; its id is the number of records before it, as the  *)
(* ChunkId of the code is the global offset at which the file starts.      *)
(*                                                                         *)
(*   1 .. synced     on stable storage, survives a power failure           *)
(*   .. written      in the OS files, survives the end of the process      *)
(*   .. handed       sent to the FlushWorker                               *)
(*   .. Len(recs)    in the pending buffer of the open chunk               *)
(***************************************************************************)
EXTENDS RaftLogStateMachine, PayloadCache, Sequences

CONSTANTS
  ChunkMaxRecords,  \* wal.chunk_max_records
  LogIds,           \* the log ids callers use
  Payloads,         \* the payloads (sizes) callers append
  Votes,            \* the votes callers save
  UserDatas,        \* the user data callers save
  RestoreStates,    \* the states callers pass to update_state
  MaxBatch,         \* entries of one append call
  Contract,         \* the obligations callers keep, see below
  MaxRecs,          \* bound on the records of the WAL
  MaxQueue,         \* bound on the FlushWorker's queue
  MaxCrashes        \* bound on the crashes

ASSUME ConfigAssumption == ChunkMaxRecords \in Nat \ {0}

ASSUME InputAssumption ==
  /\ LogIds \subseteq LogId
  /\ Payloads \subseteq Payload
  /\ Votes \subseteq Nat
  /\ UserDatas \subseteq OptUserData
  /\ RestoreStates \subseteq RaftLogState

ASSUME BoundAssumption ==
  MaxBatch \in Nat /\ MaxRecs \in Nat /\ MaxQueue \in Nat /\ MaxCrashes \in Nat

VARIABLES
  status,          \* "down", "replay" (inside open), "up", "failed" (open erred)
  log_state,       \* RaftLogStateMachine::log_state
  log,             \* RaftLogStateMachine::log
  cache,           \* RaftLogStateMachine::payload_cache
  call,            \* the append call in progress: entries left, where it began
  recs,            \* the WAL: [chunk, rec] at every position
  snap,            \* history: the state and the log map after every record
  open_chunk,      \* the open chunk; in replay, the chunk being read
  first_chunk,     \* the chunk this incarnation opened with
  closed,          \* the closed chunks, each with its trailing state
  removed_chunks,  \* RaftLog::removed_chunks
  queue,           \* the FlushWorker's requests
  handed, written, synced,
  acked,           \* history: the position the last acknowledged sync covers
  files,           \* the chunk files that exist
  torn,            \* the last file ends in an incomplete record
  rp,              \* records replayed so far
  crashes

mem == <<log_state, log, cache, call>>
wal == <<recs, snap, open_chunk, first_chunk, closed, removed_chunks, handed>>
disk == <<files, torn, crashes>>
worker == <<queue, written, synced, acked>>
vars == <<status, mem, wal, worker, disk, rp>>

---------------------------------------------------------------------------
(* Requests to the FlushWorker, and small helpers.                         *)

WriteRequest(chunk, upto, sync, ack) ==
  [type |-> "Write", chunk |-> chunk, upto |-> upto, sync |-> sync, ack |-> ack]

RemoveRequest(ids) == [type |-> "RemoveChunks", ids |-> ids]

NoCall == [rest |-> <<>>, from |-> 0]

Entry(chunk, rec) == [chunk |-> chunk, rec |-> rec]

View(s, l) == [log_state |-> s, log |-> l]

\* The state and the log map the first p records build.
SnapAt(p) == IF p = 0 THEN View(default_state, EmptyMap) ELSE snap[p]

\* The state a chunk starts from, in the checkpoint record that leads it.
LeadingState(chunk) == recs[chunk + 1].rec.state

CloseChunk(chunks, id, state) ==
  [c \in DOMAIN chunks \cup {id} |-> IF c = id THEN state ELSE chunks[c]]

\* Mutant: a chunk that ends exactly at the purge point is not removable.
Removable_strict(chunks, purged) ==
  {c \in DOMAIN chunks :
     purged # None /\ \A d \in DOMAIN chunks : d <= c => Lt(chunks[d].last, purged)}

\* buffer_removable_chunks: the oldest run of closed chunks whose trailing
\* state has last <= purged.
Removable(chunks, purged) ==
  {c \in DOMAIN chunks :
     purged # None /\ \A d \in DOMAIN chunks : d <= c => Le(chunks[d].last, purged)}

---------------------------------------------------------------------------
(***************************************************************************)
(* The obligations a caller may be under.  The code does not check them;   *)
(* a run that leaves one out shows what happens without it.                *)
(***************************************************************************)
\* An appended id is above everything the log has ever reached.  Raft does not
\* promise that of a follower whose entries were truncated.
FreshId(id) ==
  "fresh_ids" \in Contract =>
    \A p \in 1 .. Len(snap) : Lt(snap[p].log_state.last, id)

\* A purged id is one of the ids of this log, or beyond its end.
ConsistentPurge(id) ==
  "consistent_purge" \in Contract =>
    /\ Agrees(id, log_state.last)
    /\ \A i \in DOMAIN log : Agrees(id, log[i].log_id)

\* A restored state is consistent in itself and takes nothing back.
ForwardRestore(s) ==
  "forward_restore" \in Contract =>
    /\ MarksInOrder(s)
    /\ Le(log_state.last, s.last)
    /\ Le(log_state.purged, s.purged)
    /\ s.vote >= log_state.vote

---------------------------------------------------------------------------
(* The caller's operations.                                                *)

Ready == status = "up" /\ call = NoCall

\* Mutant: the record reaches the WAL before it is checked.
Accepts_unchecked(rec) == TRUE

\* RaftLogStateMachine::check, before the record reaches the WAL buffer.
Accepts(rec) == check(log_state, rec)

(***************************************************************************)
(* append_and_apply: check, WAL::append, apply, try_close_full_chunk.  A   *)
(* chunk that is full closes with the state reached: its records are sent  *)
(* to be written and synced, and the next chunk starts with a checkpoint.  *)
(* buffer says that the caller runs buffer_removable_chunks afterwards.    *)
(***************************************************************************)
append_and_apply(rec, buffer) ==
  LET pos == Len(recs) + 1
      st == apply_state(log_state, rec)
      lg == apply_log(log, rec, open_chunk, pos)
      full == pos - open_chunk >= ChunkMaxRecords
      chunks == IF full THEN CloseChunk(closed, open_chunk, st) ELSE closed
      removable == IF full \/ buffer THEN Removable(chunks, st.purged) ELSE {}
  IN
  /\ Accepts(rec)
  /\ Len(recs) + 2 <= MaxRecs
  /\ log_state' = st
  /\ log' = lg
  /\ cache' = apply_cache(cache, rec)
  /\ closed' = [c \in DOMAIN chunks \ removable |-> chunks[c]]
  /\ removed_chunks' = removed_chunks \cup removable
  /\ \/ /\ ~full
        /\ recs' = Append(recs, Entry(open_chunk, rec))
        /\ snap' = Append(snap, View(st, lg))
        /\ UNCHANGED <<open_chunk, handed, queue, files>>
     \/ /\ full
        /\ Len(queue) < MaxQueue
        /\ recs' = Append(Append(recs, Entry(open_chunk, rec)),
                          Entry(pos, CheckpointRecord(st)))
        /\ snap' = Append(Append(snap, View(st, lg)), View(st, lg))
        /\ open_chunk' = pos
        /\ handed' = pos
        /\ queue' = Append(queue, WriteRequest(open_chunk, pos, TRUE, FALSE))
        /\ files' = files \cup {pos}
  /\ UNCHANGED <<status, first_chunk, written, synced, acked, torn, rp, crashes>>

save_vote(vote) ==
  /\ Ready
  /\ append_and_apply(SaveVoteAction(vote), FALSE)
  /\ UNCHANGED call

save_user_data(user_data) ==
  /\ Ready
  /\ append_and_apply(
       CheckpointRecord([log_state EXCEPT !.user_data = user_data]), FALSE)
  /\ UNCHANGED call

\* append writes its entries one by one; the FlushWorker runs between them.
append(entries) ==
  /\ Ready
  /\ Len(recs) + 2 * Len(entries) <= MaxRecs
  /\ \A k \in DOMAIN entries : FreshId(entries[k][1])
  /\ append_and_apply(AppendAction(entries[1][1], entries[1][2]), FALSE)
  /\ call' = IF Len(entries) = 1 THEN NoCall
             ELSE [rest |-> Tail(entries), from |-> Len(recs)]

append_next ==
  /\ status = "up"
  /\ call.rest # <<>>
  /\ append_and_apply(AppendAction(call.rest[1][1], call.rest[1][2]), FALSE)
  /\ call' = IF Len(call.rest) = 1 THEN NoCall
             ELSE [call EXCEPT !.rest = Tail(@)]

\* The first rejected entry ends the call; the entries before it stay.
append_reject ==
  /\ status = "up"
  /\ call.rest # <<>>
  /\ ~Accepts(AppendAction(call.rest[1][1], call.rest[1][2]))
  /\ call' = NoCall
  /\ UNCHANGED <<status, log_state, log, cache, wal, worker, disk, rp>>

\* Mutant: `index - 1` without a guard, and an id made up for it.
TruncateKeeps_unguarded(index) ==
  IF index = next_log_index(log_state.purged) THEN {log_state.purged}
  ELSE {<<log_state.last[1], index - 1>>}

\* The last entry truncate(index) keeps, if there is one.
TruncateKeeps(index) ==
  IF index = next_log_index(log_state.purged) THEN {log_state.purged}
  ELSE {log[i].log_id : i \in {i \in DOMAIN log : i = index - 1}}

truncate(index) ==
  /\ Ready
  /\ \E keep \in TruncateKeeps(index) :
       append_and_apply(TruncateAfterAction(keep), FALSE)
  /\ UNCHANGED call

purge(upto) ==
  /\ Ready
  /\ ConsistentPurge(upto)
  /\ log_index(upto) >= next_log_index(log_state.purged)
  /\ append_and_apply(PurgeUptoAction(upto), TRUE)
  /\ UNCHANGED call

commit(id) ==
  /\ Ready
  /\ append_and_apply(CommitAction(id), FALSE)
  /\ UNCHANGED call

update_state(state) ==
  /\ Ready
  /\ ForwardRestore(state)
  /\ check_checkpoint(log, state)
  /\ append_and_apply(CheckpointRecord(state), FALSE)
  /\ UNCHANGED call

\* Mutant: the removal does not wait for a sync.
Removals_unordered(sync) == removed_chunks

\* The chunks flush sends for removal, behind the sync that covers the purge.
Removals(sync) == IF sync THEN removed_chunks ELSE {}

\* Mutant: the buffer is drained although nothing was sent.
StillRemoved_drained(sync) == {}

\* What stays in the buffer.
StillRemoved(sync) == removed_chunks \ Removals(sync)

\* flush: hand the pending records over; a sync flush also queues, behind
\* itself, the removal of the chunks waiting for it.  (A flush without sync
\* and with nothing pending does nothing and is left out.)
flush(sync) ==
  LET write == WriteRequest(open_chunk, Len(recs), sync, sync) IN
  /\ Ready
  /\ sync \/ handed < Len(recs)
  /\ Len(queue) + 2 <= MaxQueue
  /\ handed' = Len(recs)
  /\ removed_chunks' = StillRemoved(sync)
  /\ queue' = IF Removals(sync) = {} THEN Append(queue, write)
              ELSE Append(Append(queue, write), RemoveRequest(Removals(sync)))
  /\ UNCHANGED <<status, mem, recs, snap, open_chunk, first_chunk, closed,
                 written, synced, acked, disk, rp>>

drain_cache_evictable ==
  /\ Ready
  /\ cache' = drain_evictable(cache)
  /\ UNCHANGED <<status, log_state, log, call, wal, worker, disk, rp>>

\* ChunkedWal::load_record: the record at an entry's place.
load_record(data) == recs[data.segment].rec

\* The payload RaftLog::read returns for an entry: cached, or from its file.
read_payload(data) ==
  IF data.log_id \in Keys(cache) THEN cache.cache[data.log_id]
  ELSE load_record(data).payload

---------------------------------------------------------------------------
(* The FlushWorker: one request at a time, in the order they were sent.    *)

Serving(type) == status = "up" /\ queue # <<>> /\ Head(queue).type = type

\* Mutant: a request is not taken off the queue once its data is written.
AfterWrite_kept == queue

\* A request that asks for a sync stays until it is synced.
AfterWrite == IF Head(queue).sync THEN queue ELSE Tail(queue)

WorkerWrite ==
  /\ Serving("Write")
  /\ ~Head(queue).sync \/ written < Head(queue).upto
  /\ written' = Head(queue).upto
  /\ queue' = AfterWrite
  /\ UNCHANGED <<status, mem, wal, synced, acked, disk, rp>>

\* Mutant: everything appended so far becomes evictable.
on_chunk_persisted_too_far(chunk) == set_last_evictable(cache, log_state.last)

\* on_chunk_persisted: with the chunk's file synced, every payload up to the
\* end of the chunk before it may be evicted.
on_chunk_persisted(chunk) ==
  IF chunk = first_chunk THEN cache
  ELSE set_last_evictable(cache, LeadingState(chunk).last)

WorkerSync ==
  /\ Serving("Write")
  /\ Head(queue).sync /\ written = Head(queue).upto
  /\ synced' = written
  /\ acked' = IF Head(queue).ack THEN written ELSE acked
  /\ cache' = on_chunk_persisted(Head(queue).chunk)
  /\ queue' = Tail(queue)
  /\ UNCHANGED <<status, log_state, log, call, wal, written, disk, rp>>

\* Chunk files are unlinked one at a time, oldest first.
WorkerRemove ==
  /\ Serving("RemoveChunks")
  /\ \E c \in Head(queue).ids :
       /\ \A d \in Head(queue).ids : c <= d
       /\ files' = files \ {c}
       /\ queue' = IF Head(queue).ids = {c} THEN Tail(queue)
                   ELSE <<RemoveRequest(Head(queue).ids \ {c})>> \o Tail(queue)
  /\ UNCHANGED <<status, mem, wal, written, synced, acked, torn, crashes, rp>>

---------------------------------------------------------------------------
(* Crash and recovery.                                                     *)

\* How far the files may reach: a write under way may be partly done.
Reach == IF Serving("Write") THEN Head(queue).upto ELSE written

(***************************************************************************)
(* The process ends, or the machine loses power: memory is gone and the    *)
(* files keep some prefix of the records that contains everything synced,  *)
(* perhaps followed by an incomplete record (incomplete).  A file without  *)
(* its first record is as good as none.                                    *)
(***************************************************************************)
Crash(r, incomplete) ==
  /\ status \in {"up", "replay"}
  /\ crashes < MaxCrashes
  /\ incomplete => r < Reach \/ torn
  /\ status' = "down"
  /\ recs' = SubSeq(recs, 1, r)
  /\ snap' = SubSeq(snap, 1, r)
  /\ files' = {c \in files : c < r}
  /\ torn' = (incomplete /\ r > 0 /\ r \notin files)
  /\ log_state' = default_state
  /\ log' = EmptyMap
  /\ cache' = new_cache
  /\ call' = NoCall
  /\ open_chunk' = 0
  /\ first_chunk' = 0
  /\ closed' = EmptyMap
  /\ removed_chunks' = {}
  /\ queue' = <<>>
  /\ handed' = r
  /\ written' = r
  /\ rp' = 0
  /\ crashes' = crashes + 1
  /\ UNCHANGED <<synced, acked>>

\* The position before the first record of the oldest file.
Oldest == CHOOSE c \in files : \A d \in files : c <= d

\* Consecutive files: each one starts where the one before it ends.
NoGap == \A p \in 1 .. Len(recs) : p > Oldest => recs[p].chunk \in files

\* RaftLog::open begins: list the chunk files, check that they connect.
OpenStart ==
  /\ status = "down"
  /\ status' = IF files # {} /\ ~NoGap THEN "failed" ELSE "replay"
  /\ rp' = IF files = {} THEN Len(recs) ELSE Oldest
  /\ open_chunk' = rp'
  /\ UNCHANGED <<mem, recs, snap, first_chunk, closed, removed_chunks, handed,
                 worker, disk>>

\* Replay one record.  Where a file starts, the one before it is closed and
\* its payloads become evictable.  A rejected record fails the open.
ReplayRecord ==
  LET chunk == recs[rp + 1].chunk
      rec == recs[rp + 1].rec
      entered == chunk # open_chunk
  IN
  /\ status = "replay" /\ rp < Len(recs)
  /\ IF check(log_state, rec)
       THEN /\ log_state' = apply_state(log_state, rec)
            /\ log' = apply_log(log, rec, chunk, rp + 1)
            /\ cache' = apply_cache(
                          IF entered THEN set_last_evictable(cache, log_state.last)
                          ELSE cache, rec)
            /\ closed' = IF entered THEN CloseChunk(closed, open_chunk, log_state)
                         ELSE closed
            /\ open_chunk' = chunk
            /\ rp' = rp + 1
            /\ UNCHANGED status
       ELSE /\ status' = "failed"
            /\ UNCHANGED <<log_state, log, cache, closed, open_chunk, rp>>
  /\ UNCHANGED <<call, recs, snap, first_chunk, removed_chunks, handed, worker,
                 disk>>

\* Mutant: the chunks a purge of an earlier run left are not looked for.
RemovableOnOpen_forgotten(chunks) == {}

RemovableOnOpen(chunks) == Removable(chunks, log_state.purged)

(***************************************************************************)
(* Replay is over.  The last file becomes the open chunk again, unless it  *)
(* ended in an incomplete record: that record has been cut off, the file   *)
(* is synced and stays closed, and a new chunk follows it.  The chunks     *)
(* waiting for removal are found again from the replayed state.            *)
(***************************************************************************)
OpenFinish ==
  LET create == files = {} \/ torn
      chunks == IF torn THEN CloseChunk(closed, open_chunk, log_state) ELSE closed
      removable == RemovableOnOpen(chunks)
      chunk == IF create THEN Len(recs) ELSE open_chunk
  IN
  /\ status = "replay" /\ rp = Len(recs)
  /\ status' = "up"
  /\ open_chunk' = chunk
  /\ first_chunk' = chunk
  /\ closed' = [c \in DOMAIN chunks \ removable |-> chunks[c]]
  /\ removed_chunks' = removable
  /\ files' = files \cup {chunk}
  /\ synced' = IF torn THEN Len(recs) ELSE synced
  /\ torn' = FALSE
  /\ recs' = IF create THEN Append(recs, Entry(chunk, CheckpointRecord(log_state)))
             ELSE recs
  /\ snap' = IF create THEN Append(snap, View(log_state, log)) ELSE snap
  /\ UNCHANGED <<log_state, log, cache, call, handed, queue, written, acked,
                 crashes, rp>>

---------------------------------------------------------------------------
Batches == UNION {[1 .. n -> LogIds \X Payloads] : n \in 1 .. MaxBatch}

Indexes == {0} \cup {log_index(id) : id \in LogIds}
               \cup {next_log_index(id) : id \in LogIds}

Init ==
  /\ status = "down"
  /\ log_state = default_state /\ log = EmptyMap
  /\ cache = new_cache /\ call = NoCall
  /\ recs = <<>> /\ snap = <<>>
  /\ open_chunk = 0 /\ first_chunk = 0
  /\ closed = EmptyMap /\ removed_chunks = {}
  /\ queue = <<>> /\ handed = 0 /\ written = 0 /\ synced = 0 /\ acked = 0
  /\ files = {} /\ torn = FALSE /\ rp = 0 /\ crashes = 0

Caller ==
  \/ \E vote \in Votes : save_vote(vote)
  \/ \E user_data \in UserDatas : save_user_data(user_data)
  \/ \E entries \in Batches : append(entries)
  \/ append_next
  \/ append_reject
  \/ \E index \in Indexes : truncate(index)
  \/ \E id \in LogIds : purge(id)
  \/ \E id \in LogIds : commit(id)
  \/ \E state \in RestoreStates : update_state(state)
  \/ \E sync \in BOOLEAN : flush(sync)
  \/ drain_cache_evictable

FlushWorker == WorkerWrite \/ WorkerSync \/ WorkerRemove

open == OpenStart \/ ReplayRecord \/ OpenFinish

Fail == \E r \in synced .. Reach, incomplete \in BOOLEAN : Crash(r, incomplete)

Next == Caller \/ FlushWorker \/ open \/ Fail

Spec == Init /\ [][Next]_vars
=============================================================================
