# raft-log in TLA+

A model of the `raft-log` crate: a store for the log and the state of one Raft
node, kept in a write-ahead log of chunk files. The modules are translated from
the code under `src/src/`; paths below are relative to the repository (so
`src/raft_log/raft_log.rs` is `src/src/raft_log/raft_log.rs` in
`PROJECT.json`).

## 1. The system

| Component | State it keeps | Operations | Where it is hard |
|---|---|---|---|
| `RaftLog` (`raft_log/raft_log.rs`, trait in `api/raft_log_writer.rs`) | `removed_chunks`; owns the WAL and the state machine | `save_vote`, `save_user_data`, `append`, `truncate`, `purge`, `commit`, `update_state`, `flush`, `read`, `wait_worker_idle`, `drain_cache_evictable`, `dump_data`, `dump`, `open` | removal of chunks against the durability of the purge; a batch rejected halfway; rebuilding from the files a crash left |
| `RaftLogStateMachine` (`raft_log/state_machine/mod.rs`) | log map `index -> LogData` | `check`, `check_checkpoint`, `apply`, `checkpoint` | one record changes three structures; live and replay run the same code on different histories |
| `RaftLogState` (`state_machine/raft_log_state.rs`) | `vote`, `last`, `committed`, `purged`, `user_data` | `check`, `apply` | every legal order of appends, truncations, purges and restores must keep the marks consistent |
| `PayloadCache` (`state_machine/payload_cache.rs`) | map `log id -> payload`, `size`, `last_evictable` | `insert`, `try_evict`, `drain_evictable`, `truncate_after`, `purge_upto`, `clear`, `set_last_evictable` | the boundary is moved by another thread; sizes are subtracted from an unsigned number |
| `chunked-wal` (another crate, re-exported in `api/`) | open chunk with pending buffer, closed chunks with their trailing state, the FlushWorker's queue, files | append, close a full chunk, send pending data, remove chunks, replay | asynchronous write, sync and unlink; torn tails |
| Record codec (`raft_log_action.rs`, `raft_log_record.rs`, codec of `RaftLogState`) | none | `encode`, `decode` | a cut or damaged record must not decode to another one; sizes that lead to the next record |
| `DumpRaftLog` (`dump_raft_log.rs`) | copies of the state, the entries and the cache; readers of the chunks closed then | `iter`, `next` | reads chunks the store may have purged and unlinked since |
| Dumps as text (`dump.rs`, `dump_api.rs`, `dump_writer.rs`) | the lock of the directory (`Dump`), or a borrow of the store (`RefDump`) | `write`, `write_with` | reads what a crash or damage left; the lock against a running store |
| `Stat`, `AccessStat`, errors | counters | getters | |

Interaction. The caller's thread runs every operation of `RaftLog` one at a
time (`&mut self`). An accepted record goes to the WAL's pending buffer and is
applied to the state machine at once; nothing touches a file. `flush` (and the
closing of a full chunk) sends the pending data to the FlushWorker thread,
which serves its queue in order: write, sync, call `on_chunk_persisted` (which
moves `last_evictable` of the shared cache), call the flush callback, unlink
removed chunks. `open` replays all chunk files through
`RaftLogStateMachine::apply` and rebuilds `removed_chunks`. `read`, `dump` and
`wait_worker_idle` take `&self`: while one of them is at work no operation runs
except `drain_cache_evictable` in another thread, but the FlushWorker does.
`blocking_flush` takes `&mut self`, and only the FlushWorker runs next to it. A
`DumpRaftLog` owns its copies, and the store goes on next to it. `Dump` needs no
store, only the lock that a store holds from `open` to its end.

What makes each part correct:

- `RaftLogState` and the log map describe one log (`LogMatchesState`); committed
  entries leave only by a purge (`CommittedOnlyPurged`).
- The cache evicts only what a read can fetch from a file that is synced
  (`EvictedIsDurable`), so that `read` returns the latest append at every index
  (`ReadsServeAppended`), stays within its limits where it may
  (`InsertKeepsLimits`) and accounts for its content (`CacheSizeExact`).
- A crash at any moment leaves files that can be opened (`OpenSucceeds`), that
  hold every live entry (`LiveChunksOnDisk`), and whose replay gives exactly the
  state of the last surviving record (`RecoveryExact`); what was acknowledged
  stays (`AckedVoteKept`).
- When `blocking_flush` returns, everything written is on stable storage, whatever
  its request was queued behind (`FlushedWhenAnswered`); it does return, as
  `wait_worker_idle` does (`WaitsEnd`).
- All of this together is one promise, `DurableLog`, and the store implements it
  (`ImplementsDurableLog`).
- What is read beside the writes is exact: the items of a reader and of a
  snapshot (`ItemsExact`), and the lines of a dump (`TextTellsPlace`), which
  suffice to rebuild the store (`RefDumpRebuilds`, `OfflineDumpRebuilds`) or show
  where it is damaged (`DamageIsShown`). An idle and drained cache does not depend
  on timing (`DrainNormalizes`).
- A record decodes to what was encoded or to an error (`DecodesWhatWasWritten`,
  `FaultsAreErrors`, `SegmentsReadBack`).
- Chunks that hold only purged entries are noticed (`ObsoleteChunksBuffered`),
  no file is forgotten (`FilesAccounted`), and obsolete files are unlinked in
  the end (`ObsoleteFilesUnlinked`).

## 2. The modules

| Module | Models |
|---|---|
| `RaftLogTypes` | log ids and their order, `next_log_index`, the records, `RaftLogState`, `LogData` |
| `RaftLogStateMachine` | `check*`, `RaftLogState::apply`, what `RaftLogStateMachine::apply` does to the log map, `check_checkpoint`; `WellFormed`, the consistency of a state with a log map |
| `PayloadCache` | each method of the cache as the cache it ends with |
| `PayloadCacheLoops`, `MCPayloadCacheLoops` | the same methods as the loops of the code, one pop at a time |
| `RaftLog` | the store: one action per operation, the FlushWorker, crash and recovery |
| `RaftLogProperties` | the properties of the store |
| `DurableLog` | abstract: what the store promises a Raft node |
| `RaftLogRefinement` | the refinement mapping from `RaftLog` to `DurableLog` |
| `RaftLogObservers` | readers, snapshots, dumps and waiting threads next to the store; damage; fairness |
| `RecordCodec`, `MCRecordCodec` | the encoding of records, and a chunk's bytes read back after a fault |
| `MCRaftLog`, `MCRaftLogObservers` | values of the constants for TLC |
| `RaftLogInvariant` | the inductive invariants behind the proofs: `TypeInv`, `RecoveryInv`, `FilesInv`, `CacheInv`, `FreshInv`, `DrainInv`, `SizeInv` |
| `RaftLogProofs` | lemmas about the state machine, for all records and states; type correctness of `RaftLog` and the structure it needs; lemmas about the WAL as a history: one more record, a cut, a closed chunk, one more request |
| `RaftLogRecoveryProofs` | the theorems about recovery, live chunks, the log and the votes, and about the chunk files: their order, opening, obsolete chunks |
| `RecordCodecProofs` | the theorems about the codec |
| `PayloadCacheProofs` | lemmas about the cache alone: sums of sizes, what each method keeps |
| `PayloadCacheLoopsProofs` | the theorems about the loops of the cache |
| `RaftLogCacheProofs` | the theorems about the payload cache in the store: reads, eviction, drains, the size it accounts for |
| `RaftLogRefinementProofs` | the store implements `DurableLog` |
| `RaftLogObserversProofs` | the theorems about what readers and snapshots return, what dumps print and what a blocking flush waits for |

### State of `RaftLog`

`log_state`, `log`, `cache` are the fields of the state machine and
`removed_chunks` that of `RaftLog`. The WAL is one sequence `recs` of records,
each with the chunk it is in. A position in it stands for a `Segment`, and a
chunk's id is the number of records before it, as `ChunkId` in the code is the
global offset of the file. Four positions split the sequence: up to `synced` on
stable storage, up to `written` in the files, up to `handed` sent to the
FlushWorker, the rest in the open chunk's buffer. `closed` holds the trailing
state of each closed chunk, `files` the files that exist, `torn` whether the
last one ends in an incomplete record. `snap` and `acked` are history: the state
and log map after each record, and the position the last acknowledged sync
covers. `call` is an `append` in progress.

### Actions

- `append_and_apply` is the whole of the method: check, append to the WAL,
  apply to state, log map and cache, close a full chunk (send its data with a
  sync, start the next chunk with a checkpoint) and `buffer_removable_chunks`.
  An operation that is rejected changes nothing and is no step.
- `append` writes its first entry; `append_next` the following ones;
  `append_reject` ends the call at a rejected one. The FlushWorker may run in
  between, as it may in the code.
- `WorkerWrite`, `WorkerSync`, `WorkerRemove` serve the first request. A request
  with a sync stays in the queue between its write and its sync, so a crash may
  come in between; files are unlinked one at a time, oldest first.
- `Crash(r, incomplete)` keeps some prefix of the records that contains all
  synced ones and may reach into the write under way, perhaps followed by an
  incomplete record. A file without its first record counts as absent.
- `OpenStart`, `ReplayRecord`, `OpenFinish` are `RaftLog::open`; a crash may
  come between any two of them. A gap between files or a rejected record ends in
  `status = "failed"`.

### Observers

`RaftLogObservers` adds one observer at a time to the store (observers do not act
on each other, so pairs of them show nothing new).

- `read` fixes the range of the log map; `read_get` asks the cache and releases
  its lock; `read_load` goes to the file. The cache may be drained between the
  two. A range with `from > to` makes the code's `BTreeMap::range` panic and is
  not called.
- `dump_data` copies the state, the entries, the cache and the set of closed
  chunks; `dump_next` is the iterator. The files stay readable when they are
  unlinked, since the readers hold them open. Iterating a second time reads the
  same copies later, which a slow first iteration covers.
- `dump` and `Dump` start a text over the loaded chunks or over the files of the
  directory; `write_record`, `write_error` and `finish_chunk` print a record, a
  record that does not decode, and the end of a chunk. A `RefDump` of records that
  are still on their way to the file may end in an error or not; the property
  speaks of one that had all records in the files.
- `wait_worker_idle` waits for an empty queue. `blocking_flush` sends a sync flush
  and waits for the callback of that request, not for some earlier sync that has
  reached as far: `behind` counts the requests sent behind it, none or the removal
  of the same flush, and `wait_returns` is enabled when no more than those are
  left. Nobody sends another one meanwhile.
- `open_locked` is the store's `open`, which has to wait for a dump's lock and
  fails at a damaged record (`open_damaged`). `Damage(p)` makes a record of a
  closed store undecodable; a dump may then run before or after `open` tried.

### DurableLog

The content of a store is its marks and, by index, an id and a payload. `Write`
makes one legal change, which the node sees at once; `Sync` makes a prefix of the
changes durable and may promise it; `Fall` takes back a suffix that is not
durable; `Reopen` shows the latest content left. The legal changes are relations
on contents, stated without records or checks. The mapping shows the node what
`log_state` and `read` answer, that is, through the cache and the files, and takes
`snap` for the history. A store may write its content twice in a row (a chunk's
leading checkpoint), hence `Remember`. A failed store is one that stays down.

### RecordCodec

A chunk is a sequence of tokens, one per field that the code writes, so a fault
may hit any field but not a part of one. A checksum is a token that holds the
tokens it covers: no collisions. A fault is a cut anywhere, another number in one
field, or zeros at the end. Decoding dispatches on the type as `decode_payload`
does, and on 5 for the checkpoint, whose frame is `WALRecord`'s and external. A
damaged length may reach beyond the end of the file, which looks like an
incomplete record; the properties claim an error, not which one. The module
justifies what `RaftLog` assumes: that a record is there whole or not at all, that
an incomplete tail is noticed (`torn`), that a damaged record is (`damaged`), and
that a `Segment` is enough to read one.

### What is taken from `chunked-wal`

The crate is not part of the repository, and is modelled from the calls to it and
from `docs/architecture.md`: the FlushWorker serves its queue in order;
closing a chunk sends its data with a sync before anything of the next chunk;
`on_chunk_persisted` reports the trailing state of the chunk before the synced
one, and none for the first chunk of an incarnation; replay sets the boundary
the same way for every closed chunk; a trailing file without a complete first
record is deleted; an incomplete trailing record is cut off
(`truncate_incomplete_record`, on by default), after which the file stays closed
and a new chunk follows. Chunks are closed by their number of records; the
limit on their size is another way to the same event. IO errors are left out.

### Obligations of the caller

The code relies on its caller in ways it does not check. `Contract` names the
obligations a run imposes:

- `fresh_ids`: an appended log id is above everything the log ever reached. A
  leader appends such ids, and a follower whose entries were truncated mostly gets
  entries of a later term; but Raft does not promise it: the entry that takes a
  truncated index may have a lower term than the truncated one, or be the very
  same. Run `evict_unsynced` shows what then happens, `calls` leaves the
  obligation out, and section 4 says which theorems need it;
- `consistent_purge`: the purged id is one of this log's ids or beyond its end;
- `forward_restore`: a state passed to `update_state` is consistent in itself
  and takes nothing back.

The runs that expect a violation leave one out, or check a statement of the
repository that holds under none of them.

### Other abstractions

A payload is its size. Votes are numbers, so totally ordered, while `T::Vote`
is only `PartialOrd`. Indexes are unbounded, while the code's are `u64`; the code
adds one to an index and never comes near the limit unless a caller purges it.
`Option<LogId>` is a pair with `None = <<-1, -1>>`, which makes both the order
and `next_log_index` those of the code. The queue's bound stands for the
back-pressure limit in bytes. A `flush(false)` with nothing pending is left out.

## 3. What the runs check

Three log ids are enough for the interesting cases: two entries of one log and
one of a later term that competes for the second index, so truncation and
re-append, a purge in the middle and a conflicting purge all occur. Chunks of
two or three records close, become obsolete and are unlinked within seven
records. `live` has a fourth id, so that a batch of two fits behind a first entry,
and an eighth record: the boundary moves between the two entries of a batch, and
the second one evicts by the new boundary. A queue of two holds a sync and the
removal behind it; `flush` starts when there is room for both, so `progress` has a
queue of three, where a blocking flush gets in line behind another request.

| Run | Bounds | Shows |
|---|---|---|
| `live` | 8 records, no crash, batches of 2, payloads of two sizes, both cache limits reached | eviction, reads, accounting of the cache, of chunks and of files, in every interleaving with the FlushWorker; `DrainInv`, the inductive invariant of the theorem on drains |
| `calls` | 6 records, chunks of 3, 1 crash, batches of 2, votes, user data, two restored states, truncated ids appended again | types, the consistency of state and log map under every operation, and `RecoveryInv`, the inductive invariant of the recovery theorems; `SizeInv`, that of the theorems on the cache's size, where ids are appended twice |
| `crash` | 6 records, chunks of 2, 2 crashes, two votes, user data, two restored states; a second crash after unlinks occurs | recovery, also of a recovery that crashed; acknowledged votes; the refinement of `DurableLog`; `FilesInv`, `CacheInv` and `FreshInv`, the inductive invariants of the theorems on files and on the cache |
| `progress` | 7 records, a queue of 3, 1 crash, one thread that waits, liveness | the store comes up, syncs complete, waits end, obsolete files go; a flush that was answered is durable, with `WaitInv`, the inductive invariant of the theorem on it |
| `observers` | 6 records, chunks of 2, 1 crash, 1 damaged record, an entry of a later term at index 0 | readers, snapshots and dumps next to the store, with `ItemsInv` and `TextInv`, the inductive invariants of the theorems on items and on texts; a snapshot whose chunks are unlinked under it and a text of a damaged store occur |
| `cache_loops` | 3 keys, sizes 1 and 2, size at most 6 | the loops of the cache end where `PayloadCache` says |
| `codec` | 10 records of every kind, two in a chunk, numbers 0, 1, 2, 5 and 6 as damage: both flags, valid and invalid types, versions and lengths | decoding after every fault |

`calls` has chunks of three, where a purge need not close its chunk: only there
can an unlink overtake the sync of the purge, which is what `LiveChunksOnDisk`
excludes. `crash` has chunks of two, so that chunks become obsolete early enough
for two crashes. `CacheSizeExact` is checked for callers that take nothing back:
`insert` adds the size of a payload without subtracting the one it replaces, so an
id that is still cached and is appended again, after `update_state` has taken an
empty log back, is counted twice.

Violations, each a statement of the repository that the code does not keep:

| Run | Statement | What the code does |
|---|---|---|
| `purge_conflict` | "`purge` additionally rejects a log id that conflicts with the log id stored at that index" (`docs/architecture.md`) | every `PurgeUpto` is accepted |
| `evict_unsynced` | "un-synced data must stay in memory" (`docs/architecture.md`) | when a caller truncates and appends the same id again, `last_evictable` still covers it |
| `restate_rejected` | "`vote`, `committed` and `user_data` are free to change here" (`update_state`) | a log that starts above index 0 with nothing purged rejects its own state |
| `append_partial` | "A rejected write must change nothing" (`test_raft_log.rs`) | an append rejected at its second entry keeps the first |
| `restore_unbuffered` | "Two events can make a chunk removable, and both call this" (`buffer_removable_chunks`) | `update_state` is a third and does not |

Fairness (`FairObservedSpec`). `WF(FlushWorker)`: the thread runs as long as the
store does. `WF(open)`: `open` is one call that returns, and a node that crashed is
started again. `SF(flush(TRUE))`: Raft flushes with sync before it answers, and the
code removes chunks only behind such a flush; the fairness is strong because a
thread in `wait_worker_idle` keeps the call out again and again. `WF(wait_returns)`:
a thread whose request was served, or that finds the worker idle, is woken; no new
request comes while it waits.
Crashes are bounded, so they stop in the end.

## 4. What is proved

The theorems hold for every value of the constants: any chunk size, cache
limits, log ids, batches, contract and bounds, under the assumptions
`ConfigAssumption`, `InputAssumption` and `BoundAssumption` of `RaftLog`,
`CacheLimits` of `PayloadCache`, for its loops `CacheInputs`, for the observers
`ObserversAssumption` and, for the codec, `CodecAssumption`.

**Types** (`RaftLogProofs`). `TypeCorrect`: `Spec => []TypeOK`. The type of a
request or of a replay's position depends on where chunks begin, so `TypeOK`
alone is not inductive; `TypeInv` adds `Structure`: every chunk starts, right
after the records its id counts, with a checkpoint; the open chunk is the last
record's; a write request names the chunk of the last record it covers; a replay
stands at a record of the chunk it reads. `StructureHolds` states that part.

**Recovery** (`RaftLogRecoveryProofs`). For callers that keep `consistent_purge`
and `forward_restore` (`Obliged`; `fresh_ids` is not needed). Both obligations are
needed: a purge with an id of another log, or a restored state that contradicts the
entries, leaves a log that is no log, and the code checks neither.

| Theorem | States |
|---|---|
| `RecoveryInvHolds` | `Spec => []RecoveryInv`, the invariant below |
| `RecoveryIsExact` | `RecoveryExact`: a finished replay has rebuilt the state and log map of the last surviving record |
| `LiveChunksStay` | `LiveChunksOnDisk`: wherever a crash may cut the WAL, the files of the entries live there exist |
| `LogAlwaysMatches` | `LogMatchesState`: state and log map are one consistent log |
| `AckedVoteStays` | `AckedVoteKept`: an acknowledged vote is never taken back |
| `CommittedStays` | `CommittedOnlyPurged`: no step drops a committed entry except behind the purge point |

`RecoveryExact` speaks of the moment a replay ends; what makes it true is spread
over the history that led there. `RecoveryInv` says it all at once:

- `TypeInv`;
- `HistoryInv`: each record passed its check in the view before it and built the
  view after it (`RecordsBuild`); the first record of a chunk restates the state
  reached (`LeadersRestate`), which is what lets a replay start at any chunk;
  all views are consistent logs; chunks ascend; an entry is at the position its
  `LogData` says and has not changed since (`EntriesPlaced`); votes ascend;
- `StoreInv`: memory is the view of the last record; a closed chunk's trailing
  state is the one its last record left; `acked <= synced <= written <= handed`
  and the requests in the queue follow in order; a chunk in `removed_chunks` is
  `Dead`, and a removal in the queue stands behind a sync from which its chunks
  are dead; the files `Hold` what any cut from `synced` on needs; a replay that
  has passed the leading checkpoint has the state of the record it stands at and
  of its log map the entries after the oldest file's start.

The argument. *Removal*: a closed chunk that `buffer_removable_chunks` takes has
a trailing `last` at or below `purged`; since each view is consistent, an entry
of it would lie below `purged`, so none is live, and none can return
(`EntriesPlaced`). `flush` sends the removal behind the sync that covers the
purge, so when the unlink happens every possible cut is after it. *Replay*:
applying a record to the entries after a position gives the entries after that
position of the record applied to the whole map, so replay follows the history
restricted to the files it has, and at the end nothing is missing from the
restriction because the files hold every live entry. *Crash*: a prefix of a
history is a history, and any cut is at or after `synced`.

**Files** (in `RaftLogRecoveryProofs`), for `Obliged` callers unless the table says
otherwise:

| Theorem | States |
|---|---|
| `FilesInvHolds` | `Spec => []FilesInv` |
| `OpenAlwaysSucceeds` | `OpenSucceeds`: `open` never fails on what crashes left |
| `NoFileForgotten` | `FilesAccounted`: a file is open, closed, or on its way out |
| `ObsoleteChunksFound` | `ObsoleteChunksBuffered`, for stores without `update_state` (`RestoreStates = {}`), whatever else their callers do; run `restore_unbuffered` shows that `update_state` breaks it |

`RecoveryInv` says which files must exist, not that the rest has no gap, which is
what `open` checks first. `FilesInv` adds the order: the chunks queued for removal
are older than those in `removed_chunks`, those older than the closed ones, those
older than the open one, and each request removes older chunks than the next
(`InRemovalOrder`). The FlushWorker then always unlinks the oldest file of all,
`FilesAccounted` says there are no others, and so the files stay `Connected`
through every cut. During a replay `closed` is exactly the files before the one
being read (`FilesReplayed`), from which `OpenFinish` restores the order.

**The cache** (`RaftLogCacheProofs`), for `Obliged` callers:

| Theorem | States |
|---|---|
| `CacheInvHolds` | `Spec => []CacheInv` |
| `ReadsAlwaysServe` | `ReadsServeAppended`: a read returns the latest append at its index |
| `FreshInvHolds` | `Spec => []FreshInv` |
| `EvictedStaysDurable` | `EvictedIsDurable`, for callers that also keep `fresh_ids`; run `evict_unsynced` shows that it is needed |
| `DrainInvHolds` | `Spec => []DrainInv`, with `fresh_ids` |
| `DrainAlwaysNormalizes` | `DrainNormalizes`: what a drain leaves depends on the records alone, with `fresh_ids` |
| `SizeInvHolds` | `Spec => []SizeInv` |
| `CacheSizeAlwaysExact` | `CacheSizeExact`: the size is the sum of the payloads held, with `fresh_ids` |
| `InsertsKeepLimits` | `InsertKeepsLimits`: after an append the cache is within its limits, or nothing in it may be evicted |

Reads do not depend on which payloads are cached, only on which payload: a cached
one is that of the latest append of its id among the records applied
(`CachedLatest`), the entry's own record is the latest append at its index
(`PlacedEntry`, from `EntriesPlaced`), and the two are the same record. Eviction
needs more, because the cache decides by id and durability is about positions.
`CacheInv` says that `last_evictable` is the `last` reached before some chunk
began, with everything before that chunk synced; for this `SyncsPrecede` follows
the sync of every closed chunk through the queue. With fresh ids an append is above
everything the log ever reached (`FreshHistory`; `CallFresh` for the entries a
batch has left), so an entry with an id at or below that boundary was written
before the chunk began, and is synced. `EvictedSettled` keeps this for payloads
that have gone, since the boundary may move back (after a truncation) while the
payload stays gone. That its chunk is closed and its file there is `FilesInv`.

`DrainNormalizes` asks for the exact content of a drained cache, and `DrainInv`
keeps the account it needs while the store runs without a crash (a replay starts
another account). `last_evictable` is the `last` reached before the newest chunk
with everything before it synced. An id that was appended and not truncated is
never above `last` again (`KeptUpToLast`), so with `FreshHistory` an id at or below
the end of an old chunk was appended before that end, and all later ends reach it
too (`LostReached`): what was evictable once stays so. Hence `Accounts`: the cache
holds payloads of entries that were not truncated only, and has lost none above the
boundary. A drain takes out the rest, and what remains is determined.

The size. `SizeInv` separates what holds for all callers from what needs fresh ids:
the size covers the payloads (`Covered`), since an insert adds a payload and removals
subtract what they remove; it is their sum if an insert never replaces one. That it
does not is `FreshHistory`: a key of the cache, a purged one that was kept too, was
appended once (`CachedLatest`), and an append is above all ids appended before.
`InsertsKeepLimits` follows from `EvictLimits`, where `Covered` is needed: `try_evict`
states which entries leave by the sizes of those below them, and only with sums
that grow with their sets is that a set the loop can take from the front.

**The loops of the cache** (`PayloadCacheLoopsProofs`), for any keys, sizes and limits:

| Theorem | States |
|---|---|
| `LoopInvHolds` | `Spec => []LoopInv` |
| `LoopsEndAsDefined` | `LoopEndsAsDefined`: a loop ends with the cache `PayloadCache` defines |
| `SizeAlwaysCovers` | `SizeCoversContent`: the size never falls below what the map holds |

`LoopInv` says that the method applied to the cache where the loop stands is the
method applied to the cache it began with (`want = Rest`): popping an end that the
loop may pop, and then doing the rest, is doing all of it. When the loop's condition
fails the rest is nothing, which is where the first or greatest key enters: if that
one stays, all of them do.

Both rest on facts about sums (`PayloadCacheProofs`). `SizeOf` is a fold over a set,
which picks the elements in an order of its own; that it does not depend on this
order, and adds up over disjoint sets, needs induction over finite sets, which the
installed provers cannot apply. It is shown instead by a least counterexample: the
fold is expanded to the function it chooses, the cardinalities at which the claim
fails form a set of numbers, and its least member contradicts the one before it.

**Refinement** (`RaftLogRefinementProofs`). `StoreImplementsDurableLog`: for
`Obliged` callers `Spec => ImplementsDurableLog`. `ServesHolds` gives from
`RecoveryInv` and `CacheInv` that a running store shows what its last record stands
for, and `ToldKept` that a content depends on the records up to it only. Each kind
of record is then shown to be a legal write (`AppendLegal`, `TruncateLegal`,
`PurgeLegal`, `RestoreLegal`, `MarksLegal`, together `WriteLegal`): the check and
the index arithmetic of the code against the relation on ids of `DurableLog`,
which is where the consistency of the log enters. The steps follow: `WriteStep`
(one content remembered, or two where a chunk closed), `SyncStep`, `FallStep` (a cut
of the WAL is a cut of the contents), `ReopenStep` (by `ReplayedAll` the replayed
view is the last one left), and `QuietStep` for all others.

**Observers** (`RaftLogObserversProofs`), of the store composed with its observers,
for `Obliged` callers:

| Theorem | States |
|---|---|
| `ItemsInvHolds` | `ObservedSpec => []ItemsInv`, with `fresh_ids` |
| `ItemsAlwaysExact` | `ItemsExact`: an item is the entry asked for, with its payload, with `fresh_ids` |
| `TextInvHolds` | `ObservedSpec => []TextInv` |
| `TextAlwaysTellsPlace` | `TextTellsPlace`: a line stands under its chunk's title, with its record's index |
| `DamageAlwaysShown` | `DamageIsShown`: the text of a damaged store loses nothing that `open` had read |
| `OfflineDumpAlwaysRebuilds` | `OfflineDumpRebuilds`: the records of an offline text rebuild the last view; its only error is an incomplete last record |
| `RefDumpAlwaysRebuilds` | `RefDumpRebuilds`: the records of the loaded chunks rebuild the present state and log map |
| `WaitInvHolds` | `ObservedSpec => []WaitInv` |
| `FlushAlwaysDurable` | `FlushedWhenAnswered`: a blocking flush that returns has all records synced and acknowledged |

The store keeps its invariants (`StoreSound`): each step of the composition is a
step of `RaftLog` or none, but for an `open` that meets a damaged record, after
which nothing moves (`ObservedSteps`). `ItemsExact` speaks of items already
returned; `ItemsInv` adds what makes the next one right. A reader's entries are in
the log map, which its borrow protects. The cache is not protected: an entry the
reader missed in it must be in a closed chunk and synced when the file is read, and
nothing that runs under the borrow changes that (`ReaderHolds`). A snapshot's entries may be
gone from the store; each has its payload in the copied cache or lies synced in a
chunk the snapshot holds, and records that are written do not change
(`DumpHolds`). Both start from `EvictedIsDurable` (`EntryInReach`).

`TextTellsPlace` and `DamageIsShown` speak of lines; `TextInv` ties them to the place
the text stands at. The last title is that of the chunk being printed, whose first
`index` records are out (`TextPlaced`); of the chunks behind it, exactly the records
in front of any damage are told, with an error for the damage (`TextCounts`, of every
text whose chunks are all written: `Complete`), and without damage nothing but an
incomplete last record is an error (`TextErrors`).
`Ascending` lists each chunk once (`AscendingLists`), a further line leaves the
titles of the earlier ones alone (`LineAdded`), and since chunks ascend, a chunk ends
where the next record is another chunk's (`ChunkPassed`). For what `open` had read,
`DamageAhead` follows the damage: it lies in a file, ahead of a replay, and no store
runs on it; it also keeps the shape of the WAL for a store whose `open` failed, for
which the other invariants claim nothing.

What the records told rebuild is a fold of the code's check and apply, and a step of
it is the step a replay takes: `RunStep`, about any run of records that begins with a
chunk, serves both `open` (`ReplayStep`) and the texts. The fold is over the places
in ascending order; `LeadsExists` and `LeadsOn` unroll it one place at a time, by
induction on the number of places (`AllNumbers`), and `ReplayedRun` concludes that the
records from the start of a chunk on give the last view, but for the entries in front
of them. The rest is which chunks those are (`ChunksRebuild`): for a closed store its
files, which follow one another and have every live entry (`FilesInv`, `Hold`); for a
running store the loaded ones (`LoadedHold`): the chunks being removed are older than
all of them, and dead.

`FlushedWhenAnswered` speaks of the moment a wait may end. `WaitInv` follows the
request until then: counted from the end of the queue it keeps its place
(`WorkerServes`: the FlushWorker takes requests from the front or replaces a removal
by a smaller one), and it covers all records, since nobody appends under the borrow.
When it is served, `WorkerSync` brings `synced` and `acked` to the end
(`WorkerWaited`).

**The codec** (`RecordCodecProofs`), for any records, any number of them and any
numbers as damage (fields are unsigned):

| Theorem | States |
|---|---|
| `CodecInvHolds` | `Spec => []CodecInv` |
| `DecodesWritten` | `DecodesWhatWasWritten`: the records in front of the fault, and no others |
| `FaultsFound` | `FaultsAreErrors`: no fault is taken for the end of the chunk |
| `SegmentsRead` | `SegmentsReadBack`: a segment yields its record, or an error |

Two facts about the codec alone come first. `ReadRecord`: where the tokens of
`encode(rec)` lie, `decode` returns `rec` and stops behind them, whatever follows.
`DecodeResult`: on any tokens at all, `decode` fails, or it stops right behind a
checksum that covers all it has read. The second one bounds what a damaged type,
flag or length can do, for such a field shifts all that is read after it: by
`ChecksumPlace` a token with a non-empty cover is at the end of a segment and
nowhere else, so a decoder that starts at a segment and succeeds has stopped at the
end of some segment; the cover has the length of that segment, which must then be
the one it started at; and the cover holds what was written there, so nothing in
between is damaged (`SegmentFails`). `CodecInv` is what these arguments need of a
chunk: the segments tile it (`SegmentsTile`), hold what was written except for the
damaged token (`BytesHeld`), the fault is where `fault` says (`FaultPlaced`), and
the reader stands at the start of a segment (`ReaderPlaced`). The three properties
alone are not inductive: they do not say where the reader stands.

Left to TLC: the liveness properties (`SyncCompletes` and the other leads-to
properties, `LoopsEnd`), which are out of the prover's reach. Every invariant the
passing runs check is stated by a theorem. The other way round, `LoopInv` and
`CodecInv`, inductive invariants of sequential code, are proved and named in no run.

## 5. Plan

Done: the core (the state machine, the cache, the store with its FlushWorker,
crash and recovery), the observers, the codec, the abstract specification, and the
theorems above, the refinement included.

Not modelled, and why:

- Formatting, error wording, the kinds of rejections, statistics and counters,
  benchmarks and examples: they hold no state of the store, and no property is
  about them.
- IO errors of the WAL. How a failed write, sync or unlink is reported, and what
  state the FlushWorker is in afterwards, is decided in `chunked-wal`, which is
  not in the repository. Two places of this code that such an error would reach
  are among the hazards, with a note.
- Batching of requests in the FlushWorker and the limit of its queue in bytes, for
  the same reason; the queue's bound stands for the latter.
- Votes that are not ordered: `T::Vote` is `PartialOrd`, the model's votes are
  numbers.
