------------------------ MODULE RaftLogObserversProofs ------------------------
(***************************************************************************)
(* The iterators of RaftLog::read and of a DumpRaftLog: every item is the  *)
(* entry that was asked for, whatever runs next to them.  The texts of     *)
(* RaftLog::dump and of Dump: they tell where each record lies, and what   *)
(* is damaged.                                                             *)
(***************************************************************************)
EXTENDS RaftLogCacheProofs, RaftLogObservers, FiniteSetTheorems

---------------------------------------------------------------------------
(* The entries of a range, in order.                                       *)

\* A bounded set of numbers without a gap is an interval.
LEMMA RunIsInterval ==
  ASSUME NEW S, S \subseteq Nat, S # {}, NEW m \in Nat, \A i \in S : i <= m,
         \A i, j \in S : i .. j \subseteq S
  PROVE  \E lo, hi \in Nat : lo <= hi /\ S = lo .. hi
<1>1. PICK lo \in S : \A d \in S : lo <= d
  BY LeastMember
<1> DEFINE R == {m - i : i \in S}
<1>2. R \subseteq Nat /\ R # {}
  OBVIOUS
<1>3. PICK c \in R : \A d \in R : c <= d
  BY <1>2, LeastMember
<1>4. PICK hi \in S : c = m - hi
  BY <1>3
<1>5. \A i \in S : i <= hi
  <2>1. SUFFICES ASSUME NEW i \in S PROVE i <= hi
    OBVIOUS
  <2>2. c <= m - i /\ i \in Nat /\ hi \in Nat
    BY <1>3
  <2> QED
    BY <1>4, <2>2
<1>6. lo \in Nat /\ hi \in Nat /\ lo <= hi /\ S \subseteq lo .. hi /\ lo .. hi \subseteq S
  BY <1>1, <1>4, <1>5
<1> QED
  BY <1>6

\* What Ascending picks from an interval are members of it.
LEMMA AscendingMembers ==
  ASSUME NEW lo \in Nat, NEW hi \in Nat, lo <= hi
  PROVE  /\ Cardinality(lo .. hi) = hi - lo + 1
         /\ \A k \in 1 .. hi - lo + 1 : Ascending(lo .. hi)[k] \in lo .. hi
<1>1. Cardinality(lo .. hi) = hi - lo + 1
  BY FS_Interval
<1>2. ASSUME NEW k \in 1 .. hi - lo + 1
      PROVE  Ascending(lo .. hi)[k] \in lo .. hi
  <2>1. PICK i : i = lo + k - 1
    OBVIOUS
  <2>2. /\ i \in Nat /\ i \in lo .. hi /\ {j \in lo .. hi : j <= i} = lo .. i
        /\ i - lo + 1 = k /\ ~(lo > i)
    BY <2>1
  <2>3. Cardinality(lo .. i) = k
    <3>1. lo \in Int /\ i \in Int
      BY <2>2
    <3>2. Cardinality(lo .. i) = IF lo > i THEN 0 ELSE i - lo + 1
      BY <3>1, FS_Interval
    <3> QED
      BY <2>2, <3>2
  <2>4. \E x \in lo .. hi : Cardinality({j \in lo .. hi : j <= x}) = k
    BY <2>2, <2>3
  <2>5. Ascending(lo .. hi)[k]
          = CHOOSE x \in lo .. hi : Cardinality({j \in lo .. hi : j <= x}) = k
    BY <1>1 DEF Ascending
  <2> QED
    BY <2>4, <2>5
<1> QED
  BY <1>1, <1>2

\* Values lists entries of the log map.
LEMMA ValuesOfLog ==
  ASSUME IsLog(log), WellFormed(log_state, log), log_state \in RaftLogState,
         NEW S, S \subseteq DOMAIN log, \A i, j \in S : i .. j \subseteq S
  PROVE  /\ Values(S) \in Seq(LogData)
         /\ \A k \in 1 .. Len(Values(S)) : \E i \in DOMAIN log : Values(S)[k] = log[i]
<1>1. ASSUME NEW n \in Nat, Cardinality(S) = n, \A k \in 1 .. n : Ascending(S)[k] \in S
      PROVE  /\ Values(S) \in Seq(LogData)
             /\ \A k \in 1 .. Len(Values(S)) : \E i \in DOMAIN log : Values(S)[k] = log[i]
  <2>1. Values(S) = [k \in 1 .. n |-> log[Ascending(S)[k]]]
    BY <1>1 DEF Values
  <2>2. \A k \in 1 .. n : Ascending(S)[k] \in DOMAIN log /\ log[Ascending(S)[k]] \in LogData
    BY <1>1 DEF IsLog
  <2>3. Values(S) \in [1 .. n -> LogData]
    BY <2>1, <2>2
  <2>4. Values(S) \in Seq(LogData) /\ Len(Values(S)) = n
    BY <2>3
  <2> QED
    BY <2>1, <2>2, <2>4
<1>2. CASE S = {}
  BY <1>1, <1>2, FS_EmptySet
<1>3. CASE S # {}
  <2>1. S \subseteq Nat /\ \A i \in S : i <= log_index(log_state.last)
    BY DEF IsLog, WellFormed, LogFits
  <2>2. log_index(log_state.last) \in Nat
    BY <1>3 DEF IsLog, WellFormed, LogFits
  <2>3. PICK lo, hi \in Nat : lo <= hi /\ S = lo .. hi
    BY <1>3, <2>1, <2>2, RunIsInterval
  <2>4. hi - lo + 1 \in Nat
    BY <2>3
  <2> QED
    BY <1>1, <2>3, <2>4, AscendingMembers
<1> QED
  BY <1>2, <1>3

---------------------------------------------------------------------------
(* The store keeps its invariants next to its observers.                   *)

\* What the other modules prove of a store, unless open has refused its files.
StoreSound == status # "failed" => RecoveryInv /\ FilesInv /\ CacheInv /\ FreshInv

\* A step of the store, of an observer or of the disk is a step of module
\* RaftLog or leaves the store alone, but for an open that meets damage; a
\* store whose open failed takes no step.
LEMMA ObservedSteps ==
  ASSUME [ObservedNext]_allvars
  PROVE  /\ [Next]_vars \/ status' = "failed"
         /\ status = "failed" => status' = "failed"
<1>1. CASE StoreRuns
  <2>1. Next
    BY <1>1 DEF StoreRuns, Next, Caller
  <2>2. status = "up"
    BY <1>1 DEF StoreRuns, Caller, FlushWorker, WorkerWrite, WorkerSync, WorkerRemove, Serving,
       Ready, save_vote, save_user_data, append, append_next, append_reject, truncate, purge,
       commit, update_state, flush, drain_cache_evictable
  <2> QED
    BY <2>1, <2>2
<1>2. CASE open_locked
  BY <1>2 DEF open_locked, Next, open, OpenStart, ReplayRecord, OpenFinish
<1>3. CASE open_damaged
  BY <1>3 DEF open_damaged
<1>4. CASE FailObserved
  BY <1>4 DEF FailObserved, Next, Fail, Crash
<1>5. CASE blocking_flush
  <2>1. flush(TRUE) /\ status = "up"
    BY <1>5 DEF blocking_flush, flush, Ready
  <2> QED
    BY <2>1 DEF Next, Caller
<1>6. CASE UNCHANGED vars
  BY <1>6 DEF vars
<1>7. ASSUME NEW p \in 1 .. Len(recs), Damage(p)
      PROVE  UNCHANGED vars
  BY <1>7 DEF Damage
<1>8. CASE Observe /\ ~blocking_flush
  <2>1. UNCHANGED vars
    BY <1>8 DEF Observe, read, read_get, read_load, dump_data, dump_next, dump, Dump,
       write_record, write_error, finish_chunk, wait_worker_idle, wait_returns, drop_observer
  <2> QED
    BY <1>6, <2>1
<1> QED
  BY <1>1, <1>2, <1>3, <1>4, <1>5, <1>6, <1>7, <1>8 DEF ObservedNext, allvars

\* Every step keeps the store's invariants.
LEMMA ObservedSound ==
  ASSUME Obliged, StoreSound, [ObservedNext]_allvars
  PROVE  StoreSound'
<1>1. SUFFICES ASSUME status' # "failed"
               PROVE  RecoveryInv' /\ FilesInv' /\ CacheInv' /\ FreshInv'
  BY DEF StoreSound
<1>2. [Next]_vars /\ status # "failed"
  BY <1>1, ObservedSteps
<1>3. RecoveryInv /\ FilesInv /\ CacheInv /\ FreshInv
  BY <1>2 DEF StoreSound
<1>4. RecoveryInv'
  BY <1>2, <1>3, NextRecovery
<1>5. FilesInv'
  BY <1>2, <1>3, NextFiles
<1>6. OpenSucceeds /\ OpenSucceeds'
  BY <1>1, <1>2 DEF OpenSucceeds
<1>7. CacheInv'
  BY <1>2, <1>3, <1>4, <1>6, NextCache
<1>8. FreshInv'
  BY <1>2, <1>3, <1>4, <1>6, <1>7, NextFresh
<1> QED
  BY <1>4, <1>5, <1>7, <1>8

\* The store starts that way.
LEMMA InitSound ==
  ASSUME Init
  PROVE  StoreSound
<1>1. RecoveryInv /\ FilesInv /\ CacheInv
  BY InitRecovery, InitFiles, InitCache
<1>2. FreshInv
  <2>1. Len(recs) = 0 /\ Len(call.rest) = 0 /\ DOMAIN log = {}
    BY DEF Init, NoCall, EmptyMap
  <2> QED
    BY <2>1 DEF FreshInv, FreshHistory, CallFresh, EvictedSettled, Settled
<1> QED
  BY <1>1, <1>2 DEF StoreSound

\* The store's invariants hold next to its observers.
LEMMA SoundHolds == Obliged => (ObservedSpec => []StoreSound)
<1> SUFFICES ASSUME Obliged PROVE ObservedSpec => []StoreSound
  OBVIOUS
<1>1. ObservedInit => StoreSound
  BY InitSound DEF ObservedInit
<1>2. StoreSound /\ [ObservedNext]_allvars => StoreSound'
  BY ObservedSound
<1> QED
  BY <1>1, <1>2, PTL DEF ObservedSpec

---------------------------------------------------------------------------
(* What the iterators hold while the store runs.                           *)

\* A running store keeps its records, and what is synced stays synced.
LEMMA RunsForward ==
  ASSUME RecoveryInv, Obliged, Caller \/ FlushWorker
  PROVE  /\ status = "up" /\ status' = "up"
         /\ Len(recs) \in Nat /\ Len(recs') \in Nat /\ Len(recs) <= Len(recs')
         /\ \A p \in 1 .. Len(recs) : recs'[p] = recs[p]
         /\ synced \in Nat /\ synced' \in Nat /\ synced <= synced'
<1>1. Len(recs) \in Nat /\ synced \in Nat /\ written \in Nat /\ synced <= written
  BY DiskFacts
<1>2. ASSUME NEW rec \in RaftLogRecord, Writes(rec)
      PROVE  /\ status = "up" /\ status' = "up" /\ synced' = synced
             /\ Len(recs') = Len(recs) + 1 \/ Len(recs') = Len(recs) + 2
             /\ \A p \in 1 .. Len(recs) : recs'[p] = recs[p]
  BY <1>2, RecordAdded DEF Writes, Added
<1>3. ASSUME NEW sync \in BOOLEAN, flush(sync)
      PROVE  status = "up" /\ UNCHANGED <<status, recs, synced>>
  BY <1>3 DEF flush, Ready
<1>4. ASSUME append_reject \/ drain_cache_evictable
      PROVE  status = "up" /\ UNCHANGED <<status, recs, synced>>
  BY <1>4 DEF append_reject, drain_cache_evictable, Ready, wal, worker
<1>5. ASSUME FlushWorker
      PROVE  /\ status = "up" /\ UNCHANGED <<status, recs>>
             /\ synced' = synced \/ synced' = written
  BY <1>5 DEF FlushWorker, WorkerWrite, WorkerSync, WorkerRemove, Serving, wal
<1>6. CASE Caller
  <2>1. CASE \E rec \in RaftLogRecord : Writes(rec)
    BY <1>1, <1>2, <2>1
  <2>2. CASE UNCHANGED <<status, recs, synced>> /\ status = "up"
    BY <1>1, <2>2
  <2> QED
    BY <1>3, <1>4, <1>6, <2>1, <2>2, CallerSteps
<1>7. CASE FlushWorker
  BY <1>1, <1>5, <1>7
<1> QED
  BY <1>6, <1>7

\* Under a borrow of the store nothing else of it changes either.
LEMMA BorrowedStays ==
  ASSUME drain_cache_evictable \/ FlushWorker
  PROVE  UNCHANGED <<log, recs, closed, open_chunk, torn>>
  BY DEF drain_cache_evictable, FlushWorker, WorkerWrite, WorkerSync, WorkerRemove, mem, wal,
     disk

\* A reader while the store does so.
LEMMA ReaderKept ==
  ASSUME ItemsInv, observer.kind = "read",
         UNCHANGED <<observer, status, log, recs, closed>>,
         synced \in Nat, synced' \in Nat, synced <= synced'
  PROVE  ItemsInv'
<1>1. ItemsExact' /\ DumpHolds'
  BY DEF ItemsInv, ItemsExact, DumpHolds
<1>2. ReaderHolds
  BY DEF ItemsInv
<1>3. observer.missed => Current.segment \in Nat
  <2>1. ASSUME observer.missed PROVE Current.segment \in Nat
    <3>1. /\ observer.items \in Seq(Items) /\ observer.logs \in Seq(LogData)
          /\ Len(observer.items) < Len(observer.logs)
      BY <1>2, <2>1 DEF ReaderHolds
    <3>2. Current \in LogData
      BY <3>1 DEF Current
    <3> QED
      BY <3>2 DEF LogData
  <2> QED
    BY <2>1
<1>4. Current' = Current
  BY DEF Current
<1>5. observer.missed => Current'.segment <= synced'
  BY <1>2, <1>3, <1>4 DEF ReaderHolds
<1>6. ReaderHolds'
  BY <1>2, <1>4, <1>5 DEF ReaderHolds
<1> QED
  BY <1>1, <1>6 DEF ItemsInv

\* A dump while the store goes on.
LEMMA DumpKept ==
  ASSUME ItemsInv, observer.kind = "dump_data", observer' = observer, status' = "up",
         Len(recs) \in Nat, Len(recs') \in Nat, Len(recs) <= Len(recs'),
         \A p \in 1 .. Len(recs) : recs'[p] = recs[p],
         synced \in Nat, synced' \in Nat, synced <= synced'
  PROVE  ItemsInv'
<1>1. /\ IsDump(observer) /\ observer.items \in Seq(Items) /\ observer.logs \in Seq(LogData)
      /\ Len(observer.items) <= Len(observer.logs)
  BY DEF ItemsInv, DumpHolds, IsDump
<1>2. ASSUME NEW k \in 1 .. Len(observer.logs)
      PROVE  LET data == observer.logs[k] IN
             /\ data \in LogData /\ data.segment \in 1 .. Len(recs)
             /\ recs'[data.segment] = recs[data.segment]
             /\ load_record(data).type = "Append"
             /\ \/ /\ data.log_id \in DOMAIN observer.cache
                   /\ observer.cache[data.log_id] = load_record(data).payload
                \/ /\ data.log_id \notin DOMAIN observer.cache
                   /\ data.chunk_id \in observer.record_reader
                   /\ data.segment <= synced
  BY <1>1 DEF ItemsInv, DumpHolds
<1>3. ItemsExact'
  <2>1. SUFFICES ASSUME NEW k \in 1 .. Len(observer.items)
                 PROVE  observer.items[k] = Item(observer.logs[k].log_id,
                                                 recs'[observer.logs[k].segment].rec.payload)
    BY DEF ItemsExact
  <2>2. k \in 1 .. Len(observer.logs)
    BY <1>1
  <2> QED
    BY <1>2, <2>2 DEF ItemsInv, ItemsExact
<1>4. ASSUME NEW k \in 1 .. Len(observer.logs)
      PROVE  LET data == observer.logs[k] IN
             /\ data.segment \in 1 .. Len(recs') /\ recs'[data.segment].rec.type = "Append"
             /\ \/ /\ data.log_id \in DOMAIN observer.cache
                   /\ observer.cache[data.log_id] = recs'[data.segment].rec.payload
                \/ /\ data.log_id \notin DOMAIN observer.cache
                   /\ data.chunk_id \in observer.record_reader
                   /\ data.segment <= synced'
  <2>1. PICK data, s : data = observer.logs[k] /\ s = data.segment
    OBVIOUS
  <2>2. s \in 1 .. Len(recs) /\ recs'[s] = recs[s]
    BY <1>2, <2>1
  <2>3. s \in 1 .. Len(recs') /\ (s <= synced => s <= synced')
    BY <2>2
  <2>4. load_record(data) = recs'[s].rec
    BY <2>1, <2>2 DEF load_record
  <2>5. /\ load_record(data).type = "Append"
        /\ \/ /\ data.log_id \in DOMAIN observer.cache
              /\ observer.cache[data.log_id] = load_record(data).payload
           \/ /\ data.log_id \notin DOMAIN observer.cache
              /\ data.chunk_id \in observer.record_reader
              /\ s <= synced
    BY <1>2, <2>1
  <2> QED
    BY <2>1, <2>3, <2>4, <2>5, Zenon
<1>5. DumpHolds'
  BY <1>1, <1>4 DEF DumpHolds, load_record
<1> QED
  BY <1>3, <1>5 DEF ItemsInv, ReaderHolds

---------------------------------------------------------------------------
(* The steps of the iterators.                                             *)

\* An entry of a running store's log map: its record, and where its payload is.
LEMMA EntryInReach ==
  ASSUME RecoveryInv, FilesInv, CacheInv, FreshInv, "fresh_ids" \in Contract, status = "up",
         NEW i \in DOMAIN log
  PROVE  LET data == log[i] IN
         /\ data \in LogData /\ data.segment \in 1 .. Len(recs)
         /\ load_record(data).type = "Append" /\ load_record(data).payload \in Payload
         /\ data.log_id \in Keys(cache) => cache.cache[data.log_id] = load_record(data).payload
         /\ data.log_id \notin Keys(cache) =>
              data.chunk_id \in DOMAIN closed /\ data.segment <= synced
<1>1. log[i] \in LogData
  BY UpFacts DEF IsLog
<1>2. /\ log[i].segment \in 1 .. Len(recs) /\ load_record(log[i]).type = "Append"
      /\ read_payload(log[i]) = load_record(log[i]).payload
  BY PayloadServed DEF load_record
<1>3. load_record(log[i]) \in RaftLogRecord
  <2>1. recs \in Seq(WalEntry)
    BY UpFacts DEF Wal
  <2>2. recs[log[i].segment] \in WalEntry
    BY <1>2, <2>1
  <2> QED
    BY <2>2 DEF load_record, WalEntry
<1>4. load_record(log[i]).payload \in Payload
  BY <1>2, <1>3, RecordTypes
<1>5. EvictedIsDurable
  BY SettledIsDurable
<1> QED
  BY <1>1, <1>2, <1>4, <1>5 DEF EvictedIsDurable, read_payload

\* RaftLog::read
LEMMA ReadStarts ==
  ASSUME RecoveryInv, NEW from \in Indexes, NEW to \in Indexes, read(from, to)
  PROVE  ItemsInv'
<1> DEFINE S == {i \in DOMAIN log : from <= i /\ i < to}
<1>1. /\ status = "up" /\ UNCHANGED <<status, log, recs>>
      /\ observer' = [kind |-> "read", missed |-> FALSE, items |-> <<>>, logs |-> Values(S)]
  BY DEF read, Shared, vars, mem, wal
<1>2. IsLog(log) /\ WellFormed(log_state, log) /\ log_state \in RaftLogState
  BY <1>1, UpFacts
<1>3. from \in Nat /\ to \in Nat
  BY InputAssumption DEF Indexes, log_index, next_log_index, LogId
<1>4. \A i, j \in S : i .. j \subseteq S
  <2>1. SUFFICES ASSUME NEW i \in S, NEW j \in S, NEW x \in i .. j PROVE x \in S
    OBVIOUS
  <2>2. i \in Nat /\ j \in Nat /\ i .. j \subseteq DOMAIN log
    BY <1>2 DEF IsLog, WellFormed, LogIsRun
  <2> QED
    BY <1>3, <2>2
<1>5. /\ Values(S) \in Seq(LogData)
      /\ \A k \in 1 .. Len(Values(S)) : \E i \in DOMAIN log : Values(S)[k] = log[i]
  BY <1>2, <1>4, ValuesOfLog
<1> HIDE DEF S
<1>6. /\ observer'.kind = "read" /\ observer'.items = <<>> /\ observer'.logs = Values(S)
      /\ observer'.missed = FALSE /\ Len(observer'.items) = 0
      /\ observer' \in [kind : {"read"}, missed : BOOLEAN, items : Seq(Items), logs : Seq(LogData)]
  BY <1>1, <1>5
<1>7. ItemsExact' /\ DumpHolds'
  BY <1>6 DEF ItemsExact, DumpHolds
<1>8. ReaderHolds'
  BY <1>1, <1>5, <1>6 DEF ReaderHolds
<1> QED
  BY <1>7, <1>8 DEF ItemsInv

\* RaftLog::dump_data
LEMMA DumpStarts ==
  ASSUME RecoveryInv, FilesInv, CacheInv, FreshInv, "fresh_ids" \in Contract, dump_data
  PROVE  ItemsInv'
<1> DEFINE V == Values(DOMAIN log)
<1>1. /\ status = "up" /\ UNCHANGED <<status, recs, synced>>
      /\ observer' = [kind |-> "dump_data", state |-> log_state, logs |-> V,
                      cache |-> cache.cache, record_reader |-> DOMAIN closed,
                      cache_hit |-> 0, cache_miss |-> 0, items |-> <<>>]
  BY DEF dump_data, Shared, vars, wal, worker
<1>2. IsLog(log) /\ WellFormed(log_state, log) /\ log_state \in RaftLogState
  BY <1>1, UpFacts
<1>3. V \in Seq(LogData) /\ \A k \in 1 .. Len(V) : \E i \in DOMAIN log : V[k] = log[i]
  <2>1. \A i, j \in DOMAIN log : i .. j \subseteq DOMAIN log
    BY <1>2 DEF WellFormed, LogIsRun
  <2> QED
    BY <1>2, <2>1, ValuesOfLog
<1> HIDE DEF V
<1>4. /\ observer'.kind = "dump_data" /\ observer'.items = <<>> /\ observer'.logs = V
      /\ observer'.cache = cache.cache /\ observer'.record_reader = DOMAIN closed
      /\ Len(observer'.items) = 0 /\ observer'.items \in Seq(Items)
  BY <1>1
<1>5. IsDump(observer')
  BY <1>1, <1>3, <1>4 DEF IsDump
<1>6. ASSUME NEW k \in 1 .. Len(V)
      PROVE  LET data == V[k] IN
             /\ data.segment \in 1 .. Len(recs) /\ load_record(data).type = "Append"
             /\ \/ /\ data.log_id \in DOMAIN cache.cache
                   /\ cache.cache[data.log_id] = load_record(data).payload
                \/ /\ data.log_id \notin DOMAIN cache.cache
                   /\ data.chunk_id \in DOMAIN closed
                   /\ data.segment <= synced
  <2>1. PICK i \in DOMAIN log : V[k] = log[i]
    BY <1>3
  <2> QED
    BY <1>1, <2>1, EntryInReach DEF Keys
<1>7. DumpHolds'
  BY <1>1, <1>4, <1>5, <1>6 DEF DumpHolds, load_record
<1>8. ItemsExact' /\ ReaderHolds'
  BY <1>4 DEF ItemsExact, ReaderHolds
<1> QED
  BY <1>7, <1>8 DEF ItemsInv

\* The next item of an iterator, when it is the entry the iterator is at.
LEMMA ItemAdded ==
  ASSUME NEW items \in Seq(Items), NEW logs \in Seq(LogData), Len(items) < Len(logs),
         \A k \in 1 .. Len(items) :
           items[k] = Item(logs[k].log_id, load_record(logs[k]).payload),
         NEW data, data = logs[Len(items) + 1], load_record(data).payload \in Payload,
         NEW it, it = Item(data.log_id, load_record(data).payload)
  PROVE  LET new == Append(items, it) IN
         /\ new \in Seq(Items) /\ Len(new) <= Len(logs)
         /\ \A k \in 1 .. Len(new) :
              new[k] = Item(logs[k].log_id, load_record(logs[k]).payload)
<1>1. data \in LogData
  OBVIOUS
<1>2. it \in Items
  BY <1>1 DEF Items, Item, LogData
<1>3. PICK new, n : new = Append(items, it) /\ n = Len(items)
  OBVIOUS
<1>4. /\ n \in Nat /\ new \in Seq(Items) /\ Len(new) = n + 1 /\ Len(new) <= Len(logs)
      /\ \A k \in 1 .. n : new[k] = items[k]
      /\ new[n + 1] = it
  BY <1>2, <1>3
<1>5. \A k \in 1 .. Len(new) : k \in 1 .. n \/ k = n + 1
  BY <1>4
<1> QED
  BY <1>3, <1>4, <1>5

\* The entry a reader is at is one of the log.
LEMMA ReaderAt ==
  ASSUME RecoveryInv, FilesInv, CacheInv, FreshInv, "fresh_ids" \in Contract,
         ItemsInv, AtEntry("read")
  PROVE  /\ status = "up" /\ observer.kind = "read"
         /\ observer \in [kind : {"read"}, missed : BOOLEAN, items : Seq(Items),
                          logs : Seq(LogData)]
         /\ observer.items \in Seq(Items) /\ observer.logs \in Seq(LogData)
         /\ Len(observer.items) < Len(observer.logs)
         /\ \A k \in 1 .. Len(observer.items) :
              observer.items[k] =
                Item(observer.logs[k].log_id, load_record(observer.logs[k]).payload)
         /\ \A k \in 1 .. Len(observer.logs) : \E i \in DOMAIN log : observer.logs[k] = log[i]
         /\ Current.segment \in Nat
         /\ load_record(Current).type = "Append" /\ load_record(Current).payload \in Payload
         /\ Current.log_id \in Keys(cache) =>
              cache.cache[Current.log_id] = load_record(Current).payload
         /\ Current.log_id \notin Keys(cache) =>
              Current.chunk_id \in DOMAIN closed /\ Current.segment <= synced
<1>1. /\ status = "up" /\ observer.kind = "read" /\ Len(observer.items) < Len(observer.logs)
      /\ observer \in [kind : {"read"}, missed : BOOLEAN, items : Seq(Items),
                       logs : Seq(LogData)]
      /\ \A k \in 1 .. Len(observer.logs) : \E i \in DOMAIN log : observer.logs[k] = log[i]
  BY DEF AtEntry, ItemsInv, ReaderHolds
<1>2. observer.items \in Seq(Items) /\ observer.logs \in Seq(LogData)
  BY <1>1
<1>3. Len(observer.items) + 1 \in 1 .. Len(observer.logs)
  BY <1>1, <1>2
<1>4. PICK i \in DOMAIN log : Current = log[i]
  BY <1>1, <1>3 DEF Current
<1>5. \A k \in 1 .. Len(observer.items) :
        observer.items[k] =
          Item(observer.logs[k].log_id, load_record(observer.logs[k]).payload)
  BY <1>1 DEF ItemsInv, ItemsExact, load_record
<1>6. /\ Current.segment \in 1 .. Len(recs)
      /\ load_record(Current).type = "Append" /\ load_record(Current).payload \in Payload
      /\ Current.log_id \in Keys(cache) =>
           cache.cache[Current.log_id] = load_record(Current).payload
      /\ Current.log_id \notin Keys(cache) =>
           Current.chunk_id \in DOMAIN closed /\ Current.segment <= synced
  BY <1>1, <1>4, EntryInReach
<1>7. Current.segment \in Nat
  BY <1>6
<1> QED
  BY <1>1, <1>2, <1>5, <1>6, <1>7

\* A reader gets its next item, the right one.
LEMMA ReaderAdvances ==
  ASSUME RecoveryInv, FilesInv, CacheInv, FreshInv, "fresh_ids" \in Contract,
         ItemsInv, AtEntry("read"), UNCHANGED vars, NEW it,
         it = Item(Current.log_id, load_record(Current).payload),
         observer' = [observer EXCEPT !.missed = FALSE, !.items = Append(observer.items, it)]
  PROVE  ItemsInv'
<1>1. UNCHANGED <<status, log, recs>>
  BY DEF vars, mem, wal
<1>2. /\ status = "up" /\ observer.kind = "read"
      /\ observer \in [kind : {"read"}, missed : BOOLEAN, items : Seq(Items),
                       logs : Seq(LogData)]
      /\ observer.items \in Seq(Items) /\ observer.logs \in Seq(LogData)
      /\ Len(observer.items) < Len(observer.logs)
      /\ \A k \in 1 .. Len(observer.items) :
           observer.items[k] =
             Item(observer.logs[k].log_id, load_record(observer.logs[k]).payload)
      /\ \A k \in 1 .. Len(observer.logs) : \E i \in DOMAIN log : observer.logs[k] = log[i]
      /\ load_record(Current).payload \in Payload
  BY ReaderAt
<1>3. PICK new : new = Append(observer.items, it)
  OBVIOUS
<1>4. /\ new \in Seq(Items) /\ Len(new) <= Len(observer.logs)
      /\ \A k \in 1 .. Len(new) :
           new[k] = Item(observer.logs[k].log_id, load_record(observer.logs[k]).payload)
  BY <1>2, <1>3, ItemAdded DEF Current
<1>5. /\ observer' \in [kind : {"read"}, missed : BOOLEAN, items : Seq(Items),
                        logs : Seq(LogData)]
      /\ observer'.kind = "read" /\ observer'.missed = FALSE
      /\ observer'.items = new /\ observer'.logs = observer.logs
  BY <1>2, <1>3, <1>4
<1>6. ItemsExact' /\ DumpHolds'
  BY <1>1, <1>4, <1>5 DEF ItemsExact, DumpHolds, load_record
<1>7. ReaderHolds'
  BY <1>1, <1>2, <1>4, <1>5 DEF ReaderHolds
<1> QED
  BY <1>6, <1>7 DEF ItemsInv

\* The reader asks the cache.
LEMMA ReadGets ==
  ASSUME RecoveryInv, FilesInv, CacheInv, FreshInv, "fresh_ids" \in Contract,
         ItemsInv, read_get
  PROVE  ItemsInv'
<1>1. AtEntry("read") /\ ~observer.missed /\ UNCHANGED vars
  BY DEF read_get
<1>2. /\ status = "up" /\ observer.kind = "read"
      /\ observer \in [kind : {"read"}, missed : BOOLEAN, items : Seq(Items),
                       logs : Seq(LogData)]
      /\ Len(observer.items) < Len(observer.logs)
      /\ Current.log_id \in Keys(cache) =>
           cache.cache[Current.log_id] = load_record(Current).payload
      /\ Current.log_id \notin Keys(cache) =>
           Current.chunk_id \in DOMAIN closed /\ Current.segment <= synced
  BY <1>1, ReaderAt
<1>3. CASE Current.log_id \in Keys(cache)
  <2>1. PICK it : it = Item(Current.log_id, cache.cache[Current.log_id])
    OBVIOUS
  <2>2. observer' = [observer EXCEPT !.items = Append(observer.items, it)]
    BY <1>3, <2>1 DEF read_get
  <2>3. observer' = [observer EXCEPT !.missed = FALSE, !.items = Append(observer.items, it)]
    BY <1>1, <1>2, <2>2
  <2> QED
    BY <1>1, <1>2, <1>3, <2>1, <2>3, ReaderAdvances
<1>4. CASE Current.log_id \notin Keys(cache)
  <2>1. observer' = [observer EXCEPT !.missed = TRUE]
    BY <1>4 DEF read_get
  <2>2. UNCHANGED <<status, log, recs, closed, synced>>
    BY <1>1 DEF vars, mem, wal, worker
  <2>3. /\ observer' \in [kind : {"read"}, missed : BOOLEAN, items : Seq(Items),
                          logs : Seq(LogData)]
        /\ observer'.kind = "read"
        /\ observer'.items = observer.items /\ observer'.logs = observer.logs
    BY <1>2, <2>1
  <2>4. Current' = Current
    BY <2>3 DEF Current
  <2>5. ReaderHolds'
    BY <1>2, <1>4, <2>2, <2>3, <2>4 DEF ItemsInv, ReaderHolds
  <2>6. ItemsExact' /\ DumpHolds'
    BY <1>2, <2>2, <2>3 DEF ItemsInv, ItemsExact, DumpHolds
  <2> QED
    BY <2>5, <2>6 DEF ItemsInv
<1> QED
  BY <1>3, <1>4

\* The reader loads the record of an entry it missed.
LEMMA ReadLoads ==
  ASSUME RecoveryInv, FilesInv, CacheInv, FreshInv, "fresh_ids" \in Contract,
         ItemsInv, read_load
  PROVE  ItemsInv'
<1>1. AtEntry("read") /\ observer.missed /\ UNCHANGED vars
  BY DEF read_load
<1>2. /\ observer.kind = "read" /\ load_record(Current).type = "Append"
      /\ Current.segment \in Nat
  BY <1>1, ReaderAt
<1>3. Current.chunk_id \in DOMAIN closed /\ Current.segment <= synced
  BY <1>1, <1>2 DEF ItemsInv, ReaderHolds
<1>4. synced \in Nat /\ written \in Nat /\ synced <= written
  BY DiskFacts
<1>5. Current.segment <= written
  BY <1>2, <1>3, <1>4
<1>6. PICK it : it = FetchItem(Current, DOMAIN closed \cup {open_chunk})
  OBVIOUS
<1>7. it = Item(Current.log_id, load_record(Current).payload)
  BY <1>2, <1>3, <1>5, <1>6 DEF FetchItem
<1>8. observer' = [observer EXCEPT !.missed = FALSE, !.items = Append(observer.items, it)]
  BY <1>6 DEF read_load
<1> QED
  BY <1>1, <1>7, <1>8, ReaderAdvances

\* DumpRaftLogIter::next: from the copied cache, or from a chunk the dump holds.
LEMMA DumpAdvances ==
  ASSUME RecoveryInv, ItemsInv, dump_next
  PROVE  ItemsInv'
<1>1. /\ observer.kind = "dump_data" /\ Len(observer.items) < Len(observer.logs)
      /\ UNCHANGED <<status, recs, synced>>
  BY DEF dump_next, AtEntry, vars, wal, worker
<1>2. /\ status = "up" /\ IsDump(observer) /\ observer.items \in Seq(Items)
      /\ observer.logs \in Seq(LogData)
  BY <1>1 DEF ItemsInv, DumpHolds, IsDump
<1>3. Len(observer.items) + 1 \in 1 .. Len(observer.logs)
  BY <1>1, <1>2
<1>4. /\ Current.segment \in 1 .. Len(recs) /\ load_record(Current).type = "Append"
      /\ \/ /\ Current.log_id \in DOMAIN observer.cache
            /\ observer.cache[Current.log_id] = load_record(Current).payload
         \/ /\ Current.log_id \notin DOMAIN observer.cache
            /\ Current.chunk_id \in observer.record_reader
            /\ Current.segment <= synced
  BY <1>1, <1>3 DEF ItemsInv, DumpHolds, Current
<1>5. load_record(Current).payload \in Payload
  <2>1. recs \in Seq(WalEntry)
    BY <1>2, UpFacts DEF Wal
  <2>2. recs[Current.segment] \in WalEntry
    BY <1>4, <2>1
  <2>3. load_record(Current) \in RaftLogRecord
    BY <2>2 DEF load_record, WalEntry
  <2> QED
    BY <1>4, <2>3, RecordTypes
<1>6. PICK it : it = IF Current.log_id \in DOMAIN observer.cache
                     THEN Item(Current.log_id, observer.cache[Current.log_id])
                     ELSE FetchItem(Current, record_reader)
  OBVIOUS
<1>7. it = Item(Current.log_id, load_record(Current).payload)
  <2>1. Len(recs) \in Nat /\ synced \in Nat /\ written \in Nat /\ synced <= written
    BY DiskFacts
  <2>2. Current.segment <= synced => Current.segment <= written
    BY <1>4, <2>1
  <2> QED
    BY <1>4, <1>6, <2>2 DEF FetchItem, record_reader
<1>8. PICK new : new = Append(observer.items, it)
  OBVIOUS
<1>9. /\ new \in Seq(Items) /\ Len(new) <= Len(observer.logs)
      /\ \A k \in 1 .. Len(new) :
           new[k] = Item(observer.logs[k].log_id, load_record(observer.logs[k]).payload)
  <2>1. \A k \in 1 .. Len(observer.items) :
          observer.items[k] =
            Item(observer.logs[k].log_id, load_record(observer.logs[k]).payload)
    BY <1>1 DEF ItemsInv, ItemsExact, load_record
  <2> QED
    <3>1. PICK items, logs, data : items = observer.items /\ logs = observer.logs /\ data = Current
      OBVIOUS
    <3>2. /\ items \in Seq(Items) /\ logs \in Seq(LogData) /\ Len(items) < Len(logs)
          /\ data = logs[Len(items) + 1] /\ load_record(data).payload \in Payload
          /\ it = Item(data.log_id, load_record(data).payload)
          /\ \A k \in 1 .. Len(items) :
               items[k] = Item(logs[k].log_id, load_record(logs[k]).payload)
      BY <1>1, <1>2, <1>5, <1>7, <2>1, <3>1 DEF Current
    <3>3. /\ Append(items, it) \in Seq(Items) /\ Len(Append(items, it)) <= Len(logs)
          /\ \A k \in 1 .. Len(Append(items, it)) :
               Append(items, it)[k] = Item(logs[k].log_id, load_record(logs[k]).payload)
      BY <3>2, ItemAdded
    <3> QED
      BY <1>8, <3>1, <3>3, Zenon
<1>10. PICK hit, miss : observer' = [observer EXCEPT !.cache_hit = hit, !.cache_miss = miss,
                                                     !.items = new]
  <2>1. PICK hit : hit = (IF Current.log_id \in DOMAIN observer.cache
                          THEN observer.cache_hit + 1 ELSE observer.cache_hit)
    OBVIOUS
  <2>2. PICK miss : miss = (IF Current.log_id \in DOMAIN observer.cache
                            THEN observer.cache_miss ELSE observer.cache_miss + 1)
    OBVIOUS
  <2>3. observer' = [observer EXCEPT !.cache_hit = hit, !.cache_miss = miss, !.items = new]
    BY <1>6, <1>8, <2>1, <2>2 DEF dump_next
  <2> QED
    BY <2>3
<1>11. observer' = [kind |-> "dump_data", state |-> observer.state, logs |-> observer.logs,
                    cache |-> observer.cache, record_reader |-> observer.record_reader,
                    cache_hit |-> hit, cache_miss |-> miss, items |-> new]
  <2>1. PICK st, lg, ca, rr, ch, cm, is :
          observer = [kind |-> "dump_data", state |-> st, logs |-> lg, cache |-> ca,
                      record_reader |-> rr, cache_hit |-> ch, cache_miss |-> cm, items |-> is]
    BY <1>2 DEF IsDump
  <2> QED
    BY <1>10, <2>1
<1>12. /\ observer'.kind = "dump_data" /\ observer'.items = new
       /\ observer'.logs = observer.logs /\ observer'.cache = observer.cache
       /\ observer'.record_reader = observer.record_reader
  BY <1>11
<1>13. IsDump(observer')
  BY <1>2, <1>9, <1>11, <1>12 DEF IsDump
<1>14. ItemsExact' /\ ReaderHolds'
  BY <1>1, <1>9, <1>12 DEF ItemsExact, ReaderHolds, load_record
<1>15. DumpHolds'
  BY <1>1, <1>2, <1>12, <1>13 DEF ItemsInv, DumpHolds, load_record
<1> QED
  BY <1>14, <1>15 DEF ItemsInv

---------------------------------------------------------------------------
(* Every step.                                                             *)

\* Every observer has a kind.
HasKind == "kind" \in DOMAIN observer

\* A thread starts to wait.
LEMMA WaitKind ==
  ASSUME wait_worker_idle \/ blocking_flush
  PROVE  observer'.kind = "wait" /\ "kind" \in DOMAIN observer'
<1>1. PICK x, n : observer' = [kind |-> "wait", for |-> x, behind |-> n]
  BY Zenon DEF wait_worker_idle, blocking_flush
<1> QED
  BY <1>1

\* A step on a text, or a wait, starts or ends no iterator.
LEMMA TextSteps ==
  ASSUME HasKind, observer.kind \notin {"read", "dump_data"}, Observe,
         \A from, to \in Indexes : ~read(from, to), ~dump_data
  PROVE  observer'.kind \notin {"read", "dump_data"}
<1>1. ~read_get /\ ~read_load /\ ~dump_next
  BY DEF read_get, read_load, dump_next, AtEntry
<1>2. CASE dump \/ Dump
  BY <1>2 DEF dump, Dump, TextDump
<1>3. CASE write_record
  BY <1>3 DEF write_record, HasKind
<1>4. CASE write_error \/ finish_chunk
  BY <1>4 DEF write_error, finish_chunk, NextChunk, HasKind
<1>5. CASE wait_worker_idle \/ blocking_flush
  BY <1>5, WaitKind
<1>6. CASE wait_returns \/ drop_observer
  BY <1>6 DEF wait_returns, drop_observer, NoObserver
<1> QED
  BY <1>1, <1>2, <1>3, <1>4, <1>5, <1>6 DEF Observe

\* An observer keeps having one.
LEMMA KindStays ==
  ASSUME HasKind, [ObservedNext]_allvars
  PROVE  HasKind'
<1>1. CASE UNCHANGED observer
  BY <1>1 DEF HasKind
<1>2. CASE FailObserved \/ wait_returns \/ drop_observer
  BY <1>2 DEF FailObserved, wait_returns, drop_observer, NoObserver, HasKind
<1>3. ASSUME NEW from \in Indexes, NEW to \in Indexes, read(from, to)
      PROVE  HasKind'
  BY <1>3 DEF read, HasKind
<1>4. CASE read_get \/ read_load \/ dump_next
  BY <1>4 DEF read_get, read_load, dump_next, HasKind
<1>5. CASE dump_data \/ dump \/ Dump
  BY <1>5 DEF dump_data, dump, Dump, TextDump, HasKind
<1>6. CASE write_record \/ write_error \/ finish_chunk
  BY <1>6 DEF write_record, write_error, finish_chunk, NextChunk, HasKind
<1>7. CASE wait_worker_idle \/ blocking_flush
  BY <1>7, WaitKind DEF HasKind
<1>8. CASE StoreRuns \/ open_locked \/ open_damaged \/ \E p \in 1 .. Len(recs) : Damage(p)
  BY <1>1, <1>8 DEF StoreRuns, open_locked, open_damaged, Damage
<1>9. CASE UNCHANGED allvars
  BY <1>1, <1>9 DEF allvars
<1> QED
  BY <1>2, <1>3, <1>4, <1>5, <1>6, <1>7, <1>8, <1>9 DEF ObservedNext, Observe

\* Every step keeps what the iterators hold.
LEMMA ObservedItems ==
  ASSUME Obliged, "fresh_ids" \in Contract, StoreSound, HasKind, ItemsInv,
         [ObservedNext]_allvars
  PROVE  ItemsInv'
<1>1. ASSUME observer'.kind \notin {"read", "dump_data"} PROVE ItemsInv'
  BY <1>1 DEF ItemsInv, ItemsExact, ReaderHolds, DumpHolds
<1>2. observer.kind \in {"read", "dump_data"} => status = "up"
  BY DEF ItemsInv, ReaderHolds, DumpHolds
<1>3. status = "up" => RecoveryInv /\ FilesInv /\ CacheInv /\ FreshInv
  BY DEF StoreSound
<1>4. ASSUME UNCHANGED <<vars, observer>> PROVE ItemsInv'
  BY <1>4 DEF vars, mem, wal, worker, ItemsInv, ItemsExact, ReaderHolds, DumpHolds, Current,
     load_record
<1>5. CASE StoreRuns
  <2>1. /\ observer' = observer
        /\ (~Borrowed /\ Caller) \/ drain_cache_evictable \/ FlushWorker
    BY <1>5 DEF StoreRuns
  <2>2. CASE observer.kind = "read"
    <3>1. drain_cache_evictable \/ FlushWorker
      BY <2>1, <2>2 DEF Borrowed
    <3>2. UNCHANGED <<log, recs, closed>>
      BY <3>1, BorrowedStays
    <3>3. Caller \/ FlushWorker
      BY <3>1 DEF Caller
    <3>4. /\ status = "up" /\ status' = "up"
          /\ synced \in Nat /\ synced' \in Nat /\ synced <= synced'
      BY <1>2, <1>3, <2>2, <3>3, RunsForward
    <3> QED
      BY <2>1, <2>2, <3>2, <3>4, ReaderKept
  <2>3. CASE observer.kind = "dump_data"
    <3>1. Caller \/ FlushWorker
      BY <2>1 DEF Caller
    <3>2. /\ status' = "up"
          /\ Len(recs) \in Nat /\ Len(recs') \in Nat /\ Len(recs) <= Len(recs')
          /\ \A p \in 1 .. Len(recs) : recs'[p] = recs[p]
          /\ synced \in Nat /\ synced' \in Nat /\ synced <= synced'
      BY <1>2, <1>3, <2>3, <3>1, RunsForward
    <3> QED
      BY <2>1, <2>3, <3>2, DumpKept
  <2>4. CASE observer.kind \notin {"read", "dump_data"}
    BY <1>1, <2>1, <2>4
  <2> QED
    BY <2>2, <2>3, <2>4
<1>6. CASE open_locked \/ open_damaged
  <2>1. status # "up" /\ observer' = observer
    BY <1>6 DEF open_locked, open_damaged, OpenStart, ReplayRecord, OpenFinish
  <2> QED
    BY <1>1, <1>2, <2>1
<1>7. CASE FailObserved
  BY <1>1, <1>7 DEF FailObserved, NoObserver
<1>8. CASE \E p \in 1 .. Len(recs) : Damage(p)
  BY <1>4, <1>8 DEF Damage
<1>9. ASSUME NEW from \in Indexes, NEW to \in Indexes, read(from, to)
      PROVE  ItemsInv'
  <2>1. status = "up"
    BY <1>9 DEF read, Shared
  <2> QED
    BY <1>3, <1>9, <2>1, ReadStarts
<1>10. CASE dump_data
  <2>1. status = "up"
    BY <1>10 DEF dump_data, Shared
  <2> QED
    BY <1>3, <1>10, <2>1, DumpStarts
<1>11. CASE read_get \/ read_load
  <2>1. observer.kind = "read"
    BY <1>11 DEF read_get, read_load, AtEntry
  <2> QED
    BY <1>2, <1>3, <1>11, <2>1, ReadGets, ReadLoads
<1>12. CASE dump_next
  <2>1. observer.kind = "dump_data"
    BY <1>12 DEF dump_next, AtEntry
  <2> QED
    BY <1>2, <1>3, <1>12, <2>1, DumpAdvances
<1>13. CASE Observe /\ observer.kind \notin {"read", "dump_data"}
  BY <1>1, <1>9, <1>10, <1>13, TextSteps
<1>14. CASE drop_observer
  BY <1>1, <1>14 DEF drop_observer, NoObserver
<1>15. CASE Observe /\ observer.kind \in {"read", "dump_data"}
  <2>1. \A kind : ~Starts(kind)
    BY <1>15 DEF Starts, NoObserver
  <2>2. ~dump /\ ~Dump /\ ~wait_worker_idle /\ ~blocking_flush
    BY <2>1, Zenon DEF dump, Dump, wait_worker_idle, blocking_flush
  <2>3. ~Printing /\ observer.kind # "wait"
    BY <1>15 DEF Printing
  <2>4. ~write_record /\ ~write_error /\ ~finish_chunk /\ ~wait_returns
    BY <2>3, Zenon DEF write_record, write_error, finish_chunk, wait_returns
  <2> QED
    BY <1>9, <1>10, <1>11, <1>12, <1>14, <1>15, <2>2, <2>4 DEF Observe
<1>16. CASE UNCHANGED allvars
  BY <1>4, <1>16 DEF allvars
<1> QED
  BY <1>5, <1>6, <1>7, <1>8, <1>13, <1>15, <1>16 DEF ObservedNext

\* The iterators' inductive invariant holds, for callers that keep their
\* obligations and append fresh ids: next to every interleaving of the caller,
\* the FlushWorker, a drain, crashes, damage and the observers themselves.
THEOREM ItemsInvHolds ==
  Obliged /\ "fresh_ids" \in Contract => (ObservedSpec => []ItemsInv)
<1> SUFFICES ASSUME Obliged, "fresh_ids" \in Contract
             PROVE  ObservedSpec => []ItemsInv
  OBVIOUS
<1> DEFINE IInv == StoreSound /\ HasKind /\ ItemsInv
<1>1. ObservedInit => IInv
  <2>1. SUFFICES ASSUME ObservedInit PROVE IInv
    OBVIOUS
  <2>2. Init /\ observer = NoObserver
    BY <2>1 DEF ObservedInit
  <2>3. StoreSound
    BY <2>2, InitSound
  <2>5. HasKind /\ observer.kind = "none"
    BY <2>2 DEF NoObserver, HasKind
  <2>6. ItemsInv
    BY <2>5 DEF ItemsInv, ItemsExact, ReaderHolds, DumpHolds
  <2> QED
    BY <2>3, <2>5, <2>6
<1>2. IInv /\ [ObservedNext]_allvars => IInv'
  BY ObservedSound, KindStays, ObservedItems
<1> QED
  BY <1>1, <1>2, PTL DEF ObservedSpec

\* What an iterator returns is the entry it was asked for, with the payload it
\* was appended with: RaftLog::read while the cache is drained and its boundary
\* moves, and DumpRaftLogIter::next also while the store truncates, purges and
\* unlinks the entry's chunk.
THEOREM ItemsAlwaysExact ==
  Obliged /\ "fresh_ids" \in Contract => (ObservedSpec => []ItemsExact)
<1> SUFFICES ASSUME Obliged, "fresh_ids" \in Contract
             PROVE  ObservedSpec => []ItemsExact
  OBVIOUS
<1>1. ItemsInv => ItemsExact
  BY DEF ItemsInv
<1>2. ObservedSpec => []ItemsInv
  BY ItemsInvHolds
<1> QED
  BY <1>1, <1>2, PTL

---------------------------------------------------------------------------
(* The lines of a text.                                                    *)

UpTo(S, i) == {j \in S : j <= i}

\* The rank of a member grows with it.
LEMMA RankGrows ==
  ASSUME NEW S, S \subseteq Nat, IsFiniteSet(S), NEW i \in S, NEW j \in S
  PROVE  /\ Cardinality(UpTo(S, i)) \in 1 .. Cardinality(S)
         /\ i < j => Cardinality(UpTo(S, i)) < Cardinality(UpTo(S, j))
<1>1. \A x \in S : UpTo(S, x) \in SUBSET S /\ x \in UpTo(S, x)
  BY DEF UpTo
<1>2. \A x \in S : /\ IsFiniteSet(UpTo(S, x)) /\ Cardinality(UpTo(S, x)) \in Nat
                   /\ Cardinality(UpTo(S, x)) <= Cardinality(S)
                   /\ Cardinality(UpTo(S, x)) # 0
  BY <1>1, FS_Subset, FS_CardinalityType, FS_EmptySet
<1>3. Cardinality(S) \in Nat
  BY FS_CardinalityType
<1>4. ASSUME i < j PROVE Cardinality(UpTo(S, i)) < Cardinality(UpTo(S, j))
  <2>1. /\ UpTo(S, i) \in SUBSET UpTo(S, j)
        /\ j \in UpTo(S, j) /\ j \notin UpTo(S, i)
    <3>1. i \in Nat /\ j \in Nat /\ \A x \in S : x \in Nat
      OBVIOUS
    <3>2. \A x \in S : x <= i => x <= j
      BY <1>4, <3>1
    <3>3. ~(j <= i) /\ j <= j
      BY <1>4, <3>1
    <3> QED
      BY <3>2, <3>3 DEF UpTo
  <2>2. /\ Cardinality(UpTo(S, i)) <= Cardinality(UpTo(S, j))
        /\ Cardinality(UpTo(S, j)) # Cardinality(UpTo(S, i))
    BY <1>2, <2>1, FS_Subset
  <2> QED
    BY <1>2, <2>2
<1> QED
  BY <1>2, <1>3, <1>4

\* Ascending lists the members of a finite set of numbers, each one once.
LEMMA AscendingLists ==
  ASSUME NEW S, S \subseteq Nat, IsFiniteSet(S)
  PROVE  /\ Ascending(S) \in Seq(Nat)
         /\ {Ascending(S)[k] : k \in 1 .. Len(Ascending(S))} = S
         /\ \A j, k \in 1 .. Len(Ascending(S)) : Ascending(S)[j] = Ascending(S)[k] => j = k
<1> DEFINE n == Cardinality(S)
           R(i) == Cardinality(UpTo(S, i))
           f == [i \in S |-> R(i)]
<1>1. n \in Nat
  BY FS_CardinalityType
<1>2. \A i \in S : R(i) \in 1 .. n
  BY RankGrows
<1>3. \A i, j \in S : R(i) = R(j) => i = j
  <2>1. SUFFICES ASSUME NEW i \in S, NEW j \in S, R(i) = R(j), i # j PROVE FALSE
    OBVIOUS
  <2>2. i < j \/ j < i
    BY <2>1
  <2>3. R(i) \in Nat /\ R(j) \in Nat
    BY <1>2
  <2>4. R(i) < R(j) \/ R(j) < R(i)
    BY <2>2, RankGrows
  <2> QED
    BY <2>1, <2>3, <2>4
<1>4. \A k \in 1 .. n : \E i \in S : R(i) = k
  <2> HIDE DEF R
  <2>1. f \in Injection(S, 1 .. n)
    BY <1>2, <1>3 DEF Injection, IsInjective
  <2>2. IsFiniteSet(1 .. n) /\ Cardinality(1 .. n) = n
    <3>1. 1 \in Int /\ n \in Int
      BY <1>1
    <3>2. IsFiniteSet(1 .. n) /\ Cardinality(1 .. n) = IF 1 > n THEN 0 ELSE n - 1 + 1
      BY <3>1, FS_Interval
    <3> QED
      BY <1>1, <3>2
  <2>3. f \in Surjection(S, 1 .. n)
    BY <2>1, <2>2, FS_Injection
  <2> QED
    BY <2>3 DEF Surjection
<1>5. Ascending(S) = [k \in 1 .. n |-> CHOOSE i \in S : R(i) = k]
  BY DEF Ascending, UpTo
<1> HIDE DEF R, n
<1>6. ASSUME NEW k \in 1 .. n
      PROVE  Ascending(S)[k] \in S /\ R(Ascending(S)[k]) = k
  BY <1>4, <1>5
<1>7. DOMAIN Ascending(S) = 1 .. n
  BY <1>5
<1>8. Ascending(S) \in [1 .. n -> Nat]
  BY <1>5, <1>6
<1>9. Ascending(S) \in Seq(Nat) /\ Len(Ascending(S)) = n
  BY <1>1, <1>8
<1>10. \A i \in S : Ascending(S)[R(i)] = i
  BY <1>2, <1>3, <1>6
<1> QED
  BY <1>2, <1>6, <1>9, <1>10

\* The greatest member comes last.
LEMMA AscendingLast ==
  ASSUME NEW S, S \subseteq Nat, IsFiniteSet(S), NEW m \in S, \A x \in S : x <= m
  PROVE  Ascending(S) # <<>> /\ Ascending(S)[Len(Ascending(S))] = m
<1>1. Cardinality(S) \in Nat /\ Cardinality(S) # 0
  BY FS_CardinalityType, FS_EmptySet
<1>2. UpTo(S, m) = S
  BY DEF UpTo
<1>3. ASSUME NEW i \in S, Cardinality(UpTo(S, i)) = Cardinality(S) PROVE i = m
  <2>1. i < m => Cardinality(UpTo(S, i)) < Cardinality(UpTo(S, m))
    BY RankGrows
  <2> QED
    BY <1>1, <1>2, <1>3, <2>1
<1>4. (CHOOSE i \in S : Cardinality(UpTo(S, i)) = Cardinality(S)) = m
  BY <1>2, <1>3
<1>5. /\ Ascending(S) = [k \in 1 .. Cardinality(S) |-> CHOOSE i \in S : Cardinality(UpTo(S, i)) = k]
  BY DEF Ascending, UpTo
<1>6. DOMAIN Ascending(S) = 1 .. Cardinality(S) /\ Cardinality(S) \in 1 .. Cardinality(S)
  BY <1>1, <1>5
<1>7. Ascending(S)[Cardinality(S)] = m
  BY <1>4, <1>5, <1>6
<1>8. Ascending(S) \in Seq(Nat)
  BY AscendingLists
<1>9. Len(Ascending(S)) = Cardinality(S)
  BY <1>1, <1>6, <1>8
<1> QED
  BY <1>1, <1>7, <1>8, <1>9

\* The largest of some numbers up to n.
LEMMA LargestMember ==
  ASSUME NEW n \in Nat, NEW T, T \subseteq 1 .. n, T # {}
  PROVE  Max(T) \in T /\ \A y \in T : y <= Max(T)
<1> DEFINE R == {n - i : i \in T}
<1>1. R \subseteq Nat /\ R # {}
  <2>1. \A i \in T : i \in 1 .. n
    OBVIOUS
  <2>2. \A i \in T : n - i \in Nat
    BY <2>1
  <2> QED
    BY <2>2
<1>2. PICK c \in R : \A d \in R : c <= d
  BY <1>1, LeastMember
<1>3. PICK m \in T : c = n - m
  BY <1>2
<1>4. \A y \in T : m >= y
  <2>1. SUFFICES ASSUME NEW y \in T PROVE m >= y
    OBVIOUS
  <2>2. n - y \in R /\ n - m <= n - y
    BY <1>2, <1>3
  <2> QED
    BY <2>2
<1>5. Max(T) \in T /\ \A y \in T : Max(T) >= y
  BY <1>4 DEF Max
<1> QED
  BY <1>5

\* new has line l after the lines of old.
Extends(new, old, l) ==
  LET n == Len(old) IN
  /\ new \in Seq(Lines) /\ Len(new) = n + 1 /\ n \in Nat
  /\ \A k \in 1 .. n :
       /\ new[k] = old[k] /\ Titles(new, k) = Titles(old, k)
       /\ Titles(old, k) # {} => TitleOf(new, k) = TitleOf(old, k)
  /\ new[n + 1] = l
  /\ l.type = "chunk" => Titles(new, n + 1) # {} /\ TitleOf(new, n + 1) = l.id
  /\ l.type # "chunk" /\ Titles(old, n) # {} =>
       Titles(new, n + 1) # {} /\ TitleOf(new, n + 1) = TitleOf(old, n)
  /\ RecordLines(new) = RecordLines(old) \cup (IF l.type = "record" THEN {n + 1} ELSE {})
  /\ HasError(new) <=> HasError(old) \/ l = ErrorLine

\* One more line.
LEMMA LineAdded ==
  ASSUME NEW lines \in Seq(Lines), NEW l \in Lines
  PROVE  Extends(Append(lines, l), lines, l)
<1>0. PICK new, n : new = Append(lines, l) /\ n = Len(lines)
  OBVIOUS
<1>1. /\ new \in Seq(Lines) /\ Len(new) = n + 1 /\ n \in Nat
      /\ \A k \in 1 .. n : new[k] = lines[k]
      /\ new[n + 1] = l
  BY <1>0
<1>2. \A k \in 1 .. n + 1 : k = n + 1 \/ k \in 1 .. n
  BY <1>1
<1>3. n + 1 \in 1 .. n + 1 /\ 1 .. n \subseteq 1 .. n + 1 /\ n + 1 \notin 1 .. n
  BY <1>1
<1>4. \A k \in 1 .. n : Titles(new, k) = Titles(lines, k)
  BY <1>1 DEF Titles
<1>5. ASSUME NEW k \in 0 .. n, Titles(lines, k) # {}
      PROVE  /\ Max(Titles(lines, k)) \in 1 .. n
             /\ new[Max(Titles(lines, k))] = lines[Max(Titles(lines, k))]
  <2>1. Titles(lines, k) \subseteq 1 .. k /\ k \in Nat
    BY <1>1 DEF Titles
  <2>2. Max(Titles(lines, k)) \in 1 .. k
    BY <1>5, <2>1, LargestMember
  <2>3. Max(Titles(lines, k)) \in 1 .. n
    BY <1>1, <2>2
  <2> QED
    BY <1>1, <2>3
<1>6. ASSUME NEW k \in 1 .. n, Titles(lines, k) # {}
      PROVE  TitleOf(new, k) = TitleOf(lines, k)
  <2>1. k \in 0 .. n
    BY <1>1
  <2> QED
    BY <1>4, <1>5, <1>6, <2>1 DEF TitleOf
<1>7. ASSUME l.type = "chunk"
      PROVE  Titles(new, n + 1) # {} /\ TitleOf(new, n + 1) = l.id
  <2>1. n + 1 \in Titles(new, n + 1) /\ Titles(new, n + 1) \subseteq 1 .. n + 1
    BY <1>1, <1>3, <1>7 DEF Titles
  <2>2. Max(Titles(new, n + 1)) \in 1 .. n + 1 /\ n + 1 <= Max(Titles(new, n + 1))
    <3>1. n + 1 \in Nat
      BY <1>1
    <3> QED
      BY <2>1, <3>1, LargestMember
  <2>3. Max(Titles(new, n + 1)) = n + 1
    BY <1>1, <2>2
  <2> QED
    BY <1>1, <2>1, <2>3 DEF TitleOf
<1>8. ASSUME l.type # "chunk", Titles(lines, n) # {}
      PROVE  Titles(new, n + 1) # {} /\ TitleOf(new, n + 1) = TitleOf(lines, n)
  <2>1. Titles(new, n + 1) = Titles(lines, n)
    BY <1>1, <1>2, <1>3, <1>8 DEF Titles
  <2>2. n \in 0 .. n
    BY <1>1
  <2> QED
    BY <1>5, <1>8, <2>1, <2>2 DEF TitleOf
<1>9. RecordLines(new) = RecordLines(lines) \cup (IF l.type = "record" THEN {n + 1} ELSE {})
  BY <1>0, <1>1, <1>2, <1>3 DEF RecordLines
<1>10. HasError(new) <=> HasError(lines) \/ l = ErrorLine
  <2>1. (\E k \in 1 .. n + 1 : new[k] = ErrorLine)
          <=> (\E k \in 1 .. n : lines[k] = ErrorLine) \/ l = ErrorLine
    BY <1>1, <1>2, <1>3
  <2> QED
    BY <1>0, <1>1, <2>1 DEF HasError
<1> QED
  BY <1>0, <1>1, <1>4, <1>6, <1>7, <1>8, <1>9, <1>10 DEF Extends

\* A line that stands for the record at its place.
LineFits(lines, k) ==
  LET chunk == TitleOf(lines, k) IN
  /\ Titles(lines, k) # {}
  /\ chunk + lines[k].index < Len(recs)
  /\ recs[chunk + lines[k].index + 1] = Entry(chunk, lines[k].rec)

\* A text all of whose record lines do.
Fits(lines) == lines \in Seq(Lines) /\ \A k \in RecordLines(lines) : LineFits(lines, k)

\* A title or an error changes nothing in the lines before it.
LEMMA OtherLine ==
  ASSUME NEW lines, Fits(lines), NEW l \in Lines, l.type # "record",
         NEW new, new = Append(lines, l)
  PROVE  Fits(new) /\ Told(new) = Told(lines)
<1>1. PICK n : n = Len(lines)
  OBVIOUS
<1>0. Extends(new, lines, l)
  BY LineAdded DEF Fits
<1>2. /\ new \in Seq(Lines) /\ RecordLines(new) = RecordLines(lines)
      /\ \A k \in 1 .. n :
           /\ new[k] = lines[k] /\ Titles(new, k) = Titles(lines, k)
           /\ Titles(lines, k) # {} => TitleOf(new, k) = TitleOf(lines, k)
  BY <1>0, <1>1 DEF Extends
<1>3. \A k \in RecordLines(lines) : k \in 1 .. n /\ LineFits(lines, k)
  BY <1>1 DEF RecordLines, Fits
<1>4. \A k \in RecordLines(lines) : /\ new[k] = lines[k] /\ TitleOf(new, k) = TitleOf(lines, k)
                                     /\ Titles(new, k) # {}
  BY <1>2, <1>3 DEF LineFits
<1>5. Fits(new)
  BY <1>2, <1>3, <1>4 DEF Fits, LineFits
<1>6. Told(new) = Told(lines)
  BY <1>2, <1>4 DEF Told
<1> QED
  BY <1>5, <1>6

\* new tells the place of one more record, of chunk c.
TellsOf(new, old, c, i) ==
  /\ Fits(new) /\ Told(new) = Told(old) \cup {c + i + 1}
  /\ Titles(new, Len(new)) # {} /\ TitleOf(new, Len(new)) = c
  /\ HasError(new) <=> HasError(old)

\* A record's line, under the title of its chunk.
LEMMA RecordLineAdded ==
  ASSUME NEW lines, Fits(lines), Titles(lines, Len(lines)) # {},
         NEW i \in Nat, NEW rec \in RaftLogRecord, NEW c \in Nat,
         c = TitleOf(lines, Len(lines)),
         c + i < Len(recs), recs[c + i + 1] = Entry(c, rec)
  PROVE  TellsOf(Append(lines, RecordLine(i, rec)), lines, c, i)
<1>1. PICK n, l, new :
        n = Len(lines) /\ l = RecordLine(i, rec) /\ new = Append(lines, RecordLine(i, rec))
  OBVIOUS
<1>2. l \in Lines /\ l.type = "record" /\ l.index = i /\ l.rec = rec /\ l # ErrorLine
  BY <1>1 DEF RecordLine, Lines, ErrorLine
<1>0. Extends(new, lines, l)
  BY <1>1, <1>2, LineAdded DEF Fits
<1>3. /\ new \in Seq(Lines) /\ Len(new) = n + 1 /\ n \in Nat
      /\ RecordLines(new) = RecordLines(lines) \cup {n + 1} /\ new[n + 1] = l
      /\ \A k \in 1 .. n :
           /\ new[k] = lines[k] /\ Titles(new, k) = Titles(lines, k)
           /\ Titles(lines, k) # {} => TitleOf(new, k) = TitleOf(lines, k)
      /\ Titles(new, n + 1) # {} /\ TitleOf(new, n + 1) = c
      /\ HasError(new) <=> HasError(lines)
  BY <1>0, <1>1, <1>2 DEF Extends
<1>4. \A k \in RecordLines(lines) : k \in 1 .. n /\ LineFits(lines, k)
  BY <1>1 DEF RecordLines, Fits
<1>5. \A k \in RecordLines(lines) : /\ new[k] = lines[k] /\ TitleOf(new, k) = TitleOf(lines, k)
                                     /\ Titles(new, k) # {}
  BY <1>3, <1>4 DEF LineFits
<1>6. LineFits(new, n + 1)
  BY <1>2, <1>3 DEF LineFits
<1>7. Fits(new)
  BY <1>3, <1>4, <1>5, <1>6 DEF Fits, LineFits
<1>8. Told(new) = Told(lines) \cup {c + i + 1}
  <2>1. TitleOf(new, n + 1) + new[n + 1].index + 1 = c + i + 1
    BY <1>2, <1>3
  <2>2. \A k \in RecordLines(lines) :
          TitleOf(new, k) + new[k].index + 1 = TitleOf(lines, k) + lines[k].index + 1
    BY <1>5
  <2>3. RecordLines(new) = RecordLines(lines) \cup {n + 1}
    BY <1>3
  <2>4. \A p : p \in Told(new) <=> \E k \in RecordLines(lines) \cup {n + 1} :
                                    p = TitleOf(new, k) + new[k].index + 1
    BY <2>3, Zenon DEF Told
  <2>5. \A p : p \in Told(lines) <=> \E k \in RecordLines(lines) :
                                      p = TitleOf(lines, k) + lines[k].index + 1
    BY Zenon DEF Told
  <2> QED
    <3>1. ASSUME NEW p \in Told(new) PROVE p \in Told(lines) \/ p = c + i + 1
      <4>1. PICK k \in RecordLines(lines) \cup {n + 1} : p = TitleOf(new, k) + new[k].index + 1
        BY <2>4
      <4> QED
        BY <2>1, <2>2, <2>5, <4>1
    <3>2. ASSUME NEW p \in Told(lines) PROVE p \in Told(new)
      BY <2>2, <2>4, <2>5
    <3>3. c + i + 1 \in Told(new)
      BY <2>1, <2>4
    <3> QED
      BY <3>1, <3>2, <3>3
<1> QED
  BY <1>1, <1>3, <1>7, <1>8 DEF TellsOf

\* The lines of a record: write_ok, with the title where a chunk begins.
LEMMA WriteOk ==
  ASSUME NEW lines, Fits(lines), NEW c \in Nat, NEW i \in Nat, NEW rec \in RaftLogRecord,
         i > 0 => Titles(lines, Len(lines)) # {} /\ TitleOf(lines, Len(lines)) = c,
         c + i < Len(recs), recs[c + i + 1] = Entry(c, rec),
         NEW new, new = lines \o write_ok(c, i, rec)
  PROVE  TellsOf(new, lines, c, i)
<1>1. RecordLine(i, rec) \in Lines /\ lines \in Seq(Lines)
  BY DEF RecordLine, Lines, Fits
<1>2. CASE i > 0
  <2>1. write_ok(c, i, rec) = <<RecordLine(i, rec)>>
    BY <1>2 DEF write_ok
  <2>2. new = Append(lines, RecordLine(i, rec))
    BY <1>1, <2>1
  <2> QED
    BY <1>2, <2>2, RecordLineAdded
<1>3. CASE i = 0
  <2>1. PICK l, mid : l = ChunkLine(c) /\ mid = Append(lines, l)
    OBVIOUS
  <2>2. l \in Lines /\ l.type = "chunk" /\ l.id = c /\ l # ErrorLine
    BY <2>1 DEF ChunkLine, Lines, ErrorLine
  <2>3. write_ok(c, i, rec) = <<l, RecordLine(i, rec)>>
    BY <1>3, <2>1 DEF write_ok
  <2>4. new = Append(mid, RecordLine(i, rec))
    BY <1>1, <2>1, <2>2, <2>3
  <2>5. Fits(mid) /\ Told(mid) = Told(lines)
    BY <2>1, <2>2, OtherLine
  <2>6. PICK n : n = Len(lines)
    OBVIOUS
  <2>7. /\ Len(mid) = n + 1 /\ Titles(mid, n + 1) # {} /\ TitleOf(mid, n + 1) = c
        /\ HasError(mid) <=> HasError(lines)
    <3>1. Extends(mid, lines, l)
      BY <1>1, <2>1, <2>2, LineAdded
    <3> QED
      BY <2>2, <2>6, <3>1 DEF Extends
  <2>8. Titles(mid, Len(mid)) # {} /\ TitleOf(mid, Len(mid)) = c
    BY <2>7
  <2>9. TellsOf(new, mid, c, i)
    BY <2>4, <2>5, <2>8, RecordLineAdded
  <2> QED
    BY <2>5, <2>7, <2>9 DEF TellsOf
<1> QED
  BY <1>2, <1>3

---------------------------------------------------------------------------
(* The steps of a text.                                                    *)

\* What the text is of: the WAL as far as a text needs it.
TextWal ==
  /\ recs \in Seq(WalEntry)
  /\ Led(recs) /\ ChunksAscend(recs)
  /\ files \subseteq Nat
  /\ written \in Nat /\ written <= Len(recs)
  /\ status # "up" => written = Len(recs)

\* The store has such a WAL, also when its open failed.
LEMMA WalIsSound ==
  ASSUME StoreSound, DamageAhead
  PROVE  TextWal
<1>1. CASE status = "failed"
  <2>1. Len(recs) \in Nat
    BY <1>1 DEF DamageAhead, WalShape
  <2> QED
    BY <1>1, <2>1 DEF DamageAhead, WalShape, TextWal, WalEntry
<1>2. CASE status # "failed"
  <2>1. RecoveryInv
    BY <1>2 DEF StoreSound
  <2>2. /\ recs \in Seq(WalEntry) /\ Led(recs) /\ files \subseteq Nat
        /\ written \in Nat /\ written <= Len(recs)
        /\ status # "up" => written = Len(recs)
    BY <2>1 DEF RecoveryInv, TypeInv, TypeOK, Structure, ChunksLed, WrittenInRange,
       WalEntry
  <2>3. ChunksAscend(recs)
    BY <2>1 DEF RecoveryInv, HistoryInv, History
  <2> QED
    BY <2>2, <2>3 DEF TextWal
<1> QED
  BY <1>1, <1>2

\* A text in the middle of a chunk.
LEMMA Standing ==
  ASSUME TextInv, TextWal, Printing
  PROVE  /\ observer.kind \in {"ref_dump", "offline"} /\ observer.left # <<>>
         /\ IsText(observer) /\ Fits(observer.lines)
         /\ Head(observer.left) \in Nat /\ Head(observer.left) \in LeftChunks
         /\ observer.index \in Nat /\ Place \in Nat /\ Len(recs) \in Nat
         /\ Begun = Head(observer.left) + 1 .. Place - 1
         /\ Head(observer.left) < Len(recs)
         /\ recs[Head(observer.left) + 1].chunk = Head(observer.left)
<1>1. /\ observer.kind \in {"ref_dump", "offline"} /\ observer.left # <<>>
      /\ IsText(observer)
      /\ observer.left \in Seq(Nat) /\ observer.index \in Nat /\ observer.lines \in Seq(Lines)
      /\ Start(LeftChunks, recs)
  BY DEF Printing, TextInv, TextPlaced, IsText
<1>2. Fits(observer.lines)
  BY <1>1 DEF TextInv, TextTellsPlace, Fits, LineFits
<1>3. 1 \in 1 .. Len(observer.left) /\ Head(observer.left) = observer.left[1]
  BY <1>1
<1>4. Head(observer.left) \in Nat /\ Head(observer.left) \in LeftChunks
  BY <1>1, <1>3 DEF LeftChunks
<1>5. Len(recs) \in Nat
  BY DEF TextWal
<1>6. Place \in Nat /\ Begun = Head(observer.left) + 1 .. Place - 1
  <2>1. PICK c, i : c = Head(observer.left) /\ i = observer.index
    OBVIOUS
  <2>2. Place = c + i + 1 /\ Begun = c + 1 .. c + i
    BY <1>1, <2>1 DEF Place, Begun
  <2>3. c \in Nat /\ i \in Nat
    BY <1>1, <1>4, <2>1
  <2>4. Place \in Nat /\ Place - 1 = c + i
    BY <2>2, <2>3
  <2> QED
    BY <2>1, <2>2, <2>4
<1> QED
  BY <1>1, <1>2, <1>4, <1>5, <1>6 DEF Start

\* The text of another observer, or of none, has nothing to say.
LEMMA NoText ==
  ASSUME DamageAhead', observer'.kind \notin {"ref_dump", "offline"}
  PROVE  TextInv'
  BY DEF TextInv, TextTellsPlace, TextPlaced, TextCounts, TextErrors, Complete

\* A record is printed.
LEMMA RecordWritten ==
  ASSUME TextInv, TextWal, write_record
  PROVE  TextInv'
<1>1. /\ Printing /\ Place <= written /\ recs[Place].chunk = Head(observer.left)
      /\ Place \notin damaged /\ UNCHANGED <<vars, damaged>>
  BY DEF write_record, InFile
<1> DEFINE c == Head(observer.left)
           i == observer.index
           rec == recs[Place].rec
           new == observer.lines \o write_ok(c, i, rec)
<1>2. /\ observer.kind \in {"ref_dump", "offline"} /\ observer.left # <<>>
      /\ IsText(observer) /\ Fits(observer.lines) /\ c \in Nat /\ c \in LeftChunks
      /\ i \in Nat /\ Place \in Nat /\ Len(recs) \in Nat /\ Begun = c + 1 .. Place - 1
  BY <1>1, Standing
<1>3. Place = c + i + 1 /\ Place \in 1 .. Len(recs) /\ c + i < Len(recs)
  BY <1>1, <1>2 DEF Place, TextWal
<1>4. rec \in RaftLogRecord /\ recs[c + i + 1] = Entry(c, rec)
  <2>1. recs[Place] \in WalEntry
    BY <1>3 DEF TextWal
  <2> QED
    BY <1>1, <1>3, <2>1 DEF Entry, WalEntry
<1>5. i > 0 => /\ Titles(observer.lines, Len(observer.lines)) # {}
               /\ TitleOf(observer.lines, Len(observer.lines)) = c
  BY <1>2 DEF TextInv, TextPlaced
<1>6. TellsOf(new, observer.lines, c, i)
  <2> HIDE DEF c, i, rec, new
  <2>1. new = observer.lines \o write_ok(c, i, rec)
    BY DEF new
  <2> QED
    BY <1>2, <1>3, <1>4, <1>5, <2>1, WriteOk DEF i
<1>7. observer' = [observer EXCEPT !.index = i + 1, !.lines = new]
  BY DEF write_record
<1>8. /\ observer'.kind = observer.kind /\ observer'.left = observer.left
      /\ observer'.index = i + 1 /\ observer'.lines = new
      /\ observer'.covered = observer.covered
      /\ observer' = [kind |-> observer.kind, left |-> observer.left, index |-> i + 1,
                      lines |-> new, covered |-> observer.covered]
  BY <1>2, <1>7 DEF IsText
<1> HIDE DEF new
<1>9. UNCHANGED <<status, recs, files, damaged, written, rp, torn, closed, open_chunk>>
  BY <1>1 DEF vars, wal, disk, worker
<1>10. LeftChunks' = LeftChunks /\ Begun' = Begun \cup {Place}
  <2>1. Begun' = c + 1 .. c + (i + 1)
    BY <1>2, <1>8 DEF Begun
  <2>2. c + 1 .. c + (i + 1) = (c + 1 .. Place - 1) \cup {Place}
    BY <1>2, <1>3
  <2> QED
    BY <1>2, <1>8, <2>1, <2>2 DEF LeftChunks
<1>11. IsText(observer')
  BY <1>2, <1>6, <1>8 DEF IsText, TellsOf, Fits
<1>12. TextPlaced'
  <2>1. /\ Start(LeftChunks, recs)
        /\ status \in IF observer.kind = "offline" THEN {"down", "failed"} ELSE {"up"}
        /\ \A p \in Begun : p \in 1 .. Len(recs) /\ recs[p].chunk = c
        /\ observer.covered => written = Len(recs)
    BY <1>2 DEF TextInv, TextPlaced
  <2>2. \A p \in Begun \cup {Place} : p \in 1 .. Len(recs) /\ recs[p].chunk = c
    BY <1>1, <1>3, <2>1
  <2> QED
    BY <1>2, <1>6, <1>8, <1>9, <1>10, <1>11, <2>1, <2>2 DEF TextPlaced, TellsOf
<1>13. TextTellsPlace'
  <2>1. Fits(new)
    BY <1>6 DEF TellsOf
  <2> QED
    BY <1>8, <1>9, <2>1 DEF TextTellsPlace, Fits, LineFits
<1>14. HasError(new) <=> HasError(observer.lines)
  BY <1>6 DEF TellsOf
<1>15. TextCounts'
  <2>1. SUFFICES ASSUME Complete PROVE TextCounts'
    BY <1>2, <1>8 DEF TextInv, TextCounts, Complete
  <2>2. (\A p : Intact(p)' <=> Intact(p)) /\ Source' = Source
    BY <1>8, <1>9 DEF Intact, Source
  <2>3. /\ LeftChunks \subseteq Source
        /\ \A j, k \in 1 .. Len(observer.left) : observer.left[j] = observer.left[k] => j = k
        /\ Told(observer.lines) =
             {p \in 1 .. Len(recs) : recs[p].chunk \in Source \ LeftChunks /\ Intact(p)} \cup Begun
        /\ damaged \cap Begun = {}
        /\ \A q \in damaged : recs[q].chunk \notin LeftChunks => HasError(observer.lines)
        /\ observer.kind = "ref_dump" /\ observer.left # <<>> =>
             observer.left[Len(observer.left)] = open_chunk
        /\ observer.covered
    BY <2>1 DEF TextInv, TextCounts, Complete
  <2>4. Told(new) = Told(observer.lines) \cup {Place}
    BY <1>3, <1>6 DEF TellsOf
  <2>5. Told(new) =
          {p \in 1 .. Len(recs) : recs[p].chunk \in Source \ LeftChunks /\ Intact(p)}
            \cup (Begun \cup {Place})
    BY <2>3, <2>4
  <2>6. damaged \cap (Begun \cup {Place}) = {}
    BY <1>1, <2>3
  <2> QED
    BY <1>8, <1>9, <1>10, <1>14, <2>2, <2>3, <2>5, <2>6 DEF TextCounts, Intact
<1>16. TextErrors'
  BY <1>8, <1>9, <1>14 DEF TextInv, TextErrors, Complete
<1>17. DamageAhead'
  BY <1>9 DEF TextInv, DamageAhead, WalShape, Oldest
<1> QED
  BY <1>12, <1>13, <1>15, <1>16, <1>17 DEF TextInv

\* The records of the chunk a text is at that are not behind damage, when the
\* text has come to the damage or to the end of the chunk.
LEMMA ChunkPassed ==
  ASSUME TextInv, TextWal, Printing, written = Len(recs), damaged \cap Begun = {},
         InFile => Place \in damaged
  PROVE  /\ Begun = {p \in 1 .. Len(recs) : recs[p].chunk = Head(observer.left) /\ Intact(p)}
         /\ ~InFile => \A q \in damaged : recs[q].chunk # Head(observer.left)
<1> DEFINE c == Head(observer.left)
<1>1. /\ c \in Nat /\ Place \in Nat /\ Len(recs) \in Nat /\ Begun = c + 1 .. Place - 1
      /\ c < Len(recs) /\ recs[c + 1].chunk = c /\ observer.index \in Nat
      /\ observer.kind \in {"ref_dump", "offline"}
  BY Standing
<1>2. \A p \in Begun : p \in 1 .. Len(recs) /\ recs[p].chunk = c
  BY <1>1 DEF TextInv, TextPlaced
<1>3. /\ written = Len(recs) /\ ChunksAscend(recs)
      /\ \A p \in 1 .. Len(recs) : recs[p].chunk \in Nat /\ recs[p].chunk < p
  <2>1. \A p \in 1 .. Len(recs) : recs[p] \in WalEntry
    BY DEF TextWal
  <2> QED
    BY <2>1 DEF TextWal, Led, WalEntry
<1>4. Place >= c + 1
  BY <1>1 DEF Place
<1>5. \A q \in damaged : q \in 1 .. Len(recs)
  BY DEF TextInv, DamageAhead
<1> HIDE DEF c
<1>6. CASE InFile
  <2>1. Place \in damaged /\ recs[Place].chunk = c
    BY <1>6 DEF InFile, c
  <2>2. ASSUME NEW p \in 1 .. Len(recs), recs[p].chunk = c, Intact(p)
        PROVE  p \in Begun
    <3>1. p < Place /\ c < p
      BY <1>3, <2>1, <2>2 DEF Intact
    <3> QED
      BY <1>1, <3>1
  <2>3. ASSUME NEW p \in Begun PROVE Intact(p)
    <3>1. SUFFICES ASSUME NEW q \in damaged, recs[q].chunk = c PROVE p < q
      BY <1>2 DEF Intact
    <3>2. c < q /\ q \in Nat /\ q \notin c + 1 .. Place - 1
      BY <1>1, <1>3, <1>5, <3>1
    <3>3. p \in c + 1 .. Place - 1
      BY <1>1
    <3> QED
      BY <1>1, <3>2, <3>3
  <2> QED
    BY <1>2, <1>6, <2>2, <2>3 DEF c
<1>7. CASE ~InFile
  <2>1. Place > Len(recs) \/ recs[Place].chunk # c
    BY <1>1, <1>3, <1>7 DEF InFile, c
  <2>2. ASSUME NEW p \in 1 .. Len(recs), recs[p].chunk = c
        PROVE  p \in Begun
    <3>1. c < p
      BY <1>3, <2>2
    <3>2. CASE p < Place
      BY <1>1, <3>1, <3>2
    <3>3. CASE p >= Place
      <4>1. Place \in 1 .. Len(recs) /\ c + 1 \in 1 .. Len(recs)
        BY <1>1, <1>4, <3>3
      <4>2. recs[c + 1].chunk <= recs[Place].chunk /\ recs[Place].chunk <= recs[p].chunk
        BY <1>1, <1>3, <1>4, <3>3, <4>1 DEF ChunksAscend
      <4>3. recs[Place].chunk = c
        BY <1>1, <1>3, <2>2, <4>1, <4>2
      <4> QED
        BY <1>1, <2>1, <4>1, <4>3
    <3> QED
      BY <1>1, <3>2, <3>3
  <2>3. \A q \in damaged : recs[q].chunk # c
    BY <1>5, <2>2
  <2>4. \A p \in Begun : Intact(p)
    BY <1>2, <2>3 DEF Intact
  <2> QED
    BY <1>2, <2>2, <2>3, <2>4 DEF c
<1> QED
  BY <1>6, <1>7

\* A text goes on to the next chunk, with or without an error for this one.
LEMMA ChunkEnds ==
  ASSUME TextInv, TextWal, Printing, UNCHANGED <<vars, damaged>>, NEW lines,
         observer' = NextChunk(lines), TextErrors',
         \/ lines = observer.lines /\ ~InFile
         \/ lines = Append(observer.lines, ErrorLine) /\ (InFile => Place \in damaged)
  PROVE  TextInv'
<1> DEFINE c == Head(observer.left)
           left == Tail(observer.left)
<1>1. /\ observer.kind \in {"ref_dump", "offline"} /\ observer.left # <<>>
      /\ IsText(observer) /\ Fits(observer.lines) /\ c \in Nat /\ c \in LeftChunks
      /\ observer.index \in Nat
  BY Standing
<1>2. observer.left \in Seq(Nat)
  BY <1>1 DEF IsText
<1>3. ErrorLine \in Lines /\ ErrorLine.type = "error"
  BY DEF ErrorLine, Lines
<1>4. /\ Fits(lines) /\ Told(lines) = Told(observer.lines)
      /\ HasError(observer.lines) => HasError(lines)
      /\ lines = observer.lines \/ HasError(lines)
  <2>1. CASE lines = observer.lines
    BY <1>1, <2>1
  <2>2. CASE lines = Append(observer.lines, ErrorLine)
    <3>1. Fits(lines) /\ Told(lines) = Told(observer.lines)
      BY <1>1, <1>3, <2>2, OtherLine
    <3>2. Extends(lines, observer.lines, ErrorLine)
      BY <1>1, <1>3, <2>2, LineAdded DEF Fits
    <3> QED
      BY <3>1, <3>2 DEF Extends
  <2> QED
    BY <2>1, <2>2
<1>5. /\ observer' = [kind |-> observer.kind, left |-> left, index |-> 0, lines |-> lines,
                      covered |-> observer.covered]
      /\ observer'.kind = observer.kind /\ observer'.left = left
      /\ observer'.index = 0 /\ observer'.lines = lines
      /\ observer'.covered = observer.covered
  BY <1>1 DEF IsText, NextChunk
<1>6. /\ left \in Seq(Nat) /\ Len(left) = Len(observer.left) - 1 /\ Len(left) \in Nat
      /\ \A k \in 1 .. Len(left) : left[k] = observer.left[k + 1]
      /\ c = observer.left[1]
  BY <1>1, <1>2
<1> HIDE DEF c, left
<1>7. UNCHANGED <<status, recs, files, damaged, written, rp, torn, closed, open_chunk>>
  BY DEF vars, wal, disk, worker
<1>8. LeftChunks' = {left[k] : k \in 1 .. Len(left)} /\ Begun' = {}
  <2>1. Begun' = {}
    <3>1. CASE left = <<>>
      BY <1>5, <3>1 DEF Begun
    <3>2. CASE left # <<>>
      <4>1. Head(left) \in Nat
        BY <1>6, <3>2
      <4>2. Begun' = Head(left) + 1 .. Head(left) + 0
        BY <1>5, <3>2 DEF Begun
      <4> QED
        BY <4>1, <4>2
    <3> QED
      BY <3>1, <3>2
  <2> QED
    BY <1>5, <2>1 DEF LeftChunks
<1>9. LeftChunks' \subseteq LeftChunks
  <2>1. \A k \in 1 .. Len(left) : k + 1 \in 1 .. Len(observer.left)
    BY <1>6
  <2>2. \A k \in 1 .. Len(observer.left) : observer.left[k] \in LeftChunks
    BY DEF LeftChunks
  <2> QED
    BY <1>6, <1>8, <2>1, <2>2
<1>10. TextPlaced'
  <2>1. /\ Start(LeftChunks, recs)
        /\ status \in IF observer.kind = "offline" THEN {"down", "failed"} ELSE {"up"}
        /\ observer.covered => written = Len(recs)
    BY <1>1 DEF TextInv, TextPlaced
  <2>2. Start(LeftChunks', recs)
    BY <1>9, <2>1 DEF Start
  <2>3. IsText(observer')
    BY <1>4, <1>5, <1>6 DEF IsText, Fits
  <2> QED
    BY <1>5, <1>7, <1>8, <2>1, <2>2, <2>3 DEF TextPlaced, Start
<1>11. TextTellsPlace'
  BY <1>4, <1>5, <1>7 DEF TextTellsPlace, Fits, LineFits
<1>12. TextCounts'
  <2>1. SUFFICES ASSUME Complete PROVE TextCounts'
    BY <1>1, <1>5 DEF TextInv, TextCounts, Complete
  <2>2. /\ LeftChunks \subseteq Source
        /\ \A j, k \in 1 .. Len(observer.left) : observer.left[j] = observer.left[k] => j = k
        /\ Told(observer.lines) =
             {p \in 1 .. Len(recs) : recs[p].chunk \in Source \ LeftChunks /\ Intact(p)} \cup Begun
        /\ damaged \cap Begun = {}
        /\ \A q \in damaged : recs[q].chunk \notin LeftChunks => HasError(observer.lines)
        /\ observer.kind = "ref_dump" => observer.left[Len(observer.left)] = open_chunk
        /\ observer.covered
    BY <1>1, <2>1 DEF TextInv, TextCounts, Complete
  <2>3. written = Len(recs)
    BY <2>1 DEF TextInv, TextPlaced, Complete
  <2>4. /\ Begun = {p \in 1 .. Len(recs) : recs[p].chunk = c /\ Intact(p)}
        /\ ~InFile => \A q \in damaged : recs[q].chunk # c
    BY <2>2, <2>3, ChunkPassed DEF c
  <2>5. LeftChunks' = LeftChunks \ {c}
    <3>1. \A k \in 1 .. Len(left) : left[k] # c
      BY <1>6, <2>2
    <3>2. \A k \in 1 .. Len(observer.left) : k = 1 \/ (k - 1 \in 1 .. Len(left))
      BY <1>6
    <3>3. \A k \in 1 .. Len(observer.left) : k # 1 => observer.left[k] = left[k - 1]
      BY <1>6, <3>2
    <3>4. ASSUME NEW x \in LeftChunks, x # c PROVE x \in LeftChunks'
      <4>1. PICK k \in 1 .. Len(observer.left) : x = observer.left[k]
        BY <3>4 DEF LeftChunks
      <4>2. k # 1
        BY <1>6, <3>4, <4>1
      <4> QED
        BY <1>8, <3>2, <3>3, <4>1, <4>2
    <3>5. c \notin LeftChunks'
      BY <1>8, <3>1
    <3> QED
      BY <1>9, <3>4, <3>5
  <2>6. (\A p : Intact(p)' <=> Intact(p)) /\ Source' = Source
    BY <1>5, <1>7 DEF Intact, Source
  <2>7. Told(lines) = {p \in 1 .. Len(recs) :
                         recs[p].chunk \in Source \ (LeftChunks \ {c}) /\ Intact(p)}
    BY <1>1, <1>4, <2>2, <2>4
  <2>8. \A q \in damaged : recs[q].chunk \notin LeftChunks \ {c} => HasError(lines)
    BY <1>4, <2>2, <2>4
  <2>9. \A j, k \in 1 .. Len(left) : left[j] = left[k] => j = k
    <3>1. SUFFICES ASSUME NEW j \in 1 .. Len(left), NEW k \in 1 .. Len(left),
                          left[j] = left[k]
                   PROVE  j = k
      OBVIOUS
    <3>2. j + 1 \in 1 .. Len(observer.left) /\ k + 1 \in 1 .. Len(observer.left)
      BY <1>6
    <3>3. j + 1 = k + 1
      BY <1>6, <2>2, <3>1, <3>2
    <3> QED
      BY <3>3
  <2>10. LeftChunks \ {c} \subseteq Source
    BY <2>2
  <2>11. observer.kind = "ref_dump" /\ left # <<>> => left[Len(left)] = open_chunk
    <3>1. SUFFICES ASSUME observer.kind = "ref_dump", left # <<>>
                   PROVE  left[Len(left)] = open_chunk
      OBVIOUS
    <3>2. Len(left) \in 1 .. Len(left) /\ Len(left) + 1 = Len(observer.left)
      BY <1>2, <1>6, <3>1
    <3> QED
      BY <1>6, <2>2, <3>1, <3>2
  <2> QED
    BY <1>5, <1>7, <1>8, <2>2, <2>5, <2>6, <2>7, <2>8, <2>9, <2>10, <2>11
       DEF TextCounts, Intact
<1>13. DamageAhead'
  BY <1>7 DEF TextInv, DamageAhead, WalShape, Oldest
<1> QED
  BY <1>10, <1>11, <1>12, <1>13 DEF TextInv

\* A chunk ends with an error only where an incomplete record is: the last chunk
\* of a running store has no other behind its records.
LEMMA ErrorsEnd ==
  ASSUME TextInv, TextWal, OpenChunkIsLast, finish_chunk
  PROVE  TextErrors'
<1>1. /\ Printing /\ ~InFile /\ UNCHANGED <<vars, damaged>>
      /\ \/ /\ torn => Len(observer.left) > 1
            /\ observer' = NextChunk(observer.lines)
         \/ /\ torn \/ (observer.kind = "ref_dump" /\ Place <= Len(recs))
            /\ Len(observer.left) = 1
            /\ observer' = NextChunk(Append(observer.lines, ErrorLine))
  BY DEF finish_chunk
<1> DEFINE c == Head(observer.left)
<1>2. /\ observer.kind \in {"ref_dump", "offline"} /\ observer.left # <<>>
      /\ IsText(observer) /\ Fits(observer.lines) /\ c \in Nat
      /\ observer.index \in Nat /\ Place \in Nat /\ Len(recs) \in Nat
      /\ c < Len(recs) /\ recs[c + 1].chunk = c
  BY <1>1, Standing
<1>3. observer.left \in Seq(Nat) /\ observer.lines \in Seq(Lines)
  BY <1>2 DEF IsText
<1>4. ASSUME NEW lines, observer' = NextChunk(lines)
      PROVE  /\ observer'.kind = observer.kind /\ observer'.left = Tail(observer.left)
             /\ observer'.lines = lines /\ observer'.covered = observer.covered
  BY <1>2, <1>4 DEF IsText, NextChunk
<1>5. Tail(observer.left) = <<>> <=> Len(observer.left) = 1
  <2>1. PICK left : left = Tail(observer.left)
    OBVIOUS
  <2>2. left \in Seq(Nat) /\ Len(left) = Len(observer.left) - 1 /\ Len(observer.left) \in Nat
    BY <1>2, <1>3, <2>1
  <2>3. left # <<>> => 1 \in 1 .. Len(left)
    BY <2>2
  <2>4. left = <<>> => Len(left) = 0
    OBVIOUS
  <2>5. PICK m, n : m = Len(left) /\ n = Len(observer.left)
    OBVIOUS
  <2>6. m \in Nat /\ n \in Nat /\ m = n - 1
    BY <2>2, <2>5
  <2>7. left = <<>> <=> m = 0
    BY <2>3, <2>4, <2>5
  <2>8. left = <<>> <=> n = 1
    BY <2>6, <2>7
  <2> QED
    BY <2>1, <2>5, <2>8, Zenon
<1>6. torn' = torn /\ damaged' = damaged
  BY <1>1 DEF vars, disk
<1>7. SUFFICES ASSUME Complete, damaged = {}
               PROVE  HasError(observer'.lines) <=> torn /\ observer'.left = <<>>
  BY <1>1, <1>4, <1>6 DEF TextErrors, Complete
<1>8. ~HasError(observer.lines)
  BY <1>2, <1>7 DEF TextInv, TextErrors
<1>9. CASE observer' = NextChunk(observer.lines) /\ (torn => Len(observer.left) > 1)
  <2>1. observer'.lines = observer.lines /\ observer'.left = Tail(observer.left)
    BY <1>4, <1>9
  <2>2. ASSUME torn PROVE Len(observer.left) # 1
    <3>1. Len(observer.left) > 1
      BY <1>9, <2>2
    <3>2. PICK n : n = Len(observer.left)
      OBVIOUS
    <3>3. n \in Nat /\ n > 1
      BY <1>3, <3>1, <3>2
    <3>4. n # 1
      BY <3>3
    <3> QED
      BY <3>2, <3>4
  <2> QED
    BY <1>5, <1>8, <2>1, <2>2
<1>10. CASE /\ torn \/ (observer.kind = "ref_dump" /\ Place <= Len(recs))
            /\ Len(observer.left) = 1
            /\ observer' = NextChunk(Append(observer.lines, ErrorLine))
  <2>1. HasError(Append(observer.lines, ErrorLine))
    <3>1. ErrorLine \in Lines
      BY DEF ErrorLine, Lines
    <3> QED
      BY <1>3, <3>1, LineAdded DEF Extends
  <2>2. SUFFICES ASSUME observer.kind = "ref_dump", Place <= Len(recs) PROVE FALSE
    BY <1>4, <1>5, <1>10, <2>1
  <2>3. c = open_chunk /\ written = Len(recs) /\ status = "up"
    <3>1. observer.left[Len(observer.left)] = open_chunk
      BY <1>2, <1>7, <2>2 DEF TextInv, TextCounts
    <3>2. written = Len(recs) /\ status = "up"
      BY <1>7, <2>2 DEF TextInv, TextPlaced, Complete
    <3> QED
      BY <1>2, <1>3, <1>10, <3>1, <3>2
  <2>4. recs[Len(recs)].chunk = c
    BY <2>3 DEF OpenChunkIsLast
  <2>5. Place >= c + 1 /\ c + 1 \in 1 .. Len(recs) /\ Place \in 1 .. Len(recs)
        /\ Len(recs) \in 1 .. Len(recs)
    BY <1>2, <2>2 DEF Place
  <2>6. recs[c + 1].chunk <= recs[Place].chunk /\ recs[Place].chunk <= recs[Len(recs)].chunk
    BY <1>2, <2>2, <2>5 DEF TextWal, ChunksAscend
  <2>7. recs[Place].chunk \in Nat
    <3>1. recs[Place] \in WalEntry
      BY <2>5 DEF TextWal
    <3> QED
      BY <3>1 DEF WalEntry
  <2>8. recs[Place].chunk = c
    BY <1>2, <2>4, <2>6, <2>7
  <2> QED
    BY <1>1, <2>2, <2>3, <2>8 DEF InFile
<1> QED
  BY <1>1, <1>9, <1>10

\* A text that has just begun.
LEMMA TextBegins ==
  ASSUME TextInv, TextWal, UNCHANGED <<vars, damaged>>,
         NEW kind \in {"ref_dump", "offline"}, NEW chunks, observer' = TextDump(kind, chunks),
         chunks \subseteq files, Start(files, recs),
         kind = "offline" => status \in {"down", "failed"} /\ chunks = files,
         kind = "ref_dump" =>
           /\ status = "up" /\ chunks = DOMAIN closed \cup {open_chunk}
           /\ \A x \in chunks : x <= open_chunk,
         kind = "offline" /\ damaged = {} /\ chunks = {} => ~torn
  PROVE  TextInv'
<1>1. Len(recs) \in Nat /\ chunks \subseteq Nat /\ Start(chunks, recs)
  BY DEF TextWal, Start
<1>2. IsFiniteSet(chunks)
  <2>1. \A x \in chunks : x <= Len(recs)
    BY <1>1 DEF Start
  <2> QED
    BY <1>1, <2>1, FS_BoundedSetOfNaturals
<1> DEFINE left == Ascending(chunks)
<1>3. /\ left \in Seq(Nat) /\ {left[k] : k \in 1 .. Len(left)} = chunks
      /\ \A j, k \in 1 .. Len(left) : left[j] = left[k] => j = k
  BY <1>1, <1>2, AscendingLists
<1> HIDE DEF left
<1>4. observer' = [kind |-> kind, left |-> left, index |-> 0, lines |-> <<>>,
                   covered |-> (written = Len(recs))]
  BY DEF TextDump, left
<1>5. /\ observer'.kind = kind /\ observer'.left = left /\ observer'.index = 0
      /\ observer'.lines = <<>> /\ Len(observer'.lines) = 0
      /\ observer'.covered = (written = Len(recs))
  BY <1>4
<1>6. UNCHANGED <<status, recs, files, damaged, written, rp, torn, closed, open_chunk>>
  BY DEF vars, wal, disk, worker
<1>7. LeftChunks' = chunks
  BY <1>3, <1>5 DEF LeftChunks
<1>8. Begun' = {}
  <2>1. CASE left = <<>>
    BY <1>5, <2>1 DEF Begun
  <2>2. CASE left # <<>>
    <3>1. Head(left) \in Nat
      BY <1>3, <2>2
    <3>2. Begun' = Head(left) + 1 .. Head(left) + 0
      BY <1>5, <2>2 DEF Begun
    <3> QED
      BY <3>1, <3>2
  <2> QED
    BY <2>1, <2>2
<1>9. IsText(observer')
  <2>1. <<>> \in Seq(Lines)
    OBVIOUS
  <2> QED
    BY <1>3, <1>4, <1>5, <2>1 DEF IsText
<1>10. RecordLines(<<>>) = {} /\ Told(<<>>) = {}
  BY DEF RecordLines, Told
<1>11. TextTellsPlace' /\ TextPlaced'
  <2>1. observer'.covered => written' = Len(recs')
    BY <1>5, <1>6
  <2>2. TextTellsPlace'
    BY <1>5, <1>10 DEF TextTellsPlace
  <2>3. Start(LeftChunks, recs)'
    BY <1>1, <1>6, <1>7 DEF Start
  <2> QED
    BY <1>5, <1>6, <1>8, <1>9, <2>1, <2>2, <2>3 DEF TextPlaced
<1>12. TextCounts'
  <2>1. Source' = chunks
    BY <1>5, <1>6 DEF Source
  <2>2. \A q \in damaged : recs[q].chunk \in files /\ status # "up"
    BY DEF TextInv, DamageAhead
  <2>3. \A q \in damaged : recs[q].chunk \in chunks
    BY <2>2
  <2>4. {p \in 1 .. Len(recs) : recs[p].chunk \in chunks \ chunks /\ Intact(p)'} = {}
    OBVIOUS
  <2>5. \A j, k \in 1 .. Len(observer'.left) : observer'.left[j] = observer'.left[k] => j = k
    BY <1>3, <1>5
  <2>6. kind = "offline" => observer'.covered
    BY <1>5 DEF TextWal
  <2>7. kind = "ref_dump" => left[Len(left)] = open_chunk
    BY <1>1, <1>2, AscendingLast DEF left
  <2> QED
    BY <1>5, <1>6, <1>7, <1>8, <1>10, <2>1, <2>3, <2>4, <2>5, <2>6, <2>7 DEF TextCounts
<1>13. TextErrors'
  <2>1. SUFFICES ASSUME damaged = {}, left = <<>> PROVE ~torn
    <3>1. ~HasError(observer'.lines)
      BY <1>5 DEF HasError
    <3> QED
      BY <1>5, <1>6, <3>1 DEF TextErrors
  <2>2. chunks = {}
    BY <1>3, <2>1
  <2> QED
    BY <2>1, <2>2
<1>14. DamageAhead'
  BY <1>6 DEF TextInv, DamageAhead, WalShape, Oldest
<1> QED
  BY <1>11, <1>12, <1>13, <1>14 DEF TextInv

\* RaftLog::dump and Dump.
LEMMA DumpBegins ==
  ASSUME TextInv, StoreSound, dump \/ Dump
  PROVE  TextInv'
<1>1. TextWal /\ UNCHANGED <<vars, damaged>>
  BY WalIsSound DEF TextInv, dump, Dump
<1>2. CASE dump
  <2>1. status = "up" /\ observer' = TextDump("ref_dump", DOMAIN closed \cup {open_chunk})
    BY <1>2 DEF dump, Shared
  <2>2. RecoveryInv /\ FilesInv
    BY <2>1 DEF StoreSound
  <2>3. Start(files, recs) /\ DOMAIN closed \cup {open_chunk} \subseteq files
    BY <2>1, <2>2, DiskFacts, UpFiles
  <2>4. \A x \in DOMAIN closed \cup {open_chunk} : x <= open_chunk
    <3>1. open_chunk \in Nat /\ DOMAIN closed \subseteq Nat
          /\ \A x \in DOMAIN closed : x < open_chunk
      BY <2>1, <2>2, DiskFacts, UpFiles
    <3> QED
      BY <3>1
  <2> QED
    BY <1>1, <2>1, <2>3, <2>4, TextBegins
<1>3. CASE Dump
  <2>1. status \in {"down", "failed"} /\ observer' = TextDump("offline", files)
    BY <1>3 DEF Dump, acquire_lock
  <2>2. Start(files, recs)
    <3>1. CASE status = "failed"
      BY <3>1 DEF TextInv, DamageAhead, WalShape
    <3>2. CASE status # "failed"
      BY <3>2, DiskFacts DEF StoreSound
    <3> QED
      BY <3>1, <3>2
  <2>3. damaged = {} /\ files = {} => ~torn
    <3>1. SUFFICES ASSUME damaged = {}, files = {} PROVE ~torn
      OBVIOUS
    <3>2. RecoveryInv
      BY <3>1 DEF TextInv, DamageAhead, StoreSound
    <3> QED
      BY <2>1, <3>1, <3>2, NoFilesNoRecords DEF RecoveryInv, StoreInv, TornPlace
  <2> QED
    BY <1>1, <2>1, <2>2, <2>3, TextBegins
<1> QED
  BY <1>2, <1>3

---------------------------------------------------------------------------
(* Damage, and every step.                                                 *)

\* A store that is not running has the WAL that a failed open leaves.
LEMMA ShapeOfWal ==
  ASSUME RecoveryInv, status # "up"
  PROVE  WalShape
<1>1. /\ recs \in Seq([chunk : Nat, rec : RaftLogRecord]) /\ Led(recs) /\ written = Len(recs)
  BY DEF RecoveryInv, TypeInv, TypeOK, Structure, ChunksLed, WrittenInRange
<1>2. ChunksAscend(recs)
  BY DEF RecoveryInv, HistoryInv, History
<1> QED
  BY <1>1, <1>2, DiskFacts DEF WalShape

\* open never passes a damaged record.
LEMMA OpenAhead ==
  ASSUME Obliged, StoreSound, DamageAhead, open_locked \/ open_damaged
  PROVE  DamageAhead'
<1>1. status \in {"down", "replay"} /\ damaged' = damaged
  BY DEF open_locked, open_damaged, OpenStart, ReplayRecord, OpenFinish
<1>2. RecoveryInv /\ FilesInv /\ WalShape
  BY <1>1, ShapeOfWal DEF StoreSound
<1>3. /\ Len(recs) \in Nat /\ rp \in Nat /\ files \subseteq Nat /\ Start(files, recs)
      /\ Connected(files, recs) /\ Led(recs)
      /\ \A p \in 1 .. Len(recs) : recs[p].chunk \in Nat /\ recs[p].chunk < p
  <2>1. Wal(recs, snap)
    BY <1>2, DiskFacts
  <2>2. \A p \in 1 .. Len(recs) : recs[p] \in WalEntry
    BY <2>1 DEF Wal
  <2> QED
    BY <1>2, <2>1, <2>2, DiskFacts DEF FilesInv, Wal, Led, WalEntry
<1>4. \A q \in damaged : q \in 1 .. Len(recs) /\ recs[q].chunk \in files
  BY DEF DamageAhead
<1>fail. status' = "failed" => damaged # {}
  <2>1. CASE open_damaged
    BY <2>1 DEF open_damaged
  <2>2. CASE open_locked
    <3>1. [Next]_vars
      BY <2>2 DEF open_locked, Next, open
    <3>2. OpenSucceeds'
      BY <1>2, <3>1, NextFiles DEF FilesInv
    <3> QED
      BY <3>2 DEF OpenSucceeds
  <2> QED
    BY <2>1, <2>2
<1>5. CASE OpenStart
  <2>1. /\ UNCHANGED <<recs, files, written>> /\ status' \in {"replay", "failed"}
        /\ rp' = IF files = {} THEN Len(recs) ELSE Oldest
    BY <1>5 DEF OpenStart, worker, disk
  <2>2. CASE files = {}
    BY <1>1, <1>2, <1>3, <1>4, <1>fail, <2>1, <2>2 DEF DamageAhead, WalShape
  <2>3. CASE files # {}
    <3>1. Oldest \in files /\ Oldest \in Nat /\ \A d \in files : Oldest <= d
      BY <1>3, <2>3, OldestFile
    <3>2. Oldest < Len(recs) /\ rp' = Oldest /\ Oldest' = Oldest
      BY <1>3, <2>1, <2>3, <3>1 DEF Start, Oldest
    <3>3. \A q \in damaged : rp' < q
      BY <1>3, <1>4, <3>1, <3>2
    <3>4. Oldest' + 1 .. rp' = {}
      BY <3>1, <3>2
    <3>5. WalShape'
      BY <1>2, <2>1, <3>1, <3>2 DEF WalShape
    <3> QED
      BY <1>1, <1>4, <1>fail, <2>1, <3>1, <3>2, <3>3, <3>4, <3>5, <1>3 DEF DamageAhead
  <2> QED
    BY <2>2, <2>3
<1>6. CASE status = "replay" /\ ~OpenFinish
  <2>1. /\ \A q \in damaged : rp < q
        /\ rp <= Len(recs)
        /\ files # {} => \A p \in Oldest + 1 .. rp : recs[p].chunk \in files
    BY <1>6 DEF DamageAhead
  <2>2. CASE UNCHANGED <<recs, files, written, rp>> /\ status' = "failed"
    BY <1>1, <1>2, <1>4, <1>fail, <2>1, <2>2 DEF DamageAhead, WalShape, Oldest
  <2>3. CASE /\ UNCHANGED <<status, recs, files, written>> /\ rp < Len(recs)
             /\ rp' = rp + 1 /\ rp + 1 \notin damaged
    <3>1. \A q \in damaged : rp' < q
      <4>1. \A q \in damaged : rp < q /\ q # rp + 1 /\ q \in Nat
        BY <1>4, <2>1, <2>3
      <4> QED
        BY <1>3, <2>3, <4>1
    <3>2. rp' <= Len(recs)
      BY <1>3, <2>3
    <3>3. ASSUME files # {}, NEW p \in Oldest + 1 .. rp' PROVE recs[p].chunk \in files
      <4>1. Oldest \in files /\ Oldest \in Nat
        BY <1>3, <3>3, OldestFile
      <4>2. p \in 1 .. Len(recs) /\ p > Oldest
        BY <1>3, <2>3, <3>2, <4>1
      <4> QED
        BY <1>3, <4>1, <4>2 DEF Connected
    <3>4. Oldest' = Oldest
      BY <2>3 DEF Oldest
    <3> QED
      BY <1>1, <1>4, <1>6, <2>3, <3>1, <3>2, <3>3, <3>4 DEF DamageAhead
  <2>4. CASE open_damaged
    BY <2>2, <2>4 DEF open_damaged, wal, disk, worker
  <2>5. CASE rp + 1 \notin damaged /\ ReplayRecord
    BY <2>2, <2>3, <2>5 DEF ReplayRecord, disk, worker
  <2> QED
    BY <1>5, <1>6, <2>4, <2>5 DEF open_locked
<1>7. CASE OpenFinish
  <2>1. status = "replay" /\ rp = Len(recs) /\ status' = "up" /\ ~torn'
    BY <1>7 DEF OpenFinish
  <2>2. \A q \in damaged : rp < q
    BY <2>1 DEF DamageAhead
  <2>3. damaged = {}
    BY <1>3, <1>4, <2>1, <2>2
  <2> QED
    BY <1>1, <2>1, <2>3 DEF DamageAhead
<1> QED
  BY <1>5, <1>6, <1>7 DEF open_locked, open_damaged, ReplayRecord

\* A crash keeps the damage in front of the cut.
LEMMA FailAhead ==
  ASSUME StoreSound, DamageAhead, FailObserved
  PROVE  DamageAhead'
<1>1. PICK r \in synced .. Reach, incomplete \in BOOLEAN : Crash(r, incomplete)
  BY DEF FailObserved, Fail
<1>2. RecoveryInv
  BY <1>1 DEF Crash, StoreSound
<1>3. /\ status' = "down" /\ recs' = SubSeq(recs, 1, r) /\ files' = {c \in files : c < r}
      /\ damaged' = damaged \cap 1 .. Len(recs')
  BY <1>1 DEF Crash, FailObserved
<1>4. r \in 0 .. Len(recs) /\ Len(recs) \in Nat
  <2>1. /\ Len(recs) \in Nat /\ synced \in Nat /\ written \in Nat /\ written <= Len(recs)
        /\ handed \in Nat /\ queue \in Seq(Requests) /\ Covers(queue, recs)
    BY <1>2, DiskFacts
  <2>2. Reach \in Nat /\ Reach <= Len(recs)
    BY <2>1, CoversTail DEF Reach, Serving
  <2> QED
    BY <1>1, <2>1, <2>2
<1>5. recs \in Seq(WalEntry) /\ Led(recs)
  BY <1>2, DiskFacts DEF Wal
<1>6. Len(recs') = r /\ \A p \in 1 .. r : recs'[p] = recs[p]
  BY <1>3, <1>4, <1>5
<1>7. ASSUME NEW q \in damaged' PROVE q \in 1 .. Len(recs') /\ recs'[q].chunk \in files'
  <2>1. q \in 1 .. r /\ recs'[q] = recs[q] /\ recs[q].chunk \in files /\ q \in 1 .. Len(recs)
    BY <1>3, <1>4, <1>6, <1>7 DEF DamageAhead
  <2>2. recs[q] \in WalEntry
    BY <1>5, <2>1
  <2>3. recs[q].chunk < q /\ recs[q].chunk \in Nat
    BY <1>5, <2>1, <2>2 DEF Led, WalEntry
  <2>4. recs[q].chunk < r
    BY <1>4, <2>1, <2>3
  <2> QED
    BY <1>3, <1>6, <2>1, <2>4
<1> QED
  BY <1>3, <1>7 DEF DamageAhead

\* A running store has no incomplete record.
LEMMA StaysWhole ==
  ASSUME Obliged, RecoveryInv, Caller \/ FlushWorker
  PROVE  torn' = torn
<1>1. ASSUME NEW rec \in RaftLogRecord, Writes(rec) PROVE torn' = torn
  BY <1>1 DEF Writes, append_and_apply
<1>2. ASSUME NEW sync \in BOOLEAN, flush(sync) PROVE torn' = torn
  BY <1>2 DEF flush, disk
<1>3. CASE append_reject \/ drain_cache_evictable
  BY <1>3 DEF append_reject, drain_cache_evictable, disk
<1>4. CASE FlushWorker
  BY <1>4 DEF FlushWorker, WorkerWrite, WorkerSync, WorkerRemove, disk
<1> QED
  BY <1>1, <1>2, <1>3, <1>4, CallerSteps

\* What is in the files stays there.
LEMMA WrittenStays ==
  ASSUME RecoveryInv, drain_cache_evictable \/ FlushWorker, written = Len(recs)
  PROVE  written' = Len(recs)
<1>1. CASE drain_cache_evictable
  BY <1>1 DEF drain_cache_evictable, worker
<1>2. CASE WorkerSync \/ WorkerRemove
  BY <1>2 DEF WorkerSync, WorkerRemove
<1>3. CASE WorkerWrite
  <2>1. /\ Len(recs) \in Nat /\ queue \in Seq(Requests) /\ Covers(queue, recs)
        /\ Ordered(queue, written, handed)
    BY DiskFacts
  <2>2. queue # <<>> /\ Head(queue).type = "Write" /\ written' = Head(queue).upto
    BY <1>3 DEF WorkerWrite, Serving
  <2>3. 1 \in 1 .. Len(queue) /\ Head(queue) = queue[1]
    BY <2>1, <2>2
  <2>4. written <= queue[1].upto /\ queue[1].upto \in 1 .. Len(recs)
    BY <2>1, <2>2, <2>3 DEF Covers, Ordered
  <2> QED
    BY <2>1, <2>2, <2>3, <2>4
<1> QED
  BY <1>1, <1>2, <1>3 DEF FlushWorker

\* Every step keeps what the texts have told.
LEMMA ObservedText ==
  ASSUME Obliged, StoreSound, HasKind, TextInv, [ObservedNext]_allvars
  PROVE  TextInv'
<1>1. DamageAhead /\ TextWal
  BY WalIsSound DEF TextInv
<1>2. /\ observer.kind = "ref_dump" => status = "up"
      /\ observer.kind = "offline" => status \in {"down", "failed"}
  BY DEF TextInv, TextPlaced
<1>3. ASSUME UNCHANGED <<recs, status, files, damaged, rp, written, torn>>
      PROVE  DamageAhead'
  BY <1>1, <1>3 DEF DamageAhead, WalShape, Oldest
<1>4. ASSUME UNCHANGED <<vars, damaged>>, observer'.kind \notin {"ref_dump", "offline"}
      PROVE  TextInv'
  BY <1>3, <1>4, NoText DEF vars, wal, disk, worker
<1>5. CASE StoreRuns
  <2>1. /\ observer' = observer /\ damaged' = damaged
        /\ (~Borrowed /\ Caller) \/ drain_cache_evictable \/ FlushWorker
    BY <1>5 DEF StoreRuns
  <2>2. Caller \/ FlushWorker
    BY <2>1 DEF Caller
  <2>3. status = "up"
    BY <1>5 DEF StoreRuns, Caller, FlushWorker, WorkerWrite, WorkerSync, WorkerRemove, Serving,
       Ready, save_vote, save_user_data, append, append_next, append_reject, truncate, purge,
       commit, update_state, flush, drain_cache_evictable
  <2>4. status' = "up"
    BY <2>2, <2>3, RunsForward DEF StoreSound
  <2>5. DamageAhead'
    <3>1. torn' = torn
      BY <2>2, <2>3, StaysWhole DEF StoreSound
    <3> QED
      BY <1>1, <2>1, <2>3, <2>4, <3>1 DEF DamageAhead
  <2>6. CASE observer.kind = "ref_dump"
    <3>0. drain_cache_evictable \/ FlushWorker
      BY <2>1, <2>6 DEF Borrowed
    <3>1. UNCHANGED <<recs, closed, open_chunk, torn>>
      BY <3>0, BorrowedStays
    <3>2. Begun' = Begun /\ LeftChunks' = LeftChunks
      BY <2>1 DEF Begun, LeftChunks
    <3>3. TextTellsPlace'
      BY <2>1, <2>6, <3>1 DEF TextInv, TextTellsPlace
    <3>4. TextPlaced'
      <4>1. observer.covered => written = Len(recs)
        BY <2>6 DEF TextInv, TextPlaced
      <4>2. written = Len(recs) => written' = Len(recs)
        BY <2>3, <3>0, WrittenStays DEF StoreSound
      <4> QED
        BY <2>1, <2>4, <2>6, <3>1, <3>2, <4>1, <4>2 DEF TextInv, TextPlaced
    <3>5. Source' = Source /\ \A p : Intact(p)' <=> Intact(p)
      BY <2>1, <2>6, <3>1 DEF Source, Intact
    <3>6. TextCounts'
      BY <2>1, <2>6, <3>1, <3>2, <3>5 DEF TextInv, TextCounts, Complete, Intact
    <3>7. TextErrors'
      BY <2>1, <3>1 DEF TextInv, TextErrors, Complete
    <3> QED
      BY <2>5, <3>3, <3>4, <3>6, <3>7 DEF TextInv
  <2>7. CASE observer.kind # "ref_dump"
    BY <1>2, <2>1, <2>3, <2>5, <2>7, NoText
  <2> QED
    BY <2>6, <2>7
<1>6. CASE open_locked \/ open_damaged
  <2>1. observer' = observer /\ status \in {"down", "replay"}
    BY <1>6 DEF open_locked, open_damaged, OpenStart, ReplayRecord, OpenFinish
  <2>2. observer.kind # "offline"
    BY <1>2, <1>6 DEF open_locked, open_damaged, ReplayRecord, OpenFinish
  <2>3. DamageAhead'
    BY <1>1, <1>6, OpenAhead
  <2> QED
    BY <1>2, <2>1, <2>2, <2>3, NoText
<1>7. CASE FailObserved
  <2>1. DamageAhead' /\ observer' = NoObserver
    BY <1>1, <1>7, FailAhead DEF FailObserved
  <2> QED
    BY <2>1, NoText DEF NoObserver
<1>8. ASSUME NEW p \in 1 .. Len(recs), Damage(p) PROVE TextInv'
  <2>1. /\ status = "down" /\ status' = "down" /\ UNCHANGED <<recs, files>>
        /\ recs[p].chunk \in files /\ damaged' = damaged \cup {p}
        /\ observer' = NoObserver
    BY <1>8 DEF Damage, vars, wal, disk
  <2>2. DamageAhead'
    BY <1>1, <2>1 DEF DamageAhead
  <2> QED
    BY <2>1, <2>2, NoText DEF NoObserver
<1>9. ASSUME NEW from \in Indexes, NEW to \in Indexes, read(from, to)
      PROVE  TextInv'
  BY <1>4, <1>9 DEF read
<1>10. CASE read_get \/ read_load \/ dump_next
  <2>1. observer.kind \in {"read", "dump_data"} /\ UNCHANGED <<vars, damaged>>
    BY <1>10 DEF read_get, read_load, dump_next, AtEntry
  <2>2. observer'.kind = observer.kind
    BY <1>10 DEF read_get, read_load, dump_next, HasKind
  <2> QED
    BY <1>4, <2>1, <2>2
<1>11. CASE dump_data
  BY <1>4, <1>11 DEF dump_data
<1>12. CASE dump \/ Dump
  BY <1>12, DumpBegins
<1>13. CASE write_record
  BY <1>1, <1>13, RecordWritten
<1>14. CASE write_error
  <2>1. /\ Printing /\ Place \in damaged /\ UNCHANGED <<vars, damaged>>
        /\ observer' = NextChunk(Append(observer.lines, ErrorLine))
    BY <1>14 DEF write_error
  <2>2. TextErrors'
    BY <2>1 DEF TextErrors
  <2> QED
    BY <1>1, <2>1, <2>2, ChunkEnds
<1>15. CASE finish_chunk
  <2>1. /\ Printing /\ ~InFile /\ UNCHANGED <<vars, damaged>>
        /\ \/ observer' = NextChunk(observer.lines)
           \/ observer' = NextChunk(Append(observer.lines, ErrorLine))
    BY <1>15 DEF finish_chunk
  <2>2. OpenChunkIsLast
    BY DEF TextInv, DamageAhead, StoreSound, RecoveryInv, TypeInv, Structure, OpenChunkIsLast
  <2>3. TextErrors'
    BY <1>1, <1>15, <2>2, ErrorsEnd
  <2> QED
    BY <1>1, <2>1, <2>3, ChunkEnds
<1>16. CASE wait_worker_idle
  <2>1. observer'.kind = "wait"
    BY <1>16, WaitKind
  <2> QED
    BY <1>4, <1>16, <2>1 DEF wait_worker_idle
<1>17. CASE blocking_flush
  <2>1. observer'.kind = "wait"
    BY <1>17, WaitKind
  <2>2. UNCHANGED <<recs, status, files, damaged, rp, written, torn>>
    BY <1>17 DEF blocking_flush, flush, disk
  <2> QED
    BY <1>3, <2>1, <2>2, NoText
<1>18. CASE wait_returns \/ drop_observer
  BY <1>4, <1>18 DEF wait_returns, drop_observer, NoObserver
<1>19. CASE UNCHANGED allvars
  <2>1. UNCHANGED <<recs, status, files, damaged, rp, written, observer, torn, closed, open_chunk>>
    BY <1>19 DEF allvars, vars, wal, disk, worker
  <2>2. DamageAhead' /\ Begun' = Begun /\ LeftChunks' = LeftChunks /\ Source' = Source
    BY <1>3, <2>1 DEF Begun, LeftChunks, Source
  <2> QED
    BY <2>1, <2>2 DEF TextInv, TextTellsPlace, TextPlaced, TextCounts, TextErrors, Complete, Intact
<1> QED
  BY <1>5, <1>6, <1>7, <1>8, <1>9, <1>10, <1>11, <1>12, <1>13, <1>14, <1>15, <1>16, <1>17,
     <1>18, <1>19 DEF ObservedNext, Observe

\* What a text tells, and where open stands, holds next to every interleaving of
\* the caller, the FlushWorker, drains, crashes and damage (RaftLog::dump,
\* Dump::write), for callers that keep their obligations.
THEOREM TextInvHolds == Obliged => (ObservedSpec => []TextInv)
<1> SUFFICES ASSUME Obliged PROVE ObservedSpec => []TextInv
  OBVIOUS
<1> DEFINE IInv == StoreSound /\ HasKind /\ TextInv
<1>1. ObservedInit => IInv
  <2>1. SUFFICES ASSUME ObservedInit PROVE IInv
    OBVIOUS
  <2>2. Init /\ observer = NoObserver /\ damaged = {}
    BY <2>1 DEF ObservedInit
  <2>3. StoreSound
    BY <2>2, InitSound
  <2>4. HasKind /\ observer.kind = "none"
    BY <2>2 DEF NoObserver, HasKind
  <2>5. TextInv
    BY <2>2, <2>4 DEF Init, TextInv, TextTellsPlace, TextPlaced, TextCounts, TextErrors, Complete,
       DamageAhead
  <2> QED
    BY <2>3, <2>4, <2>5
<1>2. IInv /\ [ObservedNext]_allvars => IInv'
  BY ObservedSound, KindStays, ObservedText
<1> QED
  BY <1>1, <1>2, PTL DEF ObservedSpec

\* A line of a dump tells where its record lies: under the title of its chunk,
\* with its index in it, and the WAL has that record there (write_ok).
THEOREM TextAlwaysTellsPlace == Obliged => (ObservedSpec => []TextTellsPlace)
<1> SUFFICES ASSUME Obliged PROVE ObservedSpec => []TextTellsPlace
  OBVIOUS
<1>1. TextInv => TextTellsPlace
  BY DEF TextInv
<1>2. ObservedSpec => []TextInv
  BY TextInvHolds
<1> QED
  BY <1>1, <1>2, PTL

\* A finished text of a damaged store.
LEMMA TextShowsDamage ==
  ASSUME TextInv
  PROVE  DamageIsShown
<1>1. SUFFICES ASSUME observer.kind = "offline", observer.left = <<>>, damaged # {}
               PROVE  /\ HasError(observer.lines)
                      /\ Told(observer.lines) =
                           {p \in 1 .. Len(recs) : recs[p].chunk \in files /\ Intact(p)}
                      /\ status = "failed" => Oldest + 1 .. rp \subseteq Told(observer.lines)
  BY Zenon DEF DamageIsShown, Printed, Intact
<1>2. Len(observer.left) = 0 /\ LeftChunks = {} /\ Begun = {}
  BY <1>1 DEF LeftChunks, Begun
<1>3. /\ Told(observer.lines) =
           {p \in 1 .. Len(recs) : recs[p].chunk \in files /\ Intact(p)}
      /\ HasError(observer.lines)
  BY <1>1, <1>2 DEF TextInv, TextCounts, Complete, Source
<1>4. ASSUME status = "failed", NEW p \in Oldest + 1 .. rp
      PROVE  p \in 1 .. Len(recs) /\ recs[p].chunk \in files /\ Intact(p)
  <2>1. /\ \A q \in damaged : rp < q /\ q \in 1 .. Len(recs) /\ recs[q].chunk \in files
        /\ WalShape /\ rp <= Len(recs)
    BY <1>4 DEF TextInv, DamageAhead
  <2>2. files # {} /\ files \subseteq Nat /\ Len(recs) \in Nat /\ rp \in Nat
    BY <1>1, <2>1 DEF WalShape
  <2>3. Oldest \in Nat
    BY <2>2, OldestFile
  <2>4. recs[p].chunk \in files
    BY <1>4, <2>2 DEF TextInv, DamageAhead
  <2>5. p \in 1 .. Len(recs) /\ p <= rp
    BY <2>1, <2>2, <2>3
  <2>6. \A q \in damaged : p < q
    BY <2>1, <2>2, <2>5
  <2> QED
    BY <2>4, <2>5, <2>6 DEF Intact
<1> QED
  BY <1>3, <1>4

\* The text of a store that open refuses shows all that open had read, an
\* error for the damage, and the chunks behind it (Dump::write).
THEOREM DamageAlwaysShown == Obliged => (ObservedSpec => []DamageIsShown)
<1> SUFFICES ASSUME Obliged PROVE ObservedSpec => []DamageIsShown
  OBVIOUS
<1>1. TextInv => DamageIsShown
  BY TextShowsDamage
<1>2. ObservedSpec => []TextInv
  BY TextInvHolds
<1> QED
  BY <1>1, <1>2, PTL

---------------------------------------------------------------------------
(* What replaying a text rebuilds.                                         *)

\* A replay with nothing read, and one record further.
Nothing == [fits |-> TRUE, view |-> View(default_state, EmptyMap)]

Follow(v, p) ==
  [fits |-> v.fits /\ check(v.view.log_state, recs[p].rec),
   view |-> View(apply_state(v.view.log_state, recs[p].rec),
                 apply_log(v.view.log, recs[p].rec, recs[p].chunk, p))]

LedTo(g, a, s) == IF s = {} THEN Nothing ELSE Follow(g[s \ {Max(s)}], a[Max(s)])

\* g gives for each set of indexes of a what replaying the records there leads to.
Leads(g, a) == g = [s \in SUBSET DOMAIN a |-> LedTo(g, a, s)]

LEMMA ReplayedIsFold ==
  ASSUME NEW S
  PROVE  Replayed(S) = (CHOOSE g : Leads(g, Ascending(S)))[DOMAIN Ascending(S)]
  BY DEF Replayed, FoldLeft, MapThenFoldSet, Leads, LedTo, Follow, Nothing

\* There is such a function: the greatest index is taken last.
LEMMA LeadsExists ==
  ASSUME NEW n \in Nat, NEW a, DOMAIN a = 1 .. n
  PROVE  \E g : Leads(g, a)
<1> DEFINE P(m) == \E g : g = [s \in SUBSET (1 .. m) |-> LedTo(g, a, s)]
           N == {m \in Nat : P(m)}
<1>1. P(0)
  <2> DEFINE g == [s \in SUBSET (1 .. 0) |-> Nothing]
  <2>1. \A s \in SUBSET (1 .. 0) : s = {}
    OBVIOUS
  <2>2. \A s \in SUBSET (1 .. 0) : LedTo(g, a, s) = Nothing
    BY <2>1 DEF LedTo
  <2>3. g = [s \in SUBSET (1 .. 0) |-> LedTo(g, a, s)]
    BY <2>2
  <2> QED
    BY <2>3
<1>2. ASSUME NEW m \in Nat, P(m) PROVE P(m + 1)
  <2>1. PICK g : g = [s \in SUBSET (1 .. m) |-> LedTo(g, a, s)]
    BY <1>2
  <2> DEFINE h == [s \in SUBSET (1 .. m + 1) |->
                     IF m + 1 \in s THEN Follow(g[s \ {m + 1}], a[m + 1]) ELSE g[s]]
  <2>2. ASSUME NEW s \in SUBSET (1 .. m) PROVE s \in SUBSET (1 .. m + 1) /\ h[s] = g[s]
    <3>1. m + 1 \notin s /\ s \in SUBSET (1 .. m + 1)
      OBVIOUS
    <3> QED
      BY <3>1
  <2>3. ASSUME NEW s \in SUBSET (1 .. m + 1) PROVE h[s] = LedTo(h, a, s)
    <3>1. m + 1 \in Nat /\ s \subseteq 1 .. m + 1
      OBVIOUS
    <3>2. s # {} => Max(s) \in s /\ \A y \in s : y <= Max(s)
      BY <3>1, LargestMember
    <3>3. CASE m + 1 \in s
      <4>1. s # {} /\ Max(s) = m + 1
        <5>1. s # {} /\ Max(s) \in 1 .. m + 1 /\ m + 1 <= Max(s)
          BY <3>1, <3>2, <3>3
        <5> QED
          BY <5>1
      <4>2. s \ {m + 1} \in SUBSET (1 .. m)
        BY <3>1
      <4>3. h[s] = Follow(g[s \ {m + 1}], a[m + 1])
        BY <3>3
      <4>4. h[s \ {m + 1}] = g[s \ {m + 1}]
        BY <2>2, <4>2
      <4> HIDE DEF h
      <4> QED
        BY <4>1, <4>3, <4>4 DEF LedTo
    <3>4. CASE m + 1 \notin s
      <4>1. s \in SUBSET (1 .. m)
        BY <3>1, <3>4
      <4>2. h[s] = LedTo(g, a, s)
        BY <2>1, <2>2, <4>1
      <4>3. s # {} => h[s \ {Max(s)}] = g[s \ {Max(s)}]
        BY <2>2, <4>1
      <4> HIDE DEF h
      <4> QED
        BY <4>2, <4>3 DEF LedTo
    <3> QED
      BY <3>3, <3>4
  <2>4. h = [s \in SUBSET (1 .. m + 1) |-> LedTo(h, a, s)]
    BY <2>3
  <2> HIDE DEF h
  <2> QED
    BY <2>4
<1>3. N = Nat
  <2> HIDE DEF P
  <2>1. N \subseteq Nat /\ 0 \in N /\ \A m \in N : m + 1 \in N
    BY <1>1, <1>2
  <2> QED
    BY <2>1, AllNumbers
<1>4. P(n)
  BY <1>3
<1> QED
  BY <1>4 DEF Leads

\* It leads from one record to the next.
LEMMA LeadsOn ==
  ASSUME NEW n \in Nat, NEW a, DOMAIN a = 1 .. n, NEW g, Leads(g, a), NEW m \in Nat, m <= n
  PROVE  g[1 .. m] = IF m = 0 THEN Nothing ELSE Follow(g[1 .. m - 1], a[m])
<1>1. 1 .. m \in SUBSET DOMAIN a
  OBVIOUS
<1>2. g[1 .. m] = LedTo(g, a, 1 .. m)
  BY <1>1 DEF Leads
<1>3. CASE m = 0
  BY <1>2, <1>3 DEF LedTo
<1>4. CASE m # 0
  <2>0. m \in 1 .. m
    BY <1>4
  <2>1. 1 .. m # {} /\ 1 .. m \subseteq 1 .. m
    BY <2>0
  <2>2. Max(1 .. m) \in 1 .. m /\ m <= Max(1 .. m)
    BY <2>0, <2>1, LargestMember
  <2>3. Max(1 .. m) = m
    BY <2>2
  <2>4. (1 .. m) \ {m} = 1 .. m - 1
    BY <1>4
  <2> QED
    BY <1>2, <1>4, <2>1, <2>3, <2>4 DEF LedTo
<1> QED
  BY <1>3, <1>4

\* Ascending lists an interval from its start.
LEMMA AscendingInterval ==
  ASSUME NEW lo \in Nat, NEW hi \in Nat, lo <= hi
  PROVE  Ascending(lo .. hi) = [k \in 1 .. hi - lo + 1 |-> lo + k - 1]
<1>1. Cardinality(lo .. hi) = hi - lo + 1
  BY AscendingMembers
<1>2. ASSUME NEW i \in lo .. hi PROVE Cardinality({j \in lo .. hi : j <= i}) = i - lo + 1
  <2>1. {j \in lo .. hi : j <= i} = lo .. i /\ i \in Nat /\ lo <= i
    OBVIOUS
  <2>2. Cardinality(lo .. i) = i - lo + 1
    BY <2>1, AscendingMembers
  <2> QED
    BY <2>1, <2>2
<1>3. ASSUME NEW k \in 1 .. hi - lo + 1
      PROVE  (CHOOSE i \in lo .. hi : Cardinality({j \in lo .. hi : j <= i}) = k) = lo + k - 1
  <2>1. lo + k - 1 \in lo .. hi /\ (lo + k - 1) - lo + 1 = k
    OBVIOUS
  <2>2. \A i \in lo .. hi : i - lo + 1 = k => i = lo + k - 1
    OBVIOUS
  <2> QED
    BY <1>2, <2>1, <2>2
<1>4. Ascending(lo .. hi) =
        [k \in 1 .. hi - lo + 1 |->
           CHOOSE i \in lo .. hi : Cardinality({j \in lo .. hi : j <= i}) = k]
  BY <1>1 DEF Ascending
<1> QED
  BY <1>3, <1>4

\* The records from the start f of a chunk on rebuild the last view, but for the
\* entries before f.
LEMMA ReplayedRun ==
  ASSUME Wal(recs, snap), History(recs, snap),
         NEW f \in Nat, f < Len(recs), recs[f + 1].chunk = f
  PROVE  Replayed(f + 1 .. Len(recs))
           = [fits |-> TRUE, view |-> View(snap[Len(recs)].log_state, After(snap[Len(recs)].log, f))]
<1>1. PICK n, k, a : n = Len(recs) /\ k = n - f /\ a = Ascending(f + 1 .. n)
  OBVIOUS
<1>2. n \in Nat /\ k \in Nat /\ k > 0 /\ f + k = n
  BY <1>1 DEF Wal
<1>3. /\ DOMAIN a = 1 .. k
      /\ \A m \in 1 .. k : a[m] = f + m
  <2>1. f + 1 \in Nat /\ f + 1 <= n /\ n - (f + 1) + 1 = k
    BY <1>1, <1>2
  <2>2. a = [m \in 1 .. k |-> (f + 1) + m - 1]
    BY <1>1, <1>2, <2>1, AscendingInterval
  <2> QED
    BY <1>2, <2>2
<1>4. PICK g : g = CHOOSE x : Leads(x, a)
  OBVIOUS
<1>5. Leads(g, a)
  BY <1>2, <1>3, <1>4, LeadsExists
<1>6. Replayed(f + 1 .. n) = g[1 .. k]
  BY <1>1, <1>3, <1>4, ReplayedIsFold
<1> DEFINE Good(m) == \E s, l : /\ g[1 .. m] = [fits |-> TRUE, view |-> View(s, l)]
                                /\ Rebuilt(snap, f, f + m, s, l)
           N == {m \in Nat : m <= k => Good(m)}
<1>7. Good(0)
  <2>1. 0 <= k
    BY <1>2
  <2>2. g[1 .. 0] = Nothing
    BY <1>2, <1>3, <1>5, <2>1, LeadsOn
  <2>3. Rebuilt(snap, f, f + 0, default_state, EmptyMap)
    BY DEF Rebuilt
  <2> QED
    BY <2>2, <2>3 DEF Nothing
<1>8. ASSUME NEW m \in Nat, m + 1 <= k, Good(m) PROVE Good(m + 1)
  <2>1. PICK s, l : /\ g[1 .. m] = [fits |-> TRUE, view |-> View(s, l)]
                    /\ Rebuilt(snap, f, f + m, s, l)
    BY <1>8
  <2>2. PICK q : q = f + m
    OBVIOUS
  <2>3. /\ q \in Nat /\ f <= q /\ q < Len(recs) /\ q + 1 = f + (m + 1)
        /\ m + 1 \in 1 .. k /\ m + 1 \in Nat /\ (m + 1) - 1 = m /\ m + 1 # 0
    BY <1>1, <1>2, <1>8, <2>2
  <2>4. a[m + 1] = q + 1
    BY <1>3, <2>3
  <2>5. g[1 .. m + 1] = Follow(g[1 .. m], q + 1)
    <3>1. PICK j : j = m + 1
      OBVIOUS
    <3>2. j \in Nat /\ j <= k /\ j # 0 /\ j - 1 = m
      BY <1>8, <2>3, <3>1
    <3>3. g[1 .. j] = IF j = 0 THEN Nothing ELSE Follow(g[1 .. j - 1], a[j])
      BY <1>2, <1>3, <1>5, <3>2, LeadsOn
    <3> QED
      BY <2>4, <3>1, <3>2, <3>3
  <2> DEFINE s2 == apply_state(s, recs[q + 1].rec)
             l2 == apply_log(l, recs[q + 1].rec, recs[q + 1].chunk, q + 1)
  <2>6. check(s, recs[q + 1].rec) /\ Rebuilt(snap, f, q + 1, s2, l2)
    BY <2>1, <2>2, <2>3, RunStep
  <2>7. Follow(g[1 .. m], q + 1) = [fits |-> TRUE, view |-> View(s2, l2)]
    <3>1. PICK v : v = g[1 .. m]
      OBVIOUS
    <3>2. v.fits = TRUE /\ v.view.log_state = s /\ v.view.log = l
      BY <2>1, <3>1 DEF View
    <3>3. (v.fits /\ check(v.view.log_state, recs[q + 1].rec)) = TRUE
      BY <2>6, <3>2
    <3> QED
      BY <3>1, <3>2, <3>3 DEF Follow
  <2> HIDE DEF s2, l2
  <2> QED
    BY <2>3, <2>5, <2>6, <2>7
<1>9. N = Nat
  <2> HIDE DEF Good
  <2>1. 0 \in N
    BY <1>7
  <2>2. ASSUME NEW m \in N PROVE m + 1 \in N
    BY <1>2, <1>8
  <2> QED
    BY <2>1, <2>2, AllNumbers
<1>10. Good(k)
  <2> HIDE DEF Good
  <2> QED
    BY <1>2, <1>9
<1>11. PICK s, l : /\ g[1 .. k] = [fits |-> TRUE, view |-> View(s, l)]
                   /\ Rebuilt(snap, f, f + k, s, l)
  BY <1>10
<1>12. s = snap[n].log_state /\ l = After(snap[n].log, f)
  BY <1>2, <1>11 DEF Rebuilt
<1> QED
  BY <1>1, <1>6, <1>11, <1>12

\* Chunks that follow one another up to the last record, and that have all live
\* entries, rebuild the last view.
LEMMA ChunksRebuild ==
  ASSUME RecoveryInv, NEW F, F \subseteq files, F # {}, Connected(F, recs),
         \A i \in DOMAIN snap[Len(recs)].log : snap[Len(recs)].log[i].chunk_id \in F
  PROVE  /\ Len(recs) \in Nat /\ Len(recs) # 0
         /\ Replayed({p \in 1 .. Len(recs) : recs[p].chunk \in F})
              = [fits |-> TRUE, view |-> snap[Len(recs)]]
<1>1. /\ Wal(recs, snap) /\ History(recs, snap) /\ Len(recs) \in Nat
      /\ F \subseteq Nat /\ Start(F, recs)
  BY DiskFacts DEF Start
<1>2. PICK f \in F : \A c \in F : f <= c
  BY <1>1, LeastMember
<1>3. PICK n, l : n = Len(recs) /\ l = snap[n].log
  OBVIOUS
<1>4. /\ f \in Nat /\ f < n /\ recs[f + 1].chunk = f /\ n \in Nat /\ n \in 1 .. n
      /\ \A p \in 1 .. n : recs[p].chunk \in Nat /\ recs[p].chunk < p
      /\ IsView(snap[n]) /\ IsLog(l)
  BY <1>1, <1>2, <1>3, WalTypes DEF Start, Wal, Led
<1>5. {p \in 1 .. n : recs[p].chunk \in F} = f + 1 .. n
  <2>1. ASSUME NEW p \in 1 .. n, recs[p].chunk \in F PROVE p \in f + 1 .. n
    <3>1. f <= recs[p].chunk /\ recs[p].chunk < p /\ recs[p].chunk \in Nat
      BY <1>2, <1>4, <2>1
    <3> QED
      BY <1>4, <3>1
  <2>2. ASSUME NEW p \in f + 1 .. n PROVE p \in 1 .. n /\ recs[p].chunk \in F
    <3>1. p \in 1 .. n /\ p > f
      BY <1>4
    <3> QED
      BY <1>3, <3>1 DEF Connected
  <2> QED
    BY <2>1, <2>2
<1>6. ASSUME NEW i \in DOMAIN l PROVE l[i].segment > f
  <2>1. l[i].segment \in 1 .. n /\ recs[l[i].segment].chunk = l[i].chunk_id
    BY <1>1, <1>3, <1>4 DEF History, EntriesPlaced
  <2>2. l[i].chunk_id \in F
    BY <1>3
  <2>3. PICK g : g = l[i].segment
    OBVIOUS
  <2>4. g \in 1 .. n /\ recs[g].chunk \in Nat /\ recs[g].chunk < g /\ f <= recs[g].chunk
    BY <1>2, <1>4, <2>1, <2>2, <2>3
  <2> QED
    BY <1>4, <2>3, <2>4
<1>7. After(l, f) = l
  <2>1. DOMAIN l \cap {i \in DOMAIN l : l[i].segment > f} = DOMAIN l
    BY <1>6
  <2>2. l = [i \in DOMAIN l |-> l[i]]
    BY <1>4 DEF IsLog
  <2> QED
    BY <2>1, <2>2 DEF After, RestrictLog
<1>8. Replayed(f + 1 .. n) = [fits |-> TRUE, view |-> View(snap[n].log_state, After(snap[n].log, f))]
  BY <1>1, <1>3, <1>4, ReplayedRun
<1>9. View(snap[n].log_state, After(snap[n].log, f)) = snap[n]
  BY <1>3, <1>4, <1>7 DEF IsView
<1>10. n # 0
  BY <1>4
<1> QED
  BY <1>3, <1>4, <1>5, <1>8, <1>9, <1>10

\* What a finished text without damage has told.
LEMMA AllTold ==
  ASSUME TextInv, Complete, observer.left = <<>>, damaged = {}
  PROVE  /\ Told(observer.lines) = {p \in 1 .. Len(recs) : recs[p].chunk \in Source}
         /\ HasError(observer.lines) <=> torn
<1>1. LeftChunks = {} /\ Begun = {}
  BY DEF LeftChunks, Begun
<1>2. \A p : Intact(p)
  BY DEF Intact
<1>3. Told(observer.lines) =
        {p \in 1 .. Len(recs) : recs[p].chunk \in Source \ LeftChunks /\ Intact(p)} \cup Begun
  BY DEF TextInv, TextCounts
<1>4. Told(observer.lines) = {p \in 1 .. Len(recs) : recs[p].chunk \in Source}
  BY <1>1, <1>2, <1>3
<1>5. HasError(observer.lines) <=> torn /\ observer.left = <<>>
  BY DEF TextInv, TextErrors
<1> QED
  BY <1>4, <1>5

\* A finished text of the files of a store that is closed.
LEMMA OfflineRebuilds ==
  ASSUME StoreSound, TextInv
  PROVE  OfflineDumpRebuilds
<1>1. SUFFICES ASSUME observer.kind = "offline", observer.left = <<>>, damaged = {}
               PROVE  /\ HasError(observer.lines) <=> torn
                      /\ files # {} => Replayed(Told(observer.lines))
                                         = [fits |-> TRUE, view |-> SnapAt(Len(recs))]
  BY Zenon DEF OfflineDumpRebuilds, Printed
<1>2. Complete /\ Source = files
  BY <1>1 DEF TextInv, TextCounts, Complete, Source
<1>3. status = "down"
  BY <1>1 DEF TextInv, TextPlaced, DamageAhead
<1>4. RecoveryInv /\ FilesInv
  BY <1>3 DEF StoreSound
<1>5. /\ Told(observer.lines) = {p \in 1 .. Len(recs) : recs[p].chunk \in files}
      /\ HasError(observer.lines) <=> torn
  BY <1>1, <1>2, AllTold
<1>6. ASSUME files # {}
      PROVE  Replayed(Told(observer.lines)) = [fits |-> TRUE, view |-> SnapAt(Len(recs))]
  <2>1. /\ Len(recs) \in Nat /\ synced <= Len(recs) /\ files \subseteq Nat /\ Start(files, recs)
        /\ Hold(files, synced, recs, snap)
    BY <1>4, DiskFacts
  <2>2. Len(recs) \in 1 .. Len(recs)
    <3>1. PICK c \in files : c \in Nat /\ c < Len(recs)
      BY <1>6, <2>1 DEF Start
    <3> QED
      BY <2>1, <3>1
  <2>3. \A i \in DOMAIN snap[Len(recs)].log : snap[Len(recs)].log[i].chunk_id \in files
    BY <2>1, <2>2 DEF Hold
  <2>4. Connected(files, recs)
    BY <1>4 DEF FilesInv
  <2>5. /\ Len(recs) # 0
        /\ Replayed({p \in 1 .. Len(recs) : recs[p].chunk \in files})
              = [fits |-> TRUE, view |-> snap[Len(recs)]]
    BY <1>4, <1>6, <2>3, <2>4, ChunksRebuild
  <2> QED
    BY <1>5, <2>5 DEF SnapAt
<1> QED
  BY <1>5, <1>6

\* The chunks a running store has loaded follow one another up to the last
\* record and have all live entries; those buffered or queued for removal have
\* none.
LEMMA LoadedHold ==
  ASSUME RecoveryInv, FilesInv, status = "up", NEW F, F = DOMAIN closed \cup {open_chunk}
  PROVE  /\ F \subseteq files /\ F # {} /\ Connected(F, recs)
         /\ \A i \in DOMAIN snap[Len(recs)].log : snap[Len(recs)].log[i].chunk_id \in F
<1>1. /\ Wal(recs, snap) /\ History(recs, snap) /\ Len(recs) \in Nat
      /\ queue \in Seq(Requests) /\ Covers(queue, recs)
      /\ files \subseteq Nat /\ synced <= Len(recs)
      /\ RemovalsDead(queue, synced, recs, snap)
      /\ Hold(files, synced, recs, snap) /\ Start(files, recs)
      /\ \A c \in removed_chunks : Dead(recs, snap, c, Len(recs))
  BY DiskFacts
<1>2. /\ files = F \cup removed_chunks \cup Leaving(queue)
      /\ Below(Leaving(queue), F) /\ Below(removed_chunks, F)
      /\ Connected(files, recs)
  BY UpFiles DEF Below
<1>3. F \subseteq files /\ F # {}
  BY <1>2
<1>4. ASSUME NEW c \in F, NEW p \in 1 .. Len(recs), p > c PROVE recs[p].chunk \in F
  <2>1. c \in Nat /\ c + 1 \in 1 .. Len(recs) /\ c + 1 <= p /\ recs[c + 1].chunk = c
    BY <1>1, <1>3, <1>4 DEF Start
  <2>2. c <= recs[p].chunk /\ recs[p].chunk \in Nat
    BY <1>1, <2>1, WalTypes DEF History, ChunksAscend
  <2>3. recs[p].chunk \in files
    BY <1>2, <1>3, <1>4 DEF Connected
  <2>4. \A d \in removed_chunks \cup Leaving(queue) : d < c /\ d \in Nat
    BY <1>1, <1>2 DEF Below
  <2>5. recs[p].chunk \notin removed_chunks \cup Leaving(queue)
    BY <2>1, <2>2, <2>4
  <2> QED
    BY <1>2, <2>3, <2>5
<1>5. ASSUME NEW i \in DOMAIN snap[Len(recs)].log PROVE snap[Len(recs)].log[i].chunk_id \in F
  <2>1. PICK n, d : n = Len(recs) /\ d = snap[n].log[i].chunk_id
    OBVIOUS
  <2>2. n \in 1 .. n /\ n \in Nat
    <3>1. Len(recs) > 0
      BY DEF RecoveryInv, TypeInv, Structure, OpenChunkIsLast
    <3> QED
      BY <1>1, <2>1, <3>1
  <2>3. d \in files
    BY <1>1, <2>1, <2>2 DEF Hold
  <2>4. \A c, u : Dead(recs, snap, c, u) /\ u <= n => c # d
    BY <2>1, <2>2 DEF Dead
  <2>5. d \notin removed_chunks
    BY <1>1, <2>1, <2>2, <2>4
  <2>6. ASSUME d \in Leaving(queue) PROVE FALSE
    <3>1. PICK k \in DOMAIN queue : queue[k].type = "RemoveChunks" /\ d \in queue[k].ids
      BY <2>6 DEF Leaving
    <3>2. k \in 1 .. Len(queue) /\ Len(queue) \in Nat
      BY <1>1
    <3>3. \/ Dead(recs, snap, d, synced)
          \/ \E j \in 1 .. k - 1 :
               queue[j].type = "Write" /\ queue[j].sync /\ Dead(recs, snap, d, queue[j].upto)
      BY <1>1, <3>1, <3>2 DEF RemovalsDead
    <3>4. \A j \in 1 .. k - 1 : j \in 1 .. Len(queue)
      BY <3>2
    <3>5. \A j \in 1 .. Len(queue) : queue[j].type = "Write" => queue[j].upto <= n
      BY <1>1, <2>1 DEF Covers
    <3> QED
      BY <1>1, <2>1, <2>4, <3>3, <3>4, <3>5
  <2> QED
    BY <1>2, <2>1, <2>3, <2>5, <2>6
<1> QED
  BY <1>3, <1>4, <1>5 DEF Connected

\* A finished text of a running store.
LEMMA RefRebuilds ==
  ASSUME StoreSound, TextInv
  PROVE  RefDumpRebuilds
<1>1. SUFFICES ASSUME observer.kind = "ref_dump", observer.left = <<>>, observer.covered
               PROVE  /\ ~HasError(observer.lines)
                      /\ Replayed(Told(observer.lines))
                           = [fits |-> TRUE, view |-> View(log_state, log)]
  BY Zenon DEF RefDumpRebuilds, Printed
<1>2. PICK F : F = DOMAIN closed \cup {open_chunk}
  OBVIOUS
<1>3. Complete /\ Source = F
  BY <1>1, <1>2 DEF Complete, Source
<1>4. status = "up" /\ damaged = {} /\ ~torn
  BY <1>1 DEF TextInv, TextPlaced, DamageAhead
<1>5. RecoveryInv /\ FilesInv
  BY <1>4 DEF StoreSound
<1>6. /\ Told(observer.lines) = {p \in 1 .. Len(recs) : recs[p].chunk \in F}
      /\ HasError(observer.lines) <=> torn
  BY <1>1, <1>3, <1>4, AllTold
<1>7. /\ Len(recs) \in Nat /\ Len(recs) # 0
      /\ Replayed({p \in 1 .. Len(recs) : recs[p].chunk \in F})
            = [fits |-> TRUE, view |-> snap[Len(recs)]]
  <2>1. /\ F \subseteq files /\ F # {} /\ Connected(F, recs)
        /\ \A i \in DOMAIN snap[Len(recs)].log : snap[Len(recs)].log[i].chunk_id \in F
    BY <1>2, <1>4, <1>5, LoadedHold
  <2> QED
    BY <1>5, <2>1, ChunksRebuild
<1>8. snap[Len(recs)] = View(log_state, log)
  <2>1. log_state = snap[Len(recs)].log_state /\ log = snap[Len(recs)].log
    BY <1>4, <1>5 DEF RecoveryInv, StoreInv, MemoryFollows
  <2>2. Len(recs) \in 1 .. Len(recs) /\ Wal(recs, snap)
    BY <1>5, <1>7, DiskFacts
  <2>3. IsView(snap[Len(recs)])
    BY <2>2, WalTypes
  <2> QED
    BY <2>1, <2>3 DEF IsView
<1> QED
  BY <1>4, <1>6, <1>7, <1>8

\* An offline dump shows what the next open recovers: without damage its records,
\* replayed, give the state and the log map of the last record, and the only
\* error in it is an incomplete record at the end (Dump::write).
THEOREM OfflineDumpAlwaysRebuilds == Obliged => (ObservedSpec => []OfflineDumpRebuilds)
<1> SUFFICES ASSUME Obliged PROVE ObservedSpec => []OfflineDumpRebuilds
  OBVIOUS
<1>1. StoreSound /\ TextInv => OfflineDumpRebuilds
  BY OfflineRebuilds
<1>2. ObservedSpec => []StoreSound
  BY SoundHolds
<1>3. ObservedSpec => []TextInv
  BY TextInvHolds
<1> QED
  BY <1>1, <1>2, <1>3, PTL

\* The chunks a running store has loaded describe it without the others: the text
\* of RaftLog::dump, replayed on an empty store, gives the present state and log
\* map, although the chunks being removed are not printed (RefDump).
THEOREM RefDumpAlwaysRebuilds == Obliged => (ObservedSpec => []RefDumpRebuilds)
<1> SUFFICES ASSUME Obliged PROVE ObservedSpec => []RefDumpRebuilds
  OBVIOUS
<1>1. StoreSound /\ TextInv => RefDumpRebuilds
  BY RefRebuilds
<1>2. ObservedSpec => []StoreSound
  BY SoundHolds
<1>3. ObservedSpec => []TextInv
  BY TextInvHolds
<1> QED
  BY <1>1, <1>2, <1>3, PTL

---------------------------------------------------------------------------
(* What a blocking flush waits for.                                        *)

\* Two requests are sent, one after the other.
LEMMA Appended ==
  ASSUME NEW S, NEW q \in Seq(S), NEW w, NEW r
  PROVE  /\ Len(q) \in Nat
         /\ Len(Append(q, w)) = Len(q) + 1 /\ Append(q, w)[Len(q) + 1] = w
         /\ Len(Append(Append(q, w), r)) = Len(q) + 2
         /\ Append(Append(q, w), r)[Len(q) + 1] = w
<1> DEFINE T == S \cup {w, r}
<1>1. q \in Seq(T) /\ w \in T /\ r \in T /\ Len(q) \in Nat
  OBVIOUS
<1> HIDE DEF T
<1>2. Append(q, w) \in Seq(T)
  BY <1>1
<1>3. PICK s : s \in Seq(T) /\ s = Append(q, w)
  BY <1>2, Zenon
<1>4. Len(s) = Len(q) + 1 /\ s[Len(q) + 1] = w
  BY <1>1, <1>3
<1>5. Len(Append(s, r)) = Len(s) + 1
  BY <1>1, <1>3
<1>6. \A k \in 1 .. Len(s) : Append(s, r)[k] = s[k]
  BY <1>1, <1>3
<1>7. Append(s, r)[Len(q) + 1] = w
  BY <1>1, <1>4, <1>6
<1>8. Len(Append(s, r)) = Len(q) + 2
  BY <1>1, <1>4, <1>5
<1> QED
  BY <1>1, <1>3, <1>4, <1>7, <1>8

\* A request is served.
LEMMA Tailed ==
  ASSUME NEW S, NEW q \in Seq(S), q # <<>>
  PROVE  /\ Len(q) \in Nat /\ Len(q) > 0 /\ Head(q) = q[1]
         /\ Tail(q) \in Seq(S) /\ Len(Tail(q)) = Len(q) - 1
         /\ \A k \in 1 .. Len(q) - 1 : Tail(q)[k] = q[k + 1]
         /\ q # Tail(q)
<1>1. Len(q) \in Nat /\ Len(q) > 0
  OBVIOUS
<1>2. Head(q) = q[1] /\ Tail(q) \in Seq(S)
  OBVIOUS
<1>3. Len(Tail(q)) = Len(q) - 1
  OBVIOUS
<1>4. \A k \in 1 .. Len(q) - 1 : Tail(q)[k] = q[k + 1]
  OBVIOUS
<1>5. q # Tail(q)
  <2>1. SUFFICES ASSUME q = Tail(q) PROVE FALSE
    OBVIOUS
  <2>2. Len(Tail(q)) = Len(q)
    BY <2>1, Zenon
  <2> QED
    BY <1>1, <1>3, <2>2
<1> QED
  BY <1>1, <1>2, <1>3, <1>4, <1>5

\* A request is served in part.
LEMMA HeadChanged ==
  ASSUME NEW S, NEW q \in Seq(S), q # <<>>, NEW x
  PROVE  /\ Len(<<x>> \o Tail(q)) = Len(q)
         /\ \A k \in 1 .. Len(q) : k # 1 => (<<x>> \o Tail(q))[k] = q[k]
<1> DEFINE T == S \cup {x}
<1>1. <<x>> \in Seq(T) /\ Tail(q) \in Seq(T) /\ Len(q) \in Nat /\ Len(q) > 0
  OBVIOUS
<1>2. Len(<<x>>) = 1 /\ Len(Tail(q)) = Len(q) - 1
  OBVIOUS
<1> HIDE DEF T
<1>3. Len(<<x>> \o Tail(q)) = Len(<<x>>) + Len(Tail(q))
  BY <1>1
<1>4. \A k \in 1 .. Len(<<x>>) + Len(Tail(q)) :
        (<<x>> \o Tail(q))[k] = IF k <= Len(<<x>>) THEN <<x>>[k] ELSE Tail(q)[k - Len(<<x>>)]
  BY <1>1
<1>5. ASSUME NEW k \in 1 .. Len(q), k # 1 PROVE (<<x>> \o Tail(q))[k] = q[k]
  <2>1. k \in 1 .. Len(<<x>>) + Len(Tail(q)) /\ ~(k <= Len(<<x>>)) /\ k - Len(<<x>>) = k - 1
    BY <1>1, <1>2, <1>5
  <2>2. (<<x>> \o Tail(q))[k] = Tail(q)[k - 1]
    BY <1>4, <2>1
  <2>3. k - 1 \in 1 .. Len(q) - 1 /\ (k - 1) + 1 = k
    BY <1>1, <1>5
  <2>4. Tail(q)[k - 1] = q[(k - 1) + 1]
    BY <2>3
  <2> QED
    BY <2>2, <2>3, <2>4
<1>6. Len(<<x>> \o Tail(q)) = Len(q)
  BY <1>1, <1>2, <1>3
<1> QED
  BY <1>5, <1>6
\* A wait goes on with no observer but itself.
LEMMA WaitAlone ==
  ASSUME HasKind, observer.kind = "wait", Observe
  PROVE  wait_returns
<1>1. observer # NoObserver
  BY DEF NoObserver
<1>2. \A from, to \in Indexes : ~read(from, to)
  BY <1>1 DEF read, Starts
<1>3. ~dump_data /\ ~dump /\ ~Dump /\ ~wait_worker_idle /\ ~blocking_flush
  BY <1>1 DEF dump_data, dump, Dump, wait_worker_idle, blocking_flush, Starts
<1>4. ~read_get /\ ~read_load /\ ~dump_next
  BY DEF read_get, read_load, dump_next, AtEntry
<1>5. ~write_record /\ ~write_error /\ ~finish_chunk /\ ~drop_observer
  BY DEF write_record, write_error, finish_chunk, Printing, drop_observer
<1> QED
  BY <1>2, <1>3, <1>4, <1>5 DEF Observe

\* A blocking flush starts: its request is the last that carries data.
LEMMA FlushWaits ==
  ASSUME RecoveryInv, blocking_flush
  PROVE  WaitInv'
<1>1. PICK w, r, b : /\ w = WriteRequest(open_chunk, Len(recs), TRUE, TRUE)
                     /\ r = RemoveRequest(Removals(TRUE))
                     /\ b = Len(queue') - Len(queue) - 1
  OBVIOUS
<1>2. /\ status = "up" /\ UNCHANGED <<status, recs, open_chunk>>
      /\ observer' = [kind |-> "wait", for |-> "ack", behind |-> b]
      /\ \/ queue' = Append(queue, w)
         \/ queue' = Append(Append(queue, w), r)
  BY <1>1, Zenon DEF blocking_flush, flush, Ready
<1>3. queue \in Seq(Requests)
  BY DiskFacts
<1>4. /\ Len(queue) \in Nat
      /\ Len(Append(queue, w)) = Len(queue) + 1 /\ Append(queue, w)[Len(queue) + 1] = w
      /\ Len(Append(Append(queue, w), r)) = Len(queue) + 2
      /\ Append(Append(queue, w), r)[Len(queue) + 1] = w
  BY <1>3, Appended
<1>5. \/ Len(queue') = Len(queue) + 1
      \/ Len(queue') = Len(queue) + 2
  BY <1>2, <1>4
<1>6. queue'[Len(queue) + 1] = w
  BY <1>2, <1>4
<1>7. b \in Nat /\ ~(Len(queue') <= b) /\ Len(queue') - b = Len(queue) + 1
  BY <1>1, <1>4, <1>5
<1>8. observer'.for = "ack" /\ observer'.behind = b
  BY <1>2
<1>9. queue'[Len(queue') - observer'.behind] = w
  BY <1>6, <1>7, <1>8
<1>10. w = WriteRequest(open_chunk', Len(recs'), TRUE, TRUE) /\ status' = "up"
  BY <1>1, <1>2
<1>11. FlushedWhenAnswered'
  BY <1>7, <1>8 DEF FlushedWhenAnswered
<1> QED
  BY <1>7, <1>8, <1>9, <1>10, <1>11 DEF WaitInv

\* The FlushWorker serves one request more.
LEMMA WorkerServes ==
  ASSUME RecoveryInv, FlushWorker
  PROVE  /\ UNCHANGED <<status, recs, open_chunk>>
         /\ queue # <<>>
         /\ \/ queue' = Tail(queue)
            \/ /\ Len(queue') = Len(queue)
               /\ \A k \in 1 .. Len(queue) : queue[k].type = "Write" => queue'[k] = queue[k]
         /\ (synced' = synced /\ acked' = acked) \/ WorkerSync
         /\ Head(queue).type = "Write" /\ Head(queue).sync /\ queue' = Tail(queue) => WorkerSync
<1>1. queue \in Seq(Requests) /\ queue # <<>>
  BY DiskFacts DEF FlushWorker, WorkerWrite, WorkerSync, WorkerRemove, Serving
<1>2. /\ Len(queue) \in Nat /\ Len(queue) > 0 /\ Head(queue) = queue[1]
      /\ Tail(queue) \in Seq(Requests) /\ Len(Tail(queue)) = Len(queue) - 1
      /\ \A k \in 1 .. Len(queue) - 1 : Tail(queue)[k] = queue[k + 1]
      /\ queue # Tail(queue)
  BY <1>1, Tailed
<1>3. CASE WorkerWrite
  <2>1. /\ UNCHANGED <<status, recs, open_chunk, synced, acked>>
        /\ queue' = IF Head(queue).sync THEN queue ELSE Tail(queue)
    BY <1>3 DEF WorkerWrite, AfterWrite, wal
  <2> QED
    BY <1>1, <1>2, <2>1
<1>4. CASE WorkerSync
  <2>1. UNCHANGED <<status, recs, open_chunk>> /\ queue' = Tail(queue)
    BY <1>4 DEF WorkerSync, wal
  <2> QED
    BY <1>1, <1>4, <2>1
<1>5. CASE WorkerRemove
  <2>1. /\ UNCHANGED <<status, recs, open_chunk, synced, acked>>
        /\ Head(queue).type = "RemoveChunks"
    BY <1>5 DEF WorkerRemove, Serving, wal
  <2>2. PICK c \in Head(queue).ids :
          queue' = IF Head(queue).ids = {c} THEN Tail(queue)
                   ELSE <<RemoveRequest(Head(queue).ids \ {c})>> \o Tail(queue)
    BY <1>5 DEF WorkerRemove
  <2>3. ASSUME queue' = <<RemoveRequest(Head(queue).ids \ {c})>> \o Tail(queue)
        PROVE  /\ Len(queue') = Len(queue)
               /\ \A k \in 1 .. Len(queue) : queue[k].type = "Write" => queue'[k] = queue[k]
    <3>1. PICK x : x = RemoveRequest(Head(queue).ids \ {c})
      OBVIOUS
    <3>2. queue' = <<x>> \o Tail(queue)
      BY <2>3, <3>1
    <3>3. /\ Len(<<x>> \o Tail(queue)) = Len(queue)
          /\ \A k \in 1 .. Len(queue) : k # 1 => (<<x>> \o Tail(queue))[k] = queue[k]
      BY <1>1, HeadChanged
    <3>4. queue[1].type # "Write"
      BY <1>2, <2>1
    <3>5. \A k \in 1 .. Len(queue) : queue[k].type = "Write" => k # 1
      BY <3>4, Zenon
    <3> QED
      BY <3>2, <3>3, <3>5
  <2> QED
    BY <1>1, <2>1, <2>2, <2>3
<1> QED
  BY <1>3, <1>4, <1>5 DEF FlushWorker

\* The FlushWorker works towards the end of a wait.
LEMMA WorkerWaited ==
  ASSUME RecoveryInv, WaitInv, observer.kind = "wait", FlushWorker, UNCHANGED observer
  PROVE  WaitInv'
<1>1. /\ queue \in Seq(Requests) /\ Len(queue) \in Nat /\ Len(recs) \in Nat
      /\ acked \in Nat /\ synced \in Nat /\ written \in Nat
      /\ acked <= synced /\ synced <= written /\ written <= Len(recs)
  <2>1. /\ queue \in Seq(Requests) /\ Len(recs) \in Nat
        /\ acked \in Nat /\ synced \in Nat /\ written \in Nat /\ handed \in Nat
        /\ acked <= synced /\ synced <= written /\ written <= handed /\ handed <= Len(recs)
    BY DiskFacts
  <2> QED
    BY <2>1
<1>2. status = "up" /\ observer.behind \in Nat
  BY DEF WaitInv
<1>3. /\ UNCHANGED <<status, recs, open_chunk>> /\ queue # <<>>
      /\ \/ queue' = Tail(queue)
         \/ /\ Len(queue') = Len(queue)
            /\ \A k \in 1 .. Len(queue) : queue[k].type = "Write" => queue'[k] = queue[k]
      /\ (synced' = synced /\ acked' = acked) \/ WorkerSync
      /\ Head(queue).type = "Write" /\ Head(queue).sync /\ queue' = Tail(queue) => WorkerSync
  BY WorkerServes
<1>4. WorkerSync => /\ synced' = written /\ written = Head(queue).upto
                    /\ acked' = (IF Head(queue).ack THEN written ELSE acked)
  BY DEF WorkerSync
<1>5. PICK w, b, p : /\ w = WriteRequest(open_chunk, Len(recs), TRUE, TRUE)
                     /\ b = observer.behind /\ p = Len(queue) - b
  OBVIOUS
<1>6. /\ w.type = "Write" /\ w.sync = TRUE /\ w.ack = TRUE /\ w.upto = Len(recs)
      /\ b \in Nat
  BY <1>2, <1>5 DEF WriteRequest
<1>7. /\ Head(queue) = queue[1] /\ Len(queue) > 0 /\ Len(Tail(queue)) = Len(queue) - 1
      /\ \A k \in 1 .. Len(queue) - 1 : Tail(queue)[k] = queue[k + 1]
  BY <1>1, <1>3, Tailed
<1>8. Len(queue') \in Nat /\ Len(queue') <= Len(queue)
  BY <1>1, <1>3, <1>7
<1>9. SUFFICES ASSUME observer.for = "ack"
               PROVE  /\ Len(queue') <= b => synced' = Len(recs) /\ acked' = Len(recs)
                      /\ Len(queue') > b => queue'[Len(queue') - b] = w
  <2>1. UNCHANGED <<observer, status, recs, open_chunk>>
    BY <1>3
  <2> QED
    BY <1>2, <1>5, <2>1 DEF WaitInv, FlushedWhenAnswered
<1>10. CASE Len(queue) <= b
  <2>1. synced = Len(recs) /\ acked = Len(recs)
    BY <1>5, <1>9, <1>10 DEF WaitInv, FlushedWhenAnswered
  <2>2. synced' = Len(recs) /\ acked' = Len(recs)
    BY <1>1, <1>3, <1>4, <2>1
  <2>3. ~(Len(queue') > b)
    BY <1>1, <1>6, <1>8, <1>10
  <2> QED
    BY <2>2, <2>3
<1>11. CASE ~(Len(queue) <= b)
  <2>1. Len(queue) > b /\ p \in 1 .. Len(queue)
    BY <1>1, <1>5, <1>6, <1>11
  <2>2. queue[p] = w
    BY <1>5, <1>9, <2>1 DEF WaitInv
  <2>3. CASE queue' = Tail(queue) /\ p = 1
    <3>1. Head(queue) = w /\ Len(queue') = Len(queue) - 1
      BY <1>7, <2>2, <2>3
    <3>2. WorkerSync
      BY <1>3, <1>6, <2>3, <3>1
    <3>3. synced' = Len(recs) /\ acked' = Len(recs)
      BY <1>4, <1>6, <3>1, <3>2
    <3>4. ~(Len(queue') > b)
      BY <1>1, <1>5, <1>6, <2>3, <3>1
    <3> QED
      BY <3>3, <3>4
  <2>4. CASE queue' = Tail(queue) /\ p # 1
    <3>1. p - 1 \in 1 .. Len(queue) - 1 /\ (p - 1) + 1 = p
      BY <1>1, <2>1, <2>4
    <3>2. Tail(queue)[p - 1] = queue[(p - 1) + 1]
      BY <1>7, <3>1
    <3>3. Len(queue') = Len(queue) - 1 /\ queue'[p - 1] = w
      BY <1>7, <2>2, <2>4, <3>1, <3>2
    <3>4. Len(queue') - b = p - 1 /\ ~(Len(queue') <= b)
      BY <1>1, <1>5, <1>6, <2>1, <2>4, <3>3
    <3> QED
      BY <3>3, <3>4
  <2>5. CASE /\ Len(queue') = Len(queue)
             /\ \A k \in 1 .. Len(queue) : queue[k].type = "Write" => queue'[k] = queue[k]
    <3>1. queue[p].type = "Write"
      BY <1>6, <2>2
    <3>2. queue'[p] = w
      BY <2>1, <2>2, <2>5, <3>1
    <3>3. Len(queue') - b = p /\ ~(Len(queue') <= b)
      BY <1>1, <1>5, <1>6, <1>11, <2>5
    <3> QED
      BY <3>2, <3>3
  <2> QED
    BY <1>3, <2>3, <2>4, <2>5
<1> QED
  BY <1>10, <1>11

\* Every step keeps what a wait knows.
LEMMA ObservedWait ==
  ASSUME StoreSound, HasKind, WaitInv, [ObservedNext]_allvars
  PROVE  WaitInv'
<1>1. ASSUME observer'.kind # "wait" PROVE WaitInv'
  BY <1>1 DEF WaitInv, FlushedWhenAnswered
<1>2. ASSUME UNCHANGED <<vars, observer>> PROVE WaitInv'
  BY <1>2 DEF vars, wal, worker, WaitInv, FlushedWhenAnswered
<1>3. CASE observer.kind = "wait"
  <2>1. status = "up" /\ RecoveryInv /\ observer # NoObserver
    BY <1>3 DEF WaitInv, StoreSound, NoObserver
  <2>2. CASE StoreRuns
    <3>1. CASE drain_cache_evictable
      <4>1. UNCHANGED <<status, recs, open_chunk, queue, synced, acked, observer>>
        BY <2>2, <3>1 DEF drain_cache_evictable, StoreRuns, wal, worker
      <4> QED
        BY <4>1 DEF WaitInv, FlushedWhenAnswered
    <3>2. CASE FlushWorker
      BY <1>3, <2>1, <2>2, <3>2, WorkerWaited DEF StoreRuns
    <3> QED
      BY <1>3, <2>2, <3>1, <3>2 DEF StoreRuns, Borrowed
  <2>3. ~open_locked /\ ~open_damaged
    BY <2>1 DEF open_locked, open_damaged, OpenStart, ReplayRecord, OpenFinish
  <2>4. CASE FailObserved
    BY <1>1, <2>4 DEF FailObserved, NoObserver
  <2>5. \A p \in 1 .. Len(recs) : ~Damage(p)
    BY <2>1 DEF Damage
  <2>6. CASE Observe
    BY <1>1, <1>3, <2>6, WaitAlone DEF wait_returns, NoObserver
  <2>7. CASE UNCHANGED allvars
    BY <1>2, <2>7 DEF allvars
  <2> QED
    BY <2>2, <2>3, <2>4, <2>5, <2>6, <2>7 DEF ObservedNext
<1>4. CASE observer.kind # "wait"
  <2>1. CASE StoreRuns \/ open_locked \/ open_damaged
    BY <1>1, <1>4, <2>1 DEF StoreRuns, open_locked, open_damaged
  <2>2. CASE FailObserved
    BY <1>1, <2>2 DEF FailObserved, NoObserver
  <2>3. ASSUME NEW p \in 1 .. Len(recs), Damage(p) PROVE WaitInv'
    BY <1>1, <1>4, <2>3 DEF Damage
  <2>4. CASE wait_worker_idle
    <3>1. /\ observer' = [kind |-> "wait", for |-> "idle", behind |-> 0]
          /\ status = "up" /\ UNCHANGED vars
      BY <2>4 DEF wait_worker_idle, Shared
    <3>2. observer'.for # "ack" /\ observer'.behind \in Nat
      BY <3>1
    <3>3. status' = "up"
      BY <3>1 DEF vars
    <3> QED
      BY <3>2, <3>3 DEF WaitInv, FlushedWhenAnswered
  <2>5. CASE blocking_flush
    <3>1. RecoveryInv
      BY <2>5 DEF blocking_flush, flush, Ready, StoreSound
    <3> QED
      BY <2>5, <3>1, FlushWaits
  <2>6. CASE \E from, to \in Indexes : read(from, to)
    BY <1>1, <2>6 DEF read
  <2>7. CASE read_get \/ read_load \/ dump_next
    BY <1>1, <2>7 DEF read_get, read_load, dump_next, AtEntry, HasKind
  <2>8. CASE dump_data
    BY <1>1, <2>8 DEF dump_data
  <2>9. CASE dump \/ Dump
    BY <1>1, <2>9 DEF dump, Dump, TextDump
  <2>10. CASE write_record
    BY <1>1, <1>4, <2>10 DEF write_record, HasKind
  <2>11. CASE write_error \/ finish_chunk
    BY <1>1, <1>4, <2>11 DEF write_error, finish_chunk, NextChunk, HasKind
  <2>12. CASE wait_returns \/ drop_observer
    BY <1>1, <2>12 DEF wait_returns, drop_observer, NoObserver
  <2>13. CASE UNCHANGED allvars
    BY <1>2, <2>13 DEF allvars
  <2> QED
    BY <2>1, <2>2, <2>3, <2>4, <2>5, <2>6, <2>7, <2>8, <2>9, <2>10, <2>11, <2>12, <2>13
       DEF ObservedNext, Observe
<1> QED
  BY <1>3, <1>4

\* The request of a blocking flush keeps its place in the queue until it is
\* served (blocking_flush), next to every interleaving of the FlushWorker and
\* crashes, for callers that keep their obligations.
THEOREM WaitInvHolds == Obliged => (ObservedSpec => []WaitInv)
<1> SUFFICES ASSUME Obliged PROVE ObservedSpec => []WaitInv
  OBVIOUS
<1> DEFINE IInv == StoreSound /\ HasKind /\ WaitInv
<1>1. ObservedInit => IInv
  <2>1. SUFFICES ASSUME ObservedInit PROVE IInv
    OBVIOUS
  <2>2. Init /\ observer = NoObserver
    BY <2>1 DEF ObservedInit
  <2>3. StoreSound
    BY <2>2, InitSound
  <2>4. HasKind /\ observer.kind = "none"
    BY <2>2 DEF NoObserver, HasKind
  <2> QED
    BY <2>3, <2>4 DEF WaitInv, FlushedWhenAnswered
<1>2. IInv /\ [ObservedNext]_allvars => IInv'
  BY ObservedSound, KindStays, ObservedWait
<1> QED
  BY <1>1, <1>2, PTL DEF ObservedSpec

\* When blocking_flush returns, everything written before it is on stable storage
\* and acknowledged, whatever was queued before its request.
THEOREM FlushAlwaysDurable == Obliged => (ObservedSpec => []FlushedWhenAnswered)
<1> SUFFICES ASSUME Obliged PROVE ObservedSpec => []FlushedWhenAnswered
  OBVIOUS
<1>1. WaitInv => FlushedWhenAnswered
  BY DEF WaitInv
<1>2. ObservedSpec => []WaitInv
  BY WaitInvHolds
<1> QED
  BY <1>1, <1>2, PTL
=============================================================================
