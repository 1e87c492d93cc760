--------------------------- MODULE RaftLogObservers ---------------------------
(***************************************************************************)
(* What looks at a store while it runs or while it is closed, composed     *)
(* with module RaftLog:                                                    *)
(*                                                                         *)
(*   read       the iterator of RaftLog::read;                             *)
(*   dump_data  a DumpRaftLog and its iterator (dump_raft_log.rs);         *)
(*   ref_dump   the text of RaftLog::dump (RefDump, DumpApi, dump_writer); *)
(*   offline    the text of Dump, which reads the files of a closed store  *)
(*              under the WAL's lock (dump.rs);                            *)
(*   wait       a thread in wait_worker_idle, or in the wait of            *)
(*              blocking_flush.                                            *)
(*                                                                         *)
(* A reader, a ref_dump and a waiter borrow the store (&self): no          *)
(* operation that takes &mut self runs until they end, but the FlushWorker *)
(* does, and so does drain_cache_evictable in another thread, except next  *)
(* to blocking_flush, which borrows &mut self.  A DumpRaftLog owns what it *)
(* needs, and the store goes on.  The observers do not act on one another, *)
(* so there is one at a time.                                              *)
(*                                                                         *)
(* The disk may damage a record of a closed store, which open refuses.     *)
(***************************************************************************)
EXTENDS RaftLogInvariant, SequencesExt

CONSTANTS
  Observers,   \* the kinds of observers there are
  MaxDamage    \* bound on the records damaged

ASSUME ObserversAssumption ==
  /\ Observers \subseteq {"read", "dump_data", "ref_dump", "offline", "wait"}
  /\ MaxDamage \in Nat

VARIABLES
  observer,    \* the observer, or NoObserver
  damaged      \* the positions of damaged records

allvars == <<vars, observer, damaged>>

NoObserver == [kind |-> "none"]

Starts(kind) == observer = NoObserver /\ kind \in Observers

\* A store that no operation has a &mut borrow of.
Shared == status = "up" /\ call = NoCall

Borrowed == observer.kind \in {"read", "ref_dump", "wait"}

\* blocking_flush has it for itself.
BorrowedMut == observer.kind = "wait" /\ observer.for = "ack"

\* The members of S in order: the k-th one has k members up to itself.
Ascending(S) ==
  [k \in 1 .. Cardinality(S) |-> CHOOSE i \in S : Cardinality({j \in S : j <= i}) = k]

\* The values of the log map for the indexes of S, in order.
Values(S) == [k \in 1 .. Cardinality(S) |-> log[Ascending(S)[k]]]

---------------------------------------------------------------------------
(* Entries: the iterators of read and of dump_data.                        *)

Item(log_id, payload) == [log_id |-> log_id, payload |-> payload]

\* An io::Error, or the panic on a record that is no Append.
BadItem == Item(None, -1)

\* The record at an entry's segment, if the chunk's file is among the ones at
\* hand and reaches that far.
FetchItem(data, chunks) ==
  IF /\ data.chunk_id \in chunks
     /\ data.segment <= written
     /\ load_record(data).type = "Append"
  THEN Item(data.log_id, load_record(data).payload)
  ELSE BadItem

read(from, to) ==
  /\ Starts("read") /\ Shared
  /\ from <= to
  /\ observer' = [kind |-> "read", missed |-> FALSE, items |-> <<>>,
                  logs |-> Values({i \in DOMAIN log : from <= i /\ i < to})]
  /\ UNCHANGED <<vars, damaged>>

\* The entry a reader, or the iterator of a dump, is at.
Current == observer.logs[Len(observer.items) + 1]

AtEntry(kind) ==
  observer.kind = kind /\ Len(observer.items) < Len(observer.logs)

\* The cache is asked under its lock, which is released before the file is read.
read_get ==
  /\ AtEntry("read") /\ ~observer.missed
  /\ observer' =
       IF Current.log_id \in Keys(cache)
       THEN [observer EXCEPT !.items =
               Append(@, Item(Current.log_id, cache.cache[Current.log_id]))]
       ELSE [observer EXCEPT !.missed = TRUE]
  /\ UNCHANGED <<vars, damaged>>

read_load ==
  /\ AtEntry("read") /\ observer.missed
  /\ observer' = [observer EXCEPT
       !.missed = FALSE,
       !.items = Append(@, FetchItem(Current, DOMAIN closed \cup {open_chunk}))]
  /\ UNCHANGED <<vars, damaged>>

\* RaftLog::dump_data: copies of the state, the entries and the cache, and
\* readers of the chunks closed now.
dump_data ==
  /\ Starts("dump_data") /\ Shared
  /\ observer' = [kind |-> "dump_data", state |-> log_state, logs |-> Values(DOMAIN log),
                  cache |-> cache.cache, record_reader |-> DOMAIN closed,
                  cache_hit |-> 0, cache_miss |-> 0, items |-> <<>>]
  /\ UNCHANGED <<vars, damaged>>

\* Mutant: the chunks are looked up in the store when they are needed.
record_reader_live == DOMAIN closed

\* The chunks of the dump: it holds their files open, unlinked or not.
record_reader == observer.record_reader

\* DumpRaftLogIter::next and read_log_payload.
dump_next ==
  LET hit == Current.log_id \in DOMAIN observer.cache IN
  /\ AtEntry("dump_data")
  /\ observer' = [observer EXCEPT
       !.cache_hit = IF hit THEN @ + 1 ELSE @,
       !.cache_miss = IF hit THEN @ ELSE @ + 1,
       !.items = Append(@, IF hit THEN Item(Current.log_id, observer.cache[Current.log_id])
                           ELSE FetchItem(Current, record_reader))]
  /\ UNCHANGED <<vars, damaged>>

---------------------------------------------------------------------------
(* Records as text: RefDump and Dump.                                      *)

ChunkLine(chunk) == [type |-> "chunk", id |-> chunk]
RecordLine(index, rec) == [type |-> "record", index |-> index, rec |-> rec]
ErrorLine == [type |-> "error"]

\* Mutant: the title is printed where the WAL starts, not where a chunk does.
write_ok_once(chunk, index, rec) ==
  IF chunk + index = 0 THEN <<ChunkLine(chunk), RecordLine(index, rec)>>
  ELSE <<RecordLine(index, rec)>>

\* A chunk's title comes before its first record, the one at offset 0.
write_ok(chunk, index, rec) ==
  IF index = 0 THEN <<ChunkLine(chunk), RecordLine(index, rec)>>
  ELSE <<RecordLine(index, rec)>>

\* The chunks still to be printed, the records printed of the first of them,
\* and the lines written.  covered: all records were in the files.
TextDump(kind, chunks) ==
  [kind |-> kind, left |-> Ascending(chunks), index |-> 0, lines |-> <<>>,
   covered |-> written = Len(recs)]

\* RaftLog::dump: the chunks the store has loaded.
dump ==
  /\ Starts("ref_dump") /\ Shared
  /\ observer' = TextDump("ref_dump", DOMAIN closed \cup {open_chunk})
  /\ UNCHANGED <<vars, damaged>>

\* Mutant: the lock is not taken.
acquire_lock_skipped == TRUE

\* A store holds the lock of its directory from open to its end.
acquire_lock == status \in {"down", "failed"}

\* Dump::new and write: the chunk files in the directory.
Dump ==
  /\ Starts("offline") /\ acquire_lock
  /\ observer' = TextDump("offline", files)
  /\ UNCHANGED <<vars, damaged>>

Printing ==
  /\ observer.kind \in {"ref_dump", "offline"}
  /\ observer.left # <<>>

Place == Head(observer.left) + observer.index + 1

\* A record of the chunk is there, whole or damaged.
InFile ==
  /\ Place <= written
  /\ recs[Place].chunk = Head(observer.left)

NextChunk(lines) ==
  [observer EXCEPT !.left = Tail(@), !.index = 0, !.lines = lines]

write_record ==
  /\ Printing /\ InFile /\ Place \notin damaged
  /\ observer' = [observer EXCEPT
       !.index = @ + 1,
       !.lines = @ \o write_ok(Head(observer.left), observer.index, recs[Place].rec)]
  /\ UNCHANGED <<vars, damaged>>

\* Mutant: the error is returned instead of printed, and the dump stops.
write_error_returned ==
  /\ Printing /\ InFile /\ Place \in damaged
  /\ observer' = [observer EXCEPT !.left = <<>>, !.lines = Append(@, ErrorLine)]
  /\ UNCHANGED <<vars, damaged>>

\* A record that cannot be decoded is a line of its own; it ends its chunk, not
\* the dump.
write_error ==
  /\ Printing /\ InFile /\ Place \in damaged
  /\ observer' = NextChunk(Append(observer.lines, ErrorLine))
  /\ UNCHANGED <<vars, damaged>>

\* The end of a chunk; the incomplete record at the end of the last one is an
\* error, and so may be a record that has not been written yet.
finish_chunk ==
  /\ Printing /\ ~InFile
  /\ \/ /\ torn => Len(observer.left) > 1
        /\ observer' = NextChunk(observer.lines)
     \/ /\ torn \/ (observer.kind = "ref_dump" /\ Place <= Len(recs))
        /\ Len(observer.left) = 1
        /\ observer' = NextChunk(Append(observer.lines, ErrorLine))
  /\ UNCHANGED <<vars, damaged>>

---------------------------------------------------------------------------
(* Waiting for the FlushWorker.                                            *)

\* A thread waits for all requests but the last `behind` ones to be served.
wait_worker_idle ==
  /\ Starts("wait") /\ Shared
  /\ observer' = [kind |-> "wait", for |-> "idle", behind |-> 0]
  /\ UNCHANGED <<vars, damaged>>

\* Mutant: the flush does not ask for a sync.
blocking_flush_unsynced ==
  /\ Starts("wait")
  /\ flush(FALSE)
  /\ observer' = [kind |-> "wait", for |-> "ack", behind |-> Len(queue') - Len(queue) - 1]
  /\ UNCHANGED damaged

\* blocking_flush sends a sync flush with a channel for its callback, and waits
\* for that request. Nobody else sends one meanwhile (&mut self), so that at most
\* the removal the same flush has sent is behind it.
blocking_flush ==
  /\ Starts("wait")
  /\ flush(TRUE)
  /\ observer' = [kind |-> "wait", for |-> "ack", behind |-> Len(queue') - Len(queue) - 1]
  /\ UNCHANGED damaged

\* The FlushWorker has run the callback, or is idle.
wait_returns ==
  /\ observer.kind = "wait"
  /\ Len(queue) <= observer.behind
  /\ observer' = NoObserver
  /\ UNCHANGED <<vars, damaged>>

\* An iterator or a dump is dropped, finished or not.
drop_observer ==
  /\ observer.kind \notin {"none", "wait"}
  /\ observer' = NoObserver
  /\ UNCHANGED <<vars, damaged>>

---------------------------------------------------------------------------
(* The store, next to its observers.                                       *)

StoreRuns ==
  /\ \/ ~Borrowed /\ Caller
     \/ ~BorrowedMut /\ drain_cache_evictable
     \/ FlushWorker
  /\ UNCHANGED <<observer, damaged>>

\* open takes the lock, and refuses a damaged record.
open_locked ==
  /\ \/ OpenStart /\ observer.kind # "offline"
     \/ rp + 1 \notin damaged /\ ReplayRecord
     \/ OpenFinish
  /\ UNCHANGED <<observer, damaged>>

open_damaged ==
  /\ status = "replay" /\ rp < Len(recs) /\ rp + 1 \in damaged
  /\ status' = "failed"
  /\ UNCHANGED <<mem, wal, worker, disk, rp, observer, damaged>>

\* The process ends and its observers with it.
FailObserved ==
  /\ Fail
  /\ observer' = NoObserver
  /\ damaged' = damaged \cap 1 .. Len(recs')

Damage(p) ==
  /\ status = "down" /\ observer = NoObserver
  /\ Cardinality(damaged) < MaxDamage
  /\ recs[p].chunk \in files
  /\ damaged' = damaged \cup {p}
  /\ UNCHANGED <<vars, observer>>

ObservedInit == Init /\ observer = NoObserver /\ damaged = {}

Observe ==
  \/ \E from, to \in Indexes : read(from, to)
  \/ read_get \/ read_load
  \/ dump_data \/ dump_next
  \/ dump \/ Dump
  \/ write_record \/ write_error \/ finish_chunk
  \/ wait_worker_idle \/ blocking_flush \/ wait_returns
  \/ drop_observer

ObservedNext ==
  \/ StoreRuns \/ open_locked \/ open_damaged \/ FailObserved
  \/ \E p \in 1 .. Len(recs) : Damage(p)
  \/ Observe

ObservedSpec == ObservedInit /\ [][ObservedNext]_allvars

---------------------------------------------------------------------------
(* Safety.                                                                 *)

\* Every item of a reader (RaftLog::read) and of a dump's iterator
\* (DumpRaftLogIter::next) is the entry that was in the log when it was asked
\* for, with the payload it was appended with. The cache may have been drained
\* and its boundary moved since; under a dump the entry may also have been
\* truncated or purged, and its chunk's file unlinked.
ItemsExact ==
  observer.kind \in {"read", "dump_data"} =>
    \A k \in 1 .. Len(observer.items) :
      LET data == observer.logs[k] IN
      observer.items[k] = Item(data.log_id, recs[data.segment].rec.payload)

Items == [log_id : LogId, payload : Payload]

\* A reader is among the entries of the log, which nobody changes under it; an
\* entry it missed in the cache is in a closed chunk and synced.
ReaderHolds ==
  observer.kind = "read" =>
    /\ status = "up"
    /\ observer \in [kind : {"read"}, missed : BOOLEAN, items : Seq(Items), logs : Seq(LogData)]
    /\ Len(observer.items) <= Len(observer.logs)
    /\ \A k \in 1 .. Len(observer.logs) : \E i \in DOMAIN log : observer.logs[k] = log[i]
    /\ observer.missed =>
         /\ Len(observer.items) < Len(observer.logs)
         /\ Current.chunk_id \in DOMAIN closed
         /\ Current.segment <= synced

IsDump(o) ==
  /\ o = [kind |-> "dump_data", state |-> o.state, logs |-> o.logs, cache |-> o.cache,
          record_reader |-> o.record_reader, cache_hit |-> o.cache_hit,
          cache_miss |-> o.cache_miss, items |-> o.items]
  /\ o.items \in Seq(Items) /\ o.logs \in Seq(LogData)
  /\ Len(o.items) <= Len(o.logs)

\* A dump has copied the payload of an entry, or holds the chunk it is in.
DumpHolds ==
  observer.kind = "dump_data" =>
    /\ status = "up" /\ IsDump(observer)
    /\ \A k \in 1 .. Len(observer.logs) :
         LET data == observer.logs[k] IN
         /\ data.segment \in 1 .. Len(recs) /\ load_record(data).type = "Append"
         /\ \/ /\ data.log_id \in DOMAIN observer.cache
               /\ observer.cache[data.log_id] = load_record(data).payload
            \/ /\ data.log_id \notin DOMAIN observer.cache
               /\ data.chunk_id \in observer.record_reader
               /\ data.segment <= synced

\* The inductive invariant behind ItemsExact: what a reader (RaftLog::read) or a
\* dump (RaftLog::dump_data) has still to return is in its reach, whatever the
\* FlushWorker, a drain or the store itself does meanwhile.
ItemsInv == ItemsExact /\ ReaderHolds /\ DumpHolds

\* The chunk lines in front of line k.
Titles(lines, k) == {j \in 1 .. k : lines[j].type = "chunk"}

TitleOf(lines, k) == lines[Max(Titles(lines, k))].id

RecordLines(lines) == {k \in 1 .. Len(lines) : lines[k].type = "record"}

\* A line of a dump's text tells where its record lies (write_ok): under the
\* title of its chunk, with its index in it, and the WAL has that record there.
TextTellsPlace ==
  observer.kind \in {"ref_dump", "offline"} =>
    \A k \in RecordLines(observer.lines) :
      LET line == observer.lines[k]
          chunk == TitleOf(observer.lines, k)
      IN /\ Titles(observer.lines, k) # {}
         /\ chunk + line.index < Len(recs)
         /\ recs[chunk + line.index + 1] = Entry(chunk, line.rec)

\* The places the record lines of a text stand for.
Told(lines) == {TitleOf(lines, k) + lines[k].index + 1 : k \in RecordLines(lines)}

\* The records at the positions of S, replayed in order on an empty store.
Replayed(S) ==
  FoldLeft(
    LAMBDA v, p :
      [fits |-> v.fits /\ check(v.view.log_state, recs[p].rec),
       view |-> View(apply_state(v.view.log_state, recs[p].rec),
                     apply_log(v.view.log, recs[p].rec, recs[p].chunk, p))],
    [fits |-> TRUE, view |-> View(default_state, EmptyMap)],
    Ascending(S))

Printed(kind) == observer.kind = kind /\ observer.left = <<>>

HasError(lines) == \E k \in 1 .. Len(lines) : lines[k] = ErrorLine

\* The chunks a store has loaded describe it without the others (RefDump): the
\* text of RaftLog::dump, replayed on an empty store, gives the present state
\* and log map, although the chunks buffered for removal are not printed and
\* their files may exist.
RefDumpRebuilds ==
  Printed("ref_dump") /\ observer.covered =>
    /\ ~HasError(observer.lines)
    /\ Replayed(Told(observer.lines)) = [fits |-> TRUE, view |-> View(log_state, log)]

\* An offline dump shows what the next open recovers (Dump): with no damage its
\* records rebuild the state and the log map of the last record; an incomplete
\* record at the end shows as an error, as the only one.
OfflineDumpRebuilds ==
  Printed("offline") /\ damaged = {} =>
    /\ HasError(observer.lines) <=> torn
    /\ files # {} => Replayed(Told(observer.lines)) = [fits |-> TRUE, view |-> SnapAt(Len(recs))]

\* When open refuses a damaged store, the dump tells why and loses nothing that
\* open had read: the records in front of the damage are printed, an error
\* stands for the damaged one, and the chunks after it are still shown
\* (test_reopen_unfinished_non_last_chunk).
DamageIsShown ==
  Printed("offline") /\ damaged # {} =>
    /\ HasError(observer.lines)
    /\ Told(observer.lines) =
         {p \in 1 .. Len(recs) :
            /\ recs[p].chunk \in files
            /\ \A q \in damaged : recs[q].chunk = recs[p].chunk => p < q}
    /\ status = "failed" => Oldest + 1 .. rp \subseteq Told(observer.lines)

\* The record at p is there, and so is all of its chunk in front of it.
Intact(p) == \A q \in damaged : recs[q].chunk = recs[p].chunk => p < q

Lines ==
  [type : {"chunk"}, id : Nat] \cup [type : {"record"}, index : Nat, rec : RaftLogRecord]
    \cup [type : {"error"}]

IsText(o) ==
  /\ o = [kind |-> o.kind, left |-> o.left, index |-> o.index, lines |-> o.lines,
          covered |-> o.covered]
  /\ o.left \in Seq(Nat) /\ o.index \in Nat /\ o.lines \in Seq(Lines)

\* The chunks a text has still to print, and the places it has printed of the
\* first of them.
LeftChunks == {observer.left[k] : k \in 1 .. Len(observer.left)}

Begun ==
  IF observer.left = <<>> THEN {}
  ELSE Head(observer.left) + 1 .. Head(observer.left) + observer.index

\* Where a text stands: among the records of the chunk under whose title it is.
TextPlaced ==
  observer.kind \in {"ref_dump", "offline"} =>
    /\ status \in IF observer.kind = "offline" THEN {"down", "failed"} ELSE {"up"}
    /\ IsText(observer)
    /\ Start(LeftChunks, recs)
    /\ observer.covered => written = Len(recs)
    /\ \A p \in Begun : p \in 1 .. Len(recs) /\ recs[p].chunk = Head(observer.left)
    /\ observer.index > 0 =>
         /\ observer.left # <<>>
         /\ Titles(observer.lines, Len(observer.lines)) # {}
         /\ TitleOf(observer.lines, Len(observer.lines)) = Head(observer.left)

\* The chunks a text is about: the files, or those a running store has loaded.
Source == IF observer.kind = "offline" THEN files ELSE DOMAIN closed \cup {open_chunk}

\* A text that finds all records of its chunks in the files.
Complete == observer.kind \in {"ref_dump", "offline"} /\ observer.covered

\* What such a text has told: of the chunks behind it, the records in front of
\* any damage, and an error for the damage; the open chunk comes last.
TextCounts ==
  /\ observer.kind = "offline" => observer.covered
  /\ Complete =>
       /\ LeftChunks \subseteq Source
       /\ \A j, k \in 1 .. Len(observer.left) : observer.left[j] = observer.left[k] => j = k
       /\ Told(observer.lines) =
            {p \in 1 .. Len(recs) : recs[p].chunk \in Source \ LeftChunks /\ Intact(p)}
              \cup Begun
       /\ damaged \cap Begun = {}
       /\ \A q \in damaged : recs[q].chunk \notin LeftChunks => HasError(observer.lines)
       /\ observer.kind = "ref_dump" /\ observer.left # <<>> =>
            observer.left[Len(observer.left)] = open_chunk

\* Without damage only an incomplete record is an error, the last thing told.
TextErrors ==
  Complete /\ damaged = {} =>
    (HasError(observer.lines) <=> torn /\ observer.left = <<>>)

\* The shape of the WAL and its files.
WalShape ==
  /\ recs \in Seq([chunk : Nat, rec : RaftLogRecord])
  /\ Led(recs) /\ ChunksAscend(recs)
  /\ files \subseteq Nat /\ Start(files, recs)
  /\ rp \in Nat /\ written = Len(recs)

\* Damage is in the files, no store runs on it or on an incomplete record, open
\* has not read it, and fails because of it only.
DamageAhead ==
  /\ \A q \in damaged : q \in 1 .. Len(recs) /\ recs[q].chunk \in files
  /\ status = "up" => damaged = {} /\ ~torn
  /\ status = "failed" => WalShape /\ damaged # {}
  /\ status \in {"replay", "failed"} =>
       /\ \A q \in damaged : rp < q
       /\ rp <= Len(recs)
       /\ files # {} => \A p \in Oldest + 1 .. rp : recs[p].chunk \in files

\* The inductive invariant behind the properties of texts: the titles and
\* indexes a text has written so far account for exactly the records it has
\* passed (write_ok, write_error, Dump::write), its errors for what is damaged
\* or incomplete, and an open that failed stands in front of the damage, with
\* everything behind it intact.
TextInv == TextTellsPlace /\ TextPlaced /\ TextCounts /\ TextErrors /\ DamageAhead

\* When blocking_flush returns, everything written before it is on stable
\* storage and acknowledged: its request is behind all others that carry data,
\* also when an earlier sync has reached as far (blocking_flush, RaftLog::flush).
FlushedWhenAnswered ==
  observer.kind = "wait" /\ observer.for = "ack" /\ Len(queue) <= observer.behind =>
    synced = Len(recs) /\ acked = Len(recs)

\* The inductive invariant behind FlushedWhenAnswered: until it is served, the
\* request of a blocking_flush keeps its place before the end of the queue, and
\* covers all records there are.
WaitInv ==
  /\ FlushedWhenAnswered
  /\ observer.kind = "wait" =>
       /\ status = "up"
       /\ observer.behind \in Nat
       /\ observer.for = "ack" /\ Len(queue) > observer.behind =>
            queue[Len(queue) - observer.behind] =
              WriteRequest(open_chunk, Len(recs), TRUE, TRUE)

---------------------------------------------------------------------------
(* Liveness.                                                               *)
(* The FlushWorker is a thread that runs until the store is dropped, and   *)
(* open runs to its end once called; a node that crashed is restarted. The *)
(* node calls flush(true) again and again, as Raft does before it answers. *)
ObservedFairness ==
  /\ WF_allvars(FlushWorker /\ UNCHANGED <<observer, damaged>>)
  /\ WF_allvars(open_locked)
  /\ SF_allvars(~Borrowed /\ flush(TRUE) /\ UNCHANGED <<observer, damaged>>)
  /\ WF_allvars(wait_returns)

FairObservedSpec == ObservedSpec /\ ObservedFairness

\* A thread in wait_worker_idle or blocking_flush gets out of it: it blocks
\* the operations that would fill the queue, never the FlushWorker.
WaitsEnd == observer.kind = "wait" ~> observer.kind # "wait"

=============================================================================
