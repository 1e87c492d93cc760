------------------------- MODULE RaftLogRecoveryProofs -------------------------
(***************************************************************************)
(* Recovery: wherever a crash cuts the WAL, the files needed are there and *)
(* a replay rebuilds the state and the log map of the last record left.    *)
(* The files: each is accounted for, they leave oldest first, and what a   *)
(* crash leaves of them can always be opened again.                        *)
(***************************************************************************)
EXTENDS RaftLogProofs

\* Callers purge ids of their own log and restore states that take nothing back.
Obliged == {"consistent_purge", "forward_restore"} \subseteq Contract

---------------------------------------------------------------------------
(* append_and_apply.                                                       *)

\* A record that restates the view reached starts a new chunk.
LEMMA RestateGrows ==
  ASSUME NEW r, NEW h, Wal(r, h), NEW s, NEW l, At(h, Len(r)) = View(s, l),
         WellFormed(s, l)
  PROVE  Grows(r, h, Entry(Len(r), CheckpointRecord(s)), View(s, l))
<1>1. Len(r) \in Nat /\ IsView(View(s, l))
  BY WalTypes
<1>2. View(s, l).log_state = s /\ View(s, l).log = l
  BY DEF View
<1>3. s \in RaftLogState /\ IsLog(l)
  BY <1>1, <1>2 DEF IsView
<1>4. PICK e : e = Entry(Len(r), CheckpointRecord(s))
  OBVIOUS
<1>5. /\ e.chunk = Len(r) /\ e.rec = CheckpointRecord(s)
      /\ e.rec.type = "Checkpoint" /\ e.rec.state = s /\ e \in WalEntry
  BY <1>1, <1>3, <1>4 DEF Entry, CheckpointRecord, WalEntry, RaftLogRecord
<1>6. apply_state(s, e.rec) = s
  BY <1>5, ApplyStateCases
<1>7. apply_log(l, e.rec, e.chunk, Len(r) + 1) = l
  BY <1>5, Zenon DEF apply_log
<1>8. check(s, e.rec)
  BY <1>5 DEF check
<1>9. s.vote >= s.vote
  BY <1>3 DEF RaftLogState, OptVote, NoVote
<1>10. Builds(View(s, l), e, Len(r) + 1, View(s, l))
  BY <1>2, <1>6, <1>7, <1>8 DEF Builds
<1> QED
  BY <1>1, <1>2, <1>4, <1>5, <1>9, <1>10 DEF Grows

\* What a running store knows of its records.
LEMMA UpFacts ==
  ASSUME RecoveryInv, status = "up"
  PROVE  /\ Wal(recs, snap) /\ History(recs, snap)
         /\ Len(recs) \in Nat /\ Len(recs) > 0
         /\ open_chunk \in Nat /\ open_chunk = recs[Len(recs)].chunk
         /\ open_chunk < Len(recs)
         /\ At(snap, Len(recs)) = View(log_state, log)
         /\ log_state \in RaftLogState /\ IsLog(log) /\ WellFormed(log_state, log)
<1>1. /\ Wal(recs, snap) /\ History(recs, snap) /\ Len(recs) \in Nat
      /\ Len(recs) > 0 /\ open_chunk = recs[Len(recs)].chunk
      /\ open_chunk \in Nat /\ log_state \in RaftLogState /\ IsLog(log)
  BY DEF RecoveryInv, TypeInv, TypeOK, Structure, ChunksLed, OpenChunkIsLast, HistoryInv,
      Wal, WalEntry
<1>2. Len(recs) \in 1 .. Len(recs) /\ open_chunk < Len(recs)
  BY <1>1 DEF Wal, Led
<1>3. IsView(snap[Len(recs)]) /\ Len(snap) = Len(recs)
  BY <1>1, <1>2, WalTypes DEF Wal
<1>4. log_state = snap[Len(recs)].log_state /\ log = snap[Len(recs)].log
  BY DEF RecoveryInv, StoreInv, MemoryFollows
<1>5. At(snap, Len(recs)) = View(log_state, log)
  BY <1>1, <1>3, <1>4 DEF At, IsView
<1>6. WellFormed(log_state, log)
  BY <1>1, <1>2, <1>3, <1>4 DEF History, ViewsWellFormed
<1> QED
  BY <1>1, <1>2, <1>5, <1>6

\* A record that passes the check and leaves one log makes the history grow.
LEMMA RecordGrows ==
  ASSUME RecoveryInv, status = "up", NEW rec \in RaftLogRecord, check(log_state, rec),
         NEW st, st = apply_state(log_state, rec),
         NEW lg, lg = apply_log(log, rec, open_chunk, Len(recs) + 1),
         WellFormed(st, lg), st.vote >= log_state.vote
  PROVE  Grows(recs, snap, Entry(open_chunk, rec), View(st, lg))
<1>1. /\ Wal(recs, snap) /\ Len(recs) \in Nat /\ Len(recs) > 0
      /\ open_chunk \in Nat /\ open_chunk = recs[Len(recs)].chunk
      /\ At(snap, Len(recs)) = View(log_state, log)
      /\ log_state \in RaftLogState /\ IsLog(log)
  BY UpFacts
<1>2. PICK e, v : e = Entry(open_chunk, rec) /\ v = View(st, lg)
  OBVIOUS
<1>3. e \in WalEntry /\ e.chunk = open_chunk /\ e.rec = rec
  BY <1>1, <1>2 DEF Entry, WalEntry
<1>4. st \in RaftLogState /\ IsLog(lg)
  BY <1>1, ApplyStateType, ApplyLogType
<1>5. IsView(v) /\ v.log_state = st /\ v.log = lg
  BY <1>2, <1>4 DEF View, IsView
<1>6. View(log_state, log).log_state = log_state /\ View(log_state, log).log = log
  BY DEF View
<1>7. Builds(View(log_state, log), e, Len(recs) + 1, v)
  BY <1>3, <1>5, <1>6 DEF Builds
<1> QED
  BY <1>1, <1>2, <1>3, <1>5, <1>6, <1>7 DEF Grows

\* What StoreInv says of the disk and of the FlushWorker's queue.
LEMMA DiskFacts ==
  ASSUME RecoveryInv
  PROVE  /\ Wal(recs, snap) /\ History(recs, snap) /\ Len(recs) \in Nat
         /\ queue \in Seq(Requests) /\ Covers(queue, recs)
         /\ files \subseteq Nat /\ removed_chunks \subseteq Nat /\ IsClosed(closed)
         /\ acked \in Nat /\ synced \in Nat /\ written \in Nat /\ handed \in Nat
         /\ open_chunk \in Nat /\ rp \in Nat
         /\ acked <= synced /\ synced <= written /\ written <= handed /\ handed <= Len(recs)
         /\ synced <= Len(recs)
         /\ Ordered(queue, written, handed)
         /\ RemovalsDead(queue, synced, recs, snap)
         /\ Hold(files, synced, recs, snap) /\ Start(files, recs)
         /\ ClosedAtEnd(closed, open_chunk, recs, snap)
         /\ \A c \in removed_chunks : Dead(recs, snap, c, Len(recs))
<1>1. /\ Wal(recs, snap) /\ Len(recs) \in Nat /\ queue \in Seq(Requests)
      /\ files \subseteq Nat /\ removed_chunks \subseteq Nat /\ IsClosed(closed)
      /\ acked \in Nat /\ synced \in Nat /\ written \in Nat /\ handed \in Nat
      /\ open_chunk \in Nat /\ rp \in Nat
  BY DEF RecoveryInv, TypeInv, TypeOK, Structure, ChunksLed, Wal, WalEntry
<1>2. History(recs, snap) /\ Covers(queue, recs)
  BY DEF RecoveryInv, HistoryInv, TypeInv, Structure, RequestsCover
<1>3. /\ acked <= synced /\ synced <= written /\ written <= handed /\ handed <= Len(recs)
      /\ Ordered(queue, written, handed)
      /\ RemovalsDead(queue, synced, recs, snap)
      /\ Hold(files, synced, recs, snap) /\ Start(files, recs)
      /\ ClosedAtEnd(closed, open_chunk, recs, snap)
      /\ \A c \in removed_chunks : Dead(recs, snap, c, Len(recs))
  BY DEF RecoveryInv, StoreInv, PositionsInOrder, RemovedDead
<1> QED
  BY <1>1, <1>2, <1>3

\* append_and_apply of a record that leaves one log, and takes no vote back.
LEMMA AppendAndApplyRecovery ==
  ASSUME RecoveryInv, status = "up", NEW rec \in RaftLogRecord, NEW buffer \in BOOLEAN,
         append_and_apply(rec, buffer),
         call' \in [rest : Seq(LogId \X Payload), from : Nat],
         WellFormed(apply_state(log_state, rec),
                    apply_log(log, rec, open_chunk, Len(recs) + 1)),
         apply_state(log_state, rec).vote >= log_state.vote
  PROVE  RecoveryInv'
<1> DEFINE pos == Len(recs) + 1
<1>1. PICK st, lg : /\ st = apply_state(log_state, rec)
                    /\ lg = apply_log(log, rec, open_chunk, pos)
  OBVIOUS
<1>2. PICK e, v, r, h : /\ e = Entry(open_chunk, rec) /\ v = View(st, lg)
                        /\ r = Append(recs, e) /\ h = Append(snap, v)
  OBVIOUS
<1>3. TypeInv'
  BY AppendAndApplyType DEF RecoveryInv
<1>4. Grows(recs, snap, e, v)
  <2>1. check(log_state, rec)
    BY DEF append_and_apply, Accepts
  <2> QED
    BY <1>1, <1>2, <2>1, RecordGrows
<1>5. /\ Wal(recs, snap) /\ History(recs, snap) /\ Len(recs) \in Nat
      /\ queue \in Seq(Requests) /\ Covers(queue, recs) /\ Len(queue) \in Nat
      /\ files \subseteq Nat /\ removed_chunks \subseteq Nat /\ IsClosed(closed)
      /\ synced \in Nat /\ written \in Nat /\ handed \in Nat
      /\ open_chunk \in Nat /\ acked \in Nat
      /\ acked <= synced /\ synced <= written /\ written <= handed /\ handed <= Len(recs)
      /\ synced <= Len(recs)
      /\ Ordered(queue, written, handed)
      /\ RemovalsDead(queue, synced, recs, snap)
      /\ Hold(files, synced, recs, snap) /\ Start(files, recs)
      /\ ClosedAtEnd(closed, open_chunk, recs, snap)
      /\ \A c \in removed_chunks : Dead(recs, snap, c, Len(recs))
  BY DiskFacts
<1>6. /\ Len(recs) > 0 /\ open_chunk = recs[Len(recs)].chunk /\ open_chunk < Len(recs)
      /\ IsLog(log) /\ log_state \in RaftLogState /\ recs \in Seq(WalEntry)
  BY UpFacts DEF Wal
<1>7. /\ Grown(recs, snap, e, v, r, h) /\ History(r, h)
  BY <1>2, <1>4, <1>5, GrownByOne, HistoryGrows
<1>8. /\ Wal(r, h) /\ Len(r) = pos /\ r[pos] = e /\ h[pos] = v /\ At(h, pos) = v
      /\ e.chunk = open_chunk /\ v.log_state = st /\ v.log = lg /\ v = View(st, lg)
      /\ WellFormed(st, lg) /\ pos \in Nat /\ pos > 0 /\ Len(h) = pos
  BY <1>1, <1>2, <1>5, <1>7 DEF Grown, Entry, View
<1>9. st \in RaftLogState
  BY <1>1, <1>6, ApplyStateType
<1>10. /\ \A c \in removed_chunks : Dead(r, h, c, Len(recs))
       /\ RemovalsDead(queue, synced, r, h)
       /\ Hold(files, synced, r, h) /\ Start(files, r)
       /\ ClosedAtEnd(closed, open_chunk, r, h)
       /\ Covers(queue, r)
  <2>1. \A c \in removed_chunks : Dead(r, h, c, Len(recs))
    BY <1>4, <1>5, <1>7, DeadGrows
  <2>2. RemovalsDead(queue, synced, r, h)
    BY <1>4, <1>5, <1>7, RemovalsGrow
  <2>3. open_chunk \in files
    <3>1. Len(recs) \in 1 .. Len(recs) /\ synced <= Len(recs)
      BY <1>5, <1>6
    <3> QED
      BY <1>5, <1>6, <3>1 DEF Hold
  <2>4. files = files \cup {e.chunk}
    BY <1>8, <2>3
  <2>5. Hold(files \cup {e.chunk}, synced, r, h) /\ Start(files \cup {e.chunk}, r)
    BY <1>4, <1>5, <1>7, HoldGrows, StartGrows
  <2>6. ClosedAtEnd(closed, open_chunk, r, h)
    BY <1>4, <1>5, <1>7, <1>8, ClosedGrows
  <2>7. Covers(queue, r)
    <3>1. e \in WalEntry
      BY <1>4 DEF Grows
    <3> QED
      BY <1>2, <1>5, <1>6, <3>1, CoversGrow
  <2> QED
    BY <2>1, <2>2, <2>4, <2>5, <2>6, <2>7
<1> DEFINE full == pos - open_chunk >= ChunkMaxRecords
           chunks == IF full THEN CloseChunk(closed, open_chunk, st) ELSE closed
           removable == IF full \/ buffer THEN Removable(chunks, st.purged) ELSE {}
<1>11. /\ log_state' = st /\ log' = lg
       /\ closed' = [c \in DOMAIN chunks \ removable |-> chunks[c]]
       /\ removed_chunks' = removed_chunks \cup removable
       /\ UNCHANGED <<status, written, synced, acked, torn, rp>>
  BY <1>1 DEF append_and_apply
<1> DEFINE Package(rr, hh) ==
             /\ Wal(rr, hh) /\ History(rr, hh) /\ Len(rr) \in Nat /\ Len(rr) > 0
             /\ hh[Len(rr)] = v /\ open_chunk' = rr[Len(rr)].chunk
             /\ ClosedAtEnd(chunks, open_chunk', rr, hh)
             /\ \A c \in removed_chunks : Dead(rr, hh, c, Len(rr))
             /\ RemovalsDead(queue', synced, rr, hh)
             /\ Hold(files', synced, rr, hh) /\ Start(files', rr)
             /\ written <= handed' /\ handed' <= Len(rr)
             /\ Ordered(queue', written, handed')
             /\ recs' = rr /\ snap' = hh
<1>12. ASSUME ~full PROVE \E rr, hh : Package(rr, hh)
  <2>1. /\ recs' = r /\ snap' = h /\ open_chunk' = open_chunk /\ handed' = handed
        /\ queue' = queue /\ files' = files /\ chunks = closed
    BY <1>1, <1>2, <1>12 DEF append_and_apply
  <2>2. \A c \in removed_chunks : Dead(r, h, c, pos)
    BY <1>5, <1>8, <1>10, DeadLater
  <2> HIDE DEF full, chunks
  <2>3. Package(r, h)
    BY <1>5, <1>7, <1>8, <1>10, <2>1, <2>2
  <2> HIDE DEF Package
  <2> QED
    BY <2>3
<1>13. ASSUME full PROVE \E rr, hh : Package(rr, hh)
  <2>1. PICK k, w : k = Entry(pos, CheckpointRecord(st)) /\ w = WriteRequest(open_chunk, pos, TRUE, FALSE)
    OBVIOUS
  <2>2. PICK rr, hh : rr = Append(r, k) /\ hh = Append(h, v)
    OBVIOUS
  <2>3. /\ recs' = rr /\ snap' = hh /\ open_chunk' = pos /\ handed' = pos
        /\ queue' = Append(queue, w) /\ files' = files \cup {pos}
        /\ chunks = CloseChunk(closed, open_chunk, st)
    BY <1>1, <1>2, <1>13, <2>1, <2>2 DEF append_and_apply
  <2> HIDE DEF full, chunks
  <2>4. Grows(r, h, k, v)
    BY <1>8, <2>1, RestateGrows
  <2>5. Grown(r, h, k, v, rr, hh) /\ History(rr, hh)
    BY <1>7, <1>8, <2>2, <2>4, GrownByOne, HistoryGrows
  <2>6. /\ Wal(rr, hh) /\ Len(rr) = pos + 1 /\ rr[pos + 1] = k /\ hh[pos + 1] = v
        /\ k.chunk = pos /\ k \in WalEntry
    BY <1>8, <2>1, <2>4, <2>5 DEF Grown, Grows, Entry
  <2>7. ClosedAtEnd(chunks, pos, rr, hh)
    <3>1. /\ pos \in 1 .. Len(r) /\ open_chunk < pos
          /\ \A s \in 1 .. Len(r) : r[s].chunk = open_chunk => s <= pos
      BY <1>5, <1>6, <1>8
    <3>2. h[pos].log_state = st
      BY <1>8
    <3>3. ClosedAtEnd(chunks, pos, r, h)
      BY <1>5, <1>8, <1>10, <2>3, <3>1, <3>2, CloseAtEnd
    <3>4. IsClosed(chunks)
      BY <1>5, <1>9, <2>3, CloseChunkType
    <3>5. pos <= k.chunk
      BY <1>8, <2>6
    <3> QED
      BY <1>8, <2>4, <2>5, <3>3, <3>4, <3>5, ClosedGrows
  <2>8. ASSUME NEW c \in removed_chunks
        PROVE  Dead(rr, hh, c, Len(rr))
    <3>1. Dead(rr, hh, c, Len(recs))
      BY <1>5, <1>8, <1>10, <2>4, <2>5, DeadGrows
    <3> QED
      BY <1>5, <2>6, <3>1, DeadLater
  <2>9. Hold(files', synced, rr, hh) /\ Start(files', rr)
    <3>1. synced <= Len(r)
      BY <1>5, <1>8
    <3>2. Hold(files \cup {k.chunk}, synced, rr, hh) /\ Start(files \cup {k.chunk}, rr)
      BY <1>5, <1>8, <1>10, <2>4, <2>5, <3>1, HoldGrows, StartGrows
    <3> QED
      BY <2>3, <2>6, <3>2
  <2>10. RemovalsDead(queue, synced, rr, hh) /\ Covers(queue, rr)
    <3>1. synced <= Len(r)
      BY <1>5, <1>8
    <3>2. r \in Seq(WalEntry)
      BY <1>8 DEF Wal
    <3> QED
      BY <1>5, <1>8, <1>10, <2>2, <2>4, <2>5, <2>6, <3>1, <3>2, RemovalsGrow, CoversGrow
  <2>11. Ordered(queue', written, pos) /\ RemovalsDead(queue', synced, rr, hh)
    <3>1. handed <= pos
      BY <1>5
    <3> QED
      BY <1>5, <1>8, <2>1, <2>3, <2>10, <3>1, QueueWrite
  <2>12. Package(rr, hh)
    <3>1. written <= pos /\ pos <= Len(rr) /\ Len(rr) \in Nat /\ Len(rr) > 0
      BY <1>5, <2>6
    <3> QED
      BY <2>3, <2>5, <2>6, <2>7, <2>8, <2>9, <2>11, <3>1
  <2> HIDE DEF Package
  <2> QED
    BY <2>12
<1>14. PICK rr, hh : Package(rr, hh)
  <2> HIDE DEF Package
  <2> QED
    BY <1>12, <1>13
<1>15. IsClosed(chunks)
  BY <1>5, <1>9, CloseChunkType
<1> HIDE DEF chunks, full
<1>16. /\ ClosedAtEnd(closed', open_chunk', rr, hh)
       /\ \A c \in removed_chunks' : Dead(rr, hh, c, Len(rr))
  <2>1. open_chunk' \in Nat
    BY <1>3 DEF TypeInv, TypeOK
  <2>2. ClosedAtEnd(closed', open_chunk', rr, hh)
    <3> HIDE DEF removable
    <3> QED
      BY <1>11, <1>14, <1>15, <2>1, DrainAtEnd
  <2>3. \A c \in Removable(chunks, st.purged) : Dead(rr, hh, c, Len(rr))
    <3>1. hh[Len(rr)].log_state.purged = st.purged
      BY <1>8, <1>14
    <3> QED
      BY <1>14, <1>15, <3>1, RemovableDead
  <2> QED
    BY <1>11, <1>14, <2>2, <2>3
<1> HIDE DEF removable
<1>17. HistoryInv'
  BY <1>14 DEF HistoryInv
<1>18. StoreInv'
  <2>1. status' = "up"
    BY <1>11
  <2>2. MemoryFollows'
    BY <1>8, <1>11, <1>14, <2>1 DEF MemoryFollows
  <2>3. PositionsInOrder'
    BY <1>5, <1>11, <1>14 DEF PositionsInOrder
  <2>4. RemovedDead' /\ ClosedAtEnd(closed, open_chunk, recs, snap)'
    BY <1>14, <1>16 DEF RemovedDead
  <2>5. /\ RemovalsDead(queue, synced, recs, snap)'
        /\ Hold(files, synced, recs, snap)' /\ Start(files, recs)' /\ TornPlace'
    BY <1>11, <1>14 DEF TornPlace
  <2> QED
    BY <2>1, <2>2, <2>3, <2>4, <2>5 DEF StoreInv, ReplayFollows, ReplayOfNothing
<1> QED
  BY <1>3, <1>17, <1>18 DEF RecoveryInv

---------------------------------------------------------------------------
(* The caller's operations keep the invariant.                             *)

\* append_and_apply of a proper record.
LEMMA ProperRecovery ==
  ASSUME RecoveryInv, status = "up", NEW rec \in RaftLogRecord, NEW buffer \in BOOLEAN,
         append_and_apply(rec, buffer), Proper(log_state, log, rec), TypeInv'
  PROVE  RecoveryInv'
<1>1. /\ log_state \in RaftLogState /\ IsLog(log) /\ WellFormed(log_state, log)
      /\ open_chunk \in Nat /\ Len(recs) + 1 \in Nat
  BY UpFacts
<1>2. check(log_state, rec)
  BY DEF append_and_apply, Accepts
<1>3. call' \in [rest : Seq(LogId \X Payload), from : Nat]
  BY DEF TypeInv, TypeOK
<1>4. /\ WellFormed(apply_state(log_state, rec),
                    apply_log(log, rec, open_chunk, Len(recs) + 1))
      /\ apply_state(log_state, rec).vote >= log_state.vote
  BY <1>1, <1>2, ApplyWellFormed
<1> QED
  BY <1>3, <1>4, AppendAndApplyRecovery

\* Steps that touch neither the records nor the files nor the queue.
LEMMA QuietRecovery ==
  ASSUME RecoveryInv, TypeInv',
         UNCHANGED <<status, log_state, log, wal, worker, disk, rp>>
  PROVE  RecoveryInv'
<1>1. HistoryInv' /\ MemoryFollows' /\ ReplayFollows' /\ ReplayOfNothing'
  BY DEF RecoveryInv, HistoryInv, StoreInv, MemoryFollows, ReplayFollows, ReplayOfNothing,
      Oldest, wal, worker, disk
<1>2. PositionsInOrder' /\ RemovedDead' /\ TornPlace'
  BY DEF RecoveryInv, StoreInv, PositionsInOrder, RemovedDead, TornPlace, wal, worker, disk
<1>3. /\ ClosedAtEnd(closed, open_chunk, recs, snap)'
      /\ RemovalsDead(queue, synced, recs, snap)'
      /\ Hold(files, synced, recs, snap)' /\ Start(files, recs)'
  BY DEF RecoveryInv, StoreInv, wal, worker, disk
<1> QED
  BY <1>1, <1>2, <1>3 DEF RecoveryInv, StoreInv

\* flush
LEMMA FlushRecovery ==
  ASSUME RecoveryInv, TypeInv', NEW sync \in BOOLEAN, flush(sync)
  PROVE  RecoveryInv'
<1> DEFINE n == Len(recs)
<1>1. /\ status = "up" /\ handed' = n /\ removed_chunks' \subseteq removed_chunks
      /\ UNCHANGED <<status, mem, recs, snap, open_chunk, first_chunk, closed,
                     written, synced, acked, disk, rp>>
  BY DEF flush, Ready, StillRemoved
<1>2. /\ n \in Nat /\ queue \in Seq(Requests) /\ Covers(queue, recs)
      /\ removed_chunks \subseteq Nat /\ open_chunk \in Nat
      /\ synced \in Nat /\ written \in Nat /\ handed \in Nat
      /\ acked <= synced /\ synced <= written /\ written <= handed /\ handed <= n
      /\ Ordered(queue, written, handed) /\ RemovalsDead(queue, synced, recs, snap)
      /\ Hold(files, synced, recs, snap) /\ Start(files, recs)
      /\ ClosedAtEnd(closed, open_chunk, recs, snap)
      /\ \A c \in removed_chunks : Dead(recs, snap, c, n)
  BY DiskFacts
<1>3. PICK w, q : w = WriteRequest(open_chunk, n, sync, sync) /\ q = Append(queue, w)
  OBVIOUS
<1>4. /\ q \in Seq(Requests) /\ Len(q) = Len(queue) + 1 /\ q[Len(queue) + 1] = w
      /\ Ordered(q, written, n) /\ RemovalsDead(q, synced, recs, snap)
  BY <1>2, <1>3, QueueWrite
<1>5. Ordered(queue', written, n) /\ RemovalsDead(queue', synced, recs, snap)
  <2>1. CASE Removals(sync) = {}
    <3>1. queue' = q
      BY <1>3, <2>1 DEF flush
    <3> QED
      BY <1>4, <3>1
  <2>2. CASE Removals(sync) # {}
    <3>1. sync = TRUE /\ Removals(sync) = removed_chunks
      BY <2>2 DEF Removals
    <3>2. queue' = Append(q, RemoveRequest(removed_chunks))
      BY <1>3, <2>2, <3>1 DEF flush
    <3>3. Len(q) > 0 /\ q[Len(q)] = w
      BY <1>2, <1>4
    <3>4. w.type = "Write" /\ w.upto = n
      BY <1>3 DEF WriteRequest
    <3>5. w.sync = sync
      BY <1>3 DEF WriteRequest
    <3>6. w.sync
      BY <3>1, <3>5
    <3>7. \A c \in removed_chunks : Dead(recs, snap, c, w.upto)
      BY <1>2, <3>4
    <3>8. q[Len(q)].type = "Write" /\ q[Len(q)].sync
          /\ \A c \in removed_chunks : Dead(recs, snap, c, q[Len(q)].upto)
      BY <3>3, <3>4, <3>6, <3>7
    <3> QED
      BY <1>2, <1>4, <3>2, <3>3, <3>8, QueueRemove
  <2> QED
    BY <2>1, <2>2
<1>6. HistoryInv' /\ MemoryFollows' /\ ReplayFollows' /\ ReplayOfNothing' /\ TornPlace'
  BY <1>1 DEF RecoveryInv, HistoryInv, StoreInv, MemoryFollows, ReplayFollows,
      ReplayOfNothing, TornPlace, mem, disk
<1>7. PositionsInOrder' /\ RemovedDead'
  BY <1>1, <1>2, <1>5 DEF PositionsInOrder, RemovedDead
<1>8. /\ ClosedAtEnd(closed, open_chunk, recs, snap)'
      /\ RemovalsDead(queue, synced, recs, snap)'
      /\ Hold(files, synced, recs, snap)' /\ Start(files, recs)'
  BY <1>1, <1>2, <1>5 DEF disk
<1> QED
  BY <1>6, <1>7, <1>8 DEF RecoveryInv, StoreInv

\* What callers that keep their obligations write: a checkpoint restates the
\* state with other user data, or declares one that takes nothing back.
Issued(rec) ==
  /\ Proper(log_state, log, rec)
  /\ rec.type = "Checkpoint" =>
       \/ \E u \in UserDatas : rec.state = [log_state EXCEPT !.user_data = u]
       \/ /\ check_checkpoint(log, rec.state)
          /\ Le(log_state.last, rec.state.last) /\ Le(log_state.purged, rec.state.purged)
  /\ rec.type = "PurgeUpto" =>
       log_index(rec.log_id) >= next_log_index(log_state.purged)

\* How the append call stands afterwards: it goes on with the entries left.
CallGoesOn(rec) ==
  \/ rec.type # "Append" /\ call = NoCall /\ call' = NoCall
  \/ \E entries \in Seq(LogId \X Payload) :
       /\ entries # <<>> /\ rec = AppendAction(entries[1][1], entries[1][2])
       /\ call'.rest = Tail(entries)
       /\ entries = call.rest \/ \A k \in 1 .. Len(entries) : FreshId(entries[k][1])

\* One record written by a caller.
Writes(rec) ==
  /\ status = "up" /\ Issued(rec) /\ CallGoesOn(rec)
  /\ \E buffer \in BOOLEAN : append_and_apply(rec, buffer)

\* Every operation of a caller that keeps its obligations writes one proper
\* record, flushes, or leaves the records alone.
LEMMA CallerSteps ==
  ASSUME RecoveryInv, Caller, Obliged
  PROVE  \/ \E rec \in RaftLogRecord : Writes(rec)
         \/ \E sync \in BOOLEAN : flush(sync)
         \/ append_reject \/ drain_cache_evictable
<1> DEFINE Goal == \E rec \in RaftLogRecord : Writes(rec)
<1>1. ASSUME status = "up"
      PROVE  log_state \in RaftLogState /\ IsLog(log) /\ WellFormed(log_state, log)
  BY <1>1, UpFacts
<1>2. ASSUME NEW vote \in Votes, save_vote(vote)
      PROVE  Goal
  <2>1. PICK rec : rec = SaveVoteAction(vote)
    OBVIOUS
  <2>2. rec \in RaftLogRecord /\ rec.type = "SaveVote"
    BY <2>1, InputAssumption DEF SaveVoteAction, RaftLogRecord
  <2>3. Issued(rec)
    BY <2>2 DEF Issued, Proper
  <2>4. Writes(rec)
    BY <1>2, <2>1, <2>2, <2>3 DEF Writes, CallGoesOn, save_vote, Ready
  <2> QED
    BY <2>2, <2>4
<1>3. ASSUME NEW user_data \in UserDatas, save_user_data(user_data)
      PROVE  Goal
  <2>0. status = "up"
    BY <1>3 DEF save_user_data, Ready
  <2>1. PICK t, rec : /\ t = [log_state EXCEPT !.user_data = user_data]
                      /\ rec = CheckpointRecord(t)
    OBVIOUS
  <2>2. /\ t \in RaftLogState /\ t.last = log_state.last /\ t.purged = log_state.purged
        /\ t.committed = log_state.committed /\ t.vote = log_state.vote
    BY <1>1, <2>0, <2>1, InputAssumption DEF RaftLogState
  <2>3. WellFormed(t, log) /\ t.vote >= log_state.vote
    <3>1. Le(log_state.committed, log_state.last)
      BY <1>1, <2>0 DEF WellFormed, MarksInOrder
    <3>2. log_state.vote >= log_state.vote
      BY <1>1, <2>0 DEF RaftLogState, OptVote, NoVote
    <3> QED
      BY <1>1, <2>0, <2>2, <3>1, <3>2, MarksWellFormed
  <2>4. rec \in RaftLogRecord /\ rec.type = "Checkpoint" /\ rec.state = t
    BY <2>1, <2>2 DEF CheckpointRecord, RaftLogRecord
  <2>5. Issued(rec)
    BY <2>1, <2>3, <2>4 DEF Issued, Proper
  <2>6. Writes(rec)
    BY <1>3, <2>0, <2>1, <2>4, <2>5 DEF Writes, CallGoesOn, save_user_data, Ready
  <2> QED
    BY <2>4, <2>6
<1>4. ASSUME NEW entries \in Seq(LogId \X Payload), entries # <<>>, status = "up",
             append_and_apply(AppendAction(entries[1][1], entries[1][2]), FALSE),
             call'.rest = Tail(entries),
             entries = call.rest \/ \A k \in 1 .. Len(entries) : FreshId(entries[k][1])
      PROVE  Goal
  <2>1. PICK rec : rec = AppendAction(entries[1][1], entries[1][2])
    OBVIOUS
  <2>2. entries[1][1] \in LogId /\ entries[1][2] \in Payload
    <3>1. entries[1] \in LogId \X Payload
      BY <1>4
    <3> QED
      BY <3>1
  <2>3. rec \in RaftLogRecord /\ rec.type = "Append"
    BY <2>1, <2>2 DEF AppendAction, RaftLogRecord
  <2>4. Issued(rec)
    BY <2>3 DEF Issued, Proper
  <2>5. CallGoesOn(rec)
    BY <1>4, <2>1 DEF CallGoesOn
  <2>6. Writes(rec)
    BY <1>4, <2>1, <2>4, <2>5 DEF Writes
  <2> QED
    BY <2>3, <2>6
<1>5. ASSUME NEW entries \in Seq(LogId \X Payload), Len(entries) = 1
      PROVE  Tail(entries) = NoCall.rest
  BY <1>5 DEF NoCall
<1>6. ASSUME NEW entries \in Batches, append(entries)
      PROVE  Goal
  <2>1. entries \in Seq(LogId \X Payload) /\ Len(entries) > 0 /\ DOMAIN entries = 1 .. Len(entries)
    BY InputAssumption, BoundAssumption DEF Batches
  <2>2. call'.rest = Tail(entries)
    BY <1>5, <1>6, <2>1 DEF append
  <2>3. /\ status = "up" /\ append_and_apply(AppendAction(entries[1][1], entries[1][2]), FALSE)
        /\ \A k \in 1 .. Len(entries) : FreshId(entries[k][1])
    BY <1>6, <2>1 DEF append, Ready
  <2>4. entries # <<>>
    BY <2>1
  <2> HIDE DEF Goal
  <2> QED
    BY <1>4, <2>1, <2>2, <2>3, <2>4
<1>7. ASSUME append_next
      PROVE  Goal
  <2>1. /\ call \in [rest : Seq(LogId \X Payload), from : Nat]
        /\ call.rest \in Seq(LogId \X Payload) /\ call.rest # <<>>
    BY <1>7 DEF append_next, RecoveryInv, TypeInv, TypeOK
  <2>2. call'.rest = Tail(call.rest)
    <3>1. CASE Len(call.rest) = 1
      BY <1>5, <1>7, <2>1, <3>1 DEF append_next
    <3>2. CASE Len(call.rest) # 1
      BY <1>7, <2>1, <3>2 DEF append_next
    <3> QED
      BY <3>1, <3>2
  <2> QED
    BY <1>4, <1>7, <2>1, <2>2 DEF append_next
<1>8. ASSUME NEW index \in Indexes, truncate(index)
      PROVE  Goal
  <2>0. status = "up"
    BY <1>8 DEF truncate, Ready
  <2>1. PICK keep \in TruncateKeeps(index) :
          append_and_apply(TruncateAfterAction(keep), FALSE)
    BY <1>8 DEF truncate
  <2>2. keep = log_state.purged \/ \E k \in DOMAIN log : keep = log[k].log_id
    BY <2>1 DEF TruncateKeeps
  <2>3. keep \in OptLogId
    BY <1>1, <2>0, <2>2, WellFormedTypes
  <2>4. PICK rec : rec = TruncateAfterAction(keep)
    OBVIOUS
  <2>5. rec \in RaftLogRecord /\ rec.type = "TruncateAfter" /\ rec.log_id = keep
    BY <2>3, <2>4 DEF TruncateAfterAction, RaftLogRecord
  <2>6. Issued(rec)
    BY <2>2, <2>5 DEF Issued, Proper
  <2>7. Writes(rec)
    BY <1>8, <2>0, <2>1, <2>4, <2>5, <2>6 DEF Writes, CallGoesOn, truncate, Ready
  <2> QED
    BY <2>5, <2>7
<1>9. ASSUME NEW id \in LogIds, purge(id)
      PROVE  Goal
  <2>1. PICK rec : rec = PurgeUptoAction(id)
    OBVIOUS
  <2>2. rec \in RaftLogRecord /\ rec.type = "PurgeUpto" /\ rec.log_id = id
    BY <2>1, InputAssumption DEF PurgeUptoAction, RaftLogRecord
  <2>3. ConsistentPurge(id) /\ "consistent_purge" \in Contract
    BY <1>9 DEF purge, Obliged
  <2>4. Issued(rec)
    BY <1>9, <2>2, <2>3 DEF Issued, Proper, ConsistentPurge, purge
  <2>5. Writes(rec)
    BY <1>9, <2>1, <2>2, <2>4 DEF Writes, CallGoesOn, purge, Ready
  <2> QED
    BY <2>2, <2>5
<1>10. ASSUME NEW id \in LogIds, commit(id)
       PROVE  Goal
  <2>1. PICK rec : rec = CommitAction(id)
    OBVIOUS
  <2>2. rec \in RaftLogRecord /\ rec.type = "Commit"
    BY <2>1, InputAssumption DEF CommitAction, RaftLogRecord
  <2>3. Issued(rec)
    BY <2>2 DEF Issued, Proper
  <2>4. Writes(rec)
    BY <1>10, <2>1, <2>2, <2>3 DEF Writes, CallGoesOn, commit, Ready
  <2> QED
    BY <2>2, <2>4
<1>11. ASSUME NEW state \in RestoreStates, update_state(state)
       PROVE  Goal
  <2>0. status = "up" /\ check_checkpoint(log, state) /\ ForwardRestore(state)
    BY <1>11 DEF update_state, Ready
  <2>1. PICK rec : rec = CheckpointRecord(state)
    OBVIOUS
  <2>2. state \in RaftLogState
    BY InputAssumption
  <2>3. /\ MarksInOrder(state) /\ state.vote >= log_state.vote
        /\ Le(log_state.last, state.last) /\ Le(log_state.purged, state.purged)
    BY <2>0 DEF ForwardRestore, Obliged
  <2>4. WellFormed(state, log)
    BY <1>1, <2>0, <2>2, <2>3, CheckpointWellFormed DEF WellFormed
  <2>5. rec \in RaftLogRecord /\ rec.type = "Checkpoint" /\ rec.state = state
    BY <2>1, <2>2 DEF CheckpointRecord, RaftLogRecord
  <2>6. Issued(rec)
    BY <2>0, <2>3, <2>4, <2>5 DEF Issued, Proper
  <2>7. Writes(rec)
    BY <1>11, <2>0, <2>1, <2>5, <2>6 DEF Writes, CallGoesOn, update_state, Ready
  <2> QED
    BY <2>5, <2>7
<1> HIDE DEF Goal
<1>12. \/ Goal
       \/ \E sync \in BOOLEAN : flush(sync)
       \/ append_reject \/ drain_cache_evictable
  BY <1>2, <1>3, <1>6, <1>7, <1>8, <1>9, <1>10, <1>11, Zenon DEF Caller
<1> QED
  BY <1>12 DEF Goal

\* Every operation of a caller that keeps its obligations.
LEMMA CallerRecovery ==
  ASSUME RecoveryInv, Caller, Obliged
  PROVE  RecoveryInv'
<1>1. TypeInv'
  BY CallerType DEF RecoveryInv
<1>2. ASSUME NEW rec \in RaftLogRecord, Writes(rec)
      PROVE  RecoveryInv'
  BY <1>1, <1>2, ProperRecovery DEF Writes, Issued
<1>3. ASSUME append_reject \/ drain_cache_evictable
      PROVE  RecoveryInv'
  BY <1>1, <1>3, QuietRecovery DEF append_reject, drain_cache_evictable
<1> QED
  BY <1>1, <1>2, <1>3, CallerSteps, FlushRecovery

---------------------------------------------------------------------------
(* The FlushWorker keeps the invariant.                                    *)

\* The removals left once the first request is served.
LEMMA RemovalsServed ==
  ASSUME NEW q \in Seq(Requests), q # <<>>, NEW r, NEW h, NEW m \in Nat, NEW n \in Nat,
         m <= n, RemovalsDead(q, m, r, h),
         Head(q).type = "Write" =>
           Head(q).upto \in Nat /\ (Head(q).sync => Head(q).upto <= n)
  PROVE  RemovalsDead(Tail(q), n, r, h)
<1>1. PICK t : t = Tail(q)
  OBVIOUS
<1>2. /\ Len(t) = Len(q) - 1 /\ Len(q) \in Nat /\ Len(q) > 0
      /\ \A k \in 1 .. Len(q) - 1 : t[k] = q[k + 1]
      /\ Head(q) = q[1]
  BY <1>1
<1>3. SUFFICES ASSUME NEW k \in 1 .. Len(t), t[k].type = "RemoveChunks", NEW c \in t[k].ids
               PROVE  \/ Dead(r, h, c, n)
                      \/ \E j \in 1 .. k - 1 :
                           t[j].type = "Write" /\ t[j].sync /\ Dead(r, h, c, t[j].upto)
  BY <1>1 DEF RemovalsDead
<1>4. /\ k + 1 \in 1 .. Len(q) /\ q[k + 1] = t[k]
      /\ \A j \in 1 .. k : j = 1 \/ (j - 1 \in 1 .. k - 1 /\ q[j] = t[j - 1])
  <2>1. k + 1 \in 1 .. Len(q) /\ q[k + 1] = t[k]
    BY <1>2
  <2>2. ASSUME NEW j \in 1 .. k, j # 1
        PROVE  j - 1 \in 1 .. k - 1 /\ q[j] = t[j - 1]
    <3>1. j - 1 \in 1 .. k - 1 /\ j - 1 \in 1 .. Len(q) - 1 /\ (j - 1) + 1 = j
      BY <1>2, <2>2
    <3> QED
      BY <1>2, <3>1
  <2> QED
    BY <2>1, <2>2
<1>5. (k + 1) - 1 = k
  BY <1>2
<1>6. \/ Dead(r, h, c, m)
      \/ \E j \in 1 .. k : q[j].type = "Write" /\ q[j].sync /\ Dead(r, h, c, q[j].upto)
  BY <1>3, <1>4, <1>5, Zenon DEF RemovalsDead
<1>7. CASE Dead(r, h, c, m)
  BY <1>7, DeadLater
<1>8. ASSUME NEW j \in 1 .. k, q[j].type = "Write", q[j].sync, Dead(r, h, c, q[j].upto)
      PROVE  \/ Dead(r, h, c, n)
             \/ \E i \in 1 .. k - 1 :
                  t[i].type = "Write" /\ t[i].sync /\ Dead(r, h, c, t[i].upto)
  <2>1. CASE j = 1
    <3>1. q[1].upto \in Nat /\ q[1].upto <= n
      BY <1>2, <1>8, <2>1, Zenon
    <3>2. Dead(r, h, c, n)
      BY <1>8, <2>1, <3>1, DeadLater
    <3> QED
      BY <3>2
  <2>2. CASE j # 1
    BY <1>4, <1>8, <2>2, Zenon
  <2> QED
    BY <2>1, <2>2
<1> QED
  BY <1>6, <1>7, <1>8

\* What a step of the FlushWorker leaves alone.
LEMMA WorkerRecovery ==
  ASSUME RecoveryInv, TypeInv', status = "up",
         UNCHANGED <<status, log_state, log, wal, torn, rp>>,
         acked' <= synced', synced' <= written', written' <= handed,
         Ordered(queue', written', handed),
         RemovalsDead(queue', synced', recs, snap),
         Hold(files', synced', recs, snap), files' \subseteq files
  PROVE  RecoveryInv'
<1>1. HistoryInv' /\ MemoryFollows' /\ ReplayFollows' /\ ReplayOfNothing' /\ TornPlace'
  BY DEF RecoveryInv, HistoryInv, StoreInv, MemoryFollows, ReplayFollows,
      ReplayOfNothing, TornPlace, wal
<1>2. PositionsInOrder' /\ RemovedDead' /\ Start(files, recs)'
  BY DEF RecoveryInv, StoreInv, PositionsInOrder, RemovedDead, Start, wal
<1>3. /\ ClosedAtEnd(closed, open_chunk, recs, snap)'
      /\ RemovalsDead(queue, synced, recs, snap)' /\ Hold(files, synced, recs, snap)'
  BY DEF RecoveryInv, StoreInv, wal
<1> QED
  BY <1>1, <1>2, <1>3 DEF RecoveryInv, StoreInv

\* Every step of the FlushWorker.
LEMMA FlushWorkerRecovery ==
  ASSUME RecoveryInv, FlushWorker
  PROVE  RecoveryInv'
<1>1. TypeInv' /\ status = "up" /\ queue # <<>>
  BY FlushWorkerType DEF RecoveryInv, FlushWorker, WorkerWrite, WorkerSync, WorkerRemove,
      Serving
<1>2. /\ queue \in Seq(Requests) /\ Covers(queue, recs)
      /\ acked \in Nat /\ synced \in Nat /\ written \in Nat /\ handed \in Nat
      /\ acked <= synced /\ synced <= written /\ written <= handed
      /\ Ordered(queue, written, handed) /\ RemovalsDead(queue, synced, recs, snap)
      /\ Hold(files, synced, recs, snap)
  BY DiskFacts
<1>3. PICK q, head : q = Tail(queue) /\ head = Head(queue)
  OBVIOUS
<1>4. /\ Len(q) = Len(queue) - 1 /\ Len(queue) \in Nat /\ Len(queue) > 0
      /\ \A k \in 1 .. Len(queue) - 1 : q[k] = queue[k + 1]
      /\ head = queue[1]
      /\ head.type = "Write" =>
           /\ written <= head.upto /\ head.upto <= handed /\ head.upto \in Nat
           /\ Ordered(queue, head.upto, handed) /\ Ordered(q, head.upto, handed)
      /\ Ordered(q, written, handed)
  BY <1>1, <1>2, <1>3, QueueServed
<1>5. CASE WorkerWrite
  <2>1. /\ head.type = "Write" /\ written' = head.upto
        /\ UNCHANGED <<status, mem, wal, synced, acked, disk, rp>>
    BY <1>3, <1>5 DEF WorkerWrite, Serving
  <2>2. Ordered(queue', written', handed) /\ RemovalsDead(queue', synced, recs, snap)
    <3>1. CASE head.sync
      <4>1. queue' = queue
        BY <1>3, <1>5, <3>1 DEF WorkerWrite, AfterWrite
      <4> QED
        BY <1>2, <1>4, <2>1, <4>1
    <3>2. CASE ~head.sync
      <4>1. queue' = q
        BY <1>3, <1>5, <3>2 DEF WorkerWrite, AfterWrite
      <4>2. RemovalsDead(q, synced, recs, snap)
        <5>1. synced <= synced /\ head.upto \in Nat
          BY <1>2, <1>4, <2>1
        <5> QED
          BY <1>1, <1>2, <1>3, <3>2, <5>1, RemovalsServed
      <4> QED
        BY <1>4, <2>1, <4>1, <4>2
    <3> QED
      BY <3>1, <3>2
  <2>3. acked <= synced /\ synced <= written' /\ written' <= handed
    BY <1>2, <1>4, <2>1
  <2> QED
    BY <1>1, <1>2, <2>1, <2>2, <2>3, WorkerRecovery DEF mem, disk
<1>6. CASE WorkerSync
  <2>1. /\ head.type = "Write" /\ written = head.upto /\ synced' = written /\ queue' = q
        /\ UNCHANGED <<status, log_state, log, call, wal, written, disk, rp>>
    BY <1>3, <1>6 DEF WorkerSync, Serving
  <2>2. acked' = written \/ acked' = acked
    BY <1>6 DEF WorkerSync
  <2>3. acked' <= synced' /\ synced' <= written' /\ written' <= handed
    BY <1>2, <2>1, <2>2
  <2>4. RemovalsDead(queue', synced', recs, snap)
    <3>1. head.upto \in Nat /\ (head.sync => head.upto <= written)
      BY <1>2, <2>1
    <3> QED
      BY <1>1, <1>2, <1>3, <2>1, <3>1, RemovalsServed
  <2>5. Ordered(queue', written', handed)
    BY <1>4, <2>1
  <2>6. Hold(files', synced', recs, snap) /\ files' = files
    <3>1. files' = files /\ synced' = written
      BY <2>1 DEF disk
    <3>2. Hold(files, written, recs, snap)
      <4>1. Len(recs) \in Nat
        BY DiskFacts
      <4> QED
        BY <1>2, <4>1 DEF Hold
    <3> QED
      BY <3>1, <3>2
  <2> QED
    BY <1>1, <2>1, <2>3, <2>4, <2>5, <2>6, WorkerRecovery DEF disk
<1>7. CASE WorkerRemove
  <2>1. PICK c \in head.ids :
          /\ files' = files \ {c}
          /\ queue' = IF head.ids = {c} THEN q ELSE <<RemoveRequest(head.ids \ {c})>> \o q
    BY <1>3, <1>7 DEF WorkerRemove
  <2>2. /\ head.type = "RemoveChunks"
        /\ UNCHANGED <<status, mem, wal, written, synced, acked, torn, crashes, rp>>
    BY <1>3, <1>7 DEF WorkerRemove, Serving
  <2>3. \A d \in head.ids : Dead(recs, snap, d, synced)
    <3>1. 1 \in 1 .. Len(queue) /\ \A j \in 1 .. 1 - 1 : FALSE
      BY <1>4
    <3> QED
      BY <1>2, <1>4, <2>2, <3>1 DEF RemovalsDead
  <2>4. Hold(files', synced, recs, snap)
    BY <1>2, <2>1, <2>3, DeadNotHeld
  <2>5. RemovalsDead(q, synced, recs, snap) /\ q \in Seq(Requests)
    <3>1. synced <= synced /\ head.type # "Write"
      BY <1>2, <2>2
    <3>2. q \in Seq(Requests)
      BY <1>1, <1>2, <1>3
    <3> QED
      BY <1>1, <1>2, <1>3, <3>1, <3>2, RemovalsServed
  <2>6. Ordered(queue', written, handed) /\ RemovalsDead(queue', synced, recs, snap)
    <3>1. CASE head.ids = {c}
      BY <1>4, <2>1, <2>5, <3>1
    <3>2. CASE head.ids # {c}
      <4>1. PICK x, g : x = RemoveRequest(head.ids \ {c}) /\ g = <<x>> \o q
        OBVIOUS
      <4>2. x.type = "RemoveChunks" /\ x.ids = head.ids \ {c} /\ x \in Requests
        <5>1. head \in Requests
          BY <1>1, <1>2, <1>3
        <5>2. head.ids \subseteq Nat
          BY <2>2, <5>1 DEF Requests
        <5> QED
          BY <4>1, <5>2 DEF RemoveRequest, Requests
      <4>3. /\ Len(g) = Len(queue) /\ g[1] = x
            /\ \A k \in 2 .. Len(queue) : g[k] = queue[k]
        <5>1. Len(q) \in Nat /\ Len(g) = Len(q) + 1 /\ g[1] = x
              /\ \A k \in 2 .. Len(q) + 1 : g[k] = q[k - 1]
          BY <2>5, <4>1, <4>2
        <5>2. \A k \in 2 .. Len(queue) : k - 1 \in 1 .. Len(queue) - 1 /\ (k - 1) + 1 = k
          BY <1>4
        <5> QED
          BY <1>4, <5>1, <5>2
      <4>4. \A k \in 1 .. Len(queue) : k = 1 \/ k \in 2 .. Len(queue)
        BY <1>4
      <4>5. Ordered(g, written, handed)
        BY <1>2, <1>4, <4>2, <4>3, <4>4 DEF Ordered
      <4>6. RemovalsDead(g, synced, recs, snap)
        <5>1. SUFFICES ASSUME NEW k \in 1 .. Len(queue), g[k].type = "RemoveChunks",
                              NEW d \in g[k].ids
                       PROVE  \/ Dead(recs, snap, d, synced)
                              \/ \E j \in 1 .. k - 1 :
                                   g[j].type = "Write" /\ g[j].sync
                                   /\ Dead(recs, snap, d, g[j].upto)
          BY <4>3 DEF RemovalsDead
        <5>2. CASE k = 1
          BY <2>3, <4>2, <4>3, <5>1, <5>2
        <5>3. CASE k \in 2 .. Len(queue)
          <6>1. g[k] = queue[k]
            BY <4>3, <5>3
          <6>2. \/ Dead(recs, snap, d, synced)
                \/ \E j \in 1 .. k - 1 :
                     queue[j].type = "Write" /\ queue[j].sync
                     /\ Dead(recs, snap, d, queue[j].upto)
            BY <1>2, <5>1, <6>1, Zenon DEF RemovalsDead
          <6>3. \A j \in 1 .. k - 1 : j = 1 \/ g[j] = queue[j]
            BY <1>4, <4>3, <5>3
          <6>4. queue[1].type # "Write"
            BY <1>4, <2>2
          <6> QED
            BY <6>2, <6>3, <6>4, Zenon
        <5> QED
          BY <4>4, <5>2, <5>3
      <4> QED
        BY <2>1, <3>2, <4>1, <4>5, <4>6
    <3> QED
      BY <3>1, <3>2
  <2> QED
    BY <1>1, <1>2, <2>1, <2>2, <2>4, <2>6, WorkerRecovery DEF mem
<1> QED
  BY <1>5, <1>6, <1>7 DEF FlushWorker

---------------------------------------------------------------------------
(* A crash keeps the invariant.                                            *)

\* A crash, wherever it cuts the WAL, leaves the files a replay needs.
LEMMA CrashRecovery ==
  ASSUME RecoveryInv, Fail
  PROVE  RecoveryInv'
<1>1. PICK n \in synced .. Reach, incomplete \in BOOLEAN : Crash(n, incomplete)
  BY DEF Fail
<1>2. /\ Wal(recs, snap) /\ History(recs, snap) /\ Len(recs) \in Nat
      /\ queue \in Seq(Requests) /\ Covers(queue, recs) /\ files \subseteq Nat
      /\ acked \in Nat /\ synced \in Nat /\ written \in Nat
      /\ acked <= synced /\ written <= Len(recs)
      /\ Hold(files, synced, recs, snap) /\ Start(files, recs)
  BY DiskFacts
<1>3. n \in 0 .. Len(recs) /\ synced <= n
  <2>1. Serving("Write") => Head(queue).upto \in 1 .. Len(recs)
    BY <1>2, CoversTail DEF Serving
  <2>2. Reach \in 0 .. Len(recs)
    BY <1>2, <2>1 DEF Reach
  <2> QED
    BY <1>2, <2>2
<1>4. /\ status' = "down" /\ recs' = SubSeq(recs, 1, n) /\ snap' = SubSeq(snap, 1, n)
      /\ files' = {c \in files : c < n}
      /\ log_state' = default_state /\ log' = EmptyMap /\ closed' = EmptyMap
      /\ removed_chunks' = {} /\ queue' = <<>> /\ handed' = n /\ written' = n
      /\ synced' = synced /\ acked' = acked
  BY <1>1 DEF Crash
<1>5. torn' => n > 0
  BY <1>1 DEF Crash
<1>6. /\ Len(recs') = n /\ History(recs', snap')
      /\ Hold(files', synced', recs', snap') /\ Start(files', recs')
  BY <1>2, <1>3, <1>4, PrefixWal, PrefixHistory, PrefixHolds DEF CutAt
<1>7. TypeInv'
  BY CrashType DEF RecoveryInv
<1>8. Len(queue') = 0 /\ DOMAIN closed' = {}
  BY <1>4 DEF EmptyMap
<1>9. PositionsInOrder'
  BY <1>2, <1>3, <1>4, <1>6, <1>8 DEF PositionsInOrder, Ordered
<1>10. /\ ClosedAtEnd(closed, open_chunk, recs, snap)' /\ RemovedDead'
       /\ RemovalsDead(queue, synced, recs, snap)'
  BY <1>4, <1>8 DEF ClosedAtEnd, RemovedDead, RemovalsDead
<1>11. MemoryFollows' /\ ReplayFollows' /\ ReplayOfNothing'
  BY <1>4 DEF MemoryFollows, ReplayFollows, ReplayOfNothing
<1>12. TornPlace'
  BY <1>5, <1>6 DEF TornPlace
<1> QED
  BY <1>6, <1>7, <1>9, <1>10, <1>11, <1>12 DEF RecoveryInv, HistoryInv, StoreInv

---------------------------------------------------------------------------
(* RaftLog::open keeps the invariant, and rebuilds what was there.         *)

\* The oldest file, when there is one.
LEMMA OldestFile ==
  ASSUME files \subseteq Nat, files # {}
  PROVE  Oldest \in files /\ Oldest \in Nat /\ \A d \in files : Oldest <= d
<1>1. \E c \in files : \A d \in files : c <= d
  BY LeastMember
<1> QED
  BY <1>1 DEF Oldest

\* The empty store is one log.
LEMMA EmptyWellFormed == WellFormed(default_state, EmptyMap)
<1>1. DOMAIN EmptyMap = {}
  BY DEF EmptyMap
<1>2. Le(None, None) /\ log_index(None) <= log_index(None)
  BY DEF Le, log_index, None
<1> QED
  BY <1>1, <1>2 DEF WellFormed, LogIsRun, LogFits, MarksInOrder, default_state

\* A store without files has no records.
LEMMA NoFilesNoRecords ==
  ASSUME RecoveryInv, files = {}
  PROVE  Len(recs) = 0
<1>1. Len(recs) \in Nat /\ synced <= Len(recs) /\ Hold(files, synced, recs, snap)
  BY DiskFacts
<1> QED
  BY <1>1 DEF Hold

\* The entries live at the end all come after the start of the oldest file.
LEMMA AllAfterOldest ==
  ASSUME RecoveryInv, files # {}, Len(recs) > 0
  PROVE  After(snap[Len(recs)].log, Oldest) = snap[Len(recs)].log
<1> DEFINE n == Len(recs)
           l == snap[n].log
<1>1. /\ Wal(recs, snap) /\ History(recs, snap) /\ n \in Nat /\ synced <= n
      /\ files \subseteq Nat /\ Hold(files, synced, recs, snap)
  BY DiskFacts
<1>2. n \in 1 .. n /\ IsLog(l) /\ \A p \in 1 .. n : recs[p].chunk \in Nat /\ recs[p].chunk < p
  BY <1>1, WalTypes DEF Wal, Led
<1>3. Oldest \in Nat /\ \A d \in files : Oldest <= d
  BY <1>1, OldestFile
<1>4. ASSUME NEW i \in DOMAIN l
      PROVE  l[i].segment > Oldest
  <2>1. l[i].segment \in 1 .. n /\ recs[l[i].segment].chunk = l[i].chunk_id
    BY <1>1, <1>2 DEF History, EntriesPlaced
  <2>2. l[i].chunk_id \in files
    BY <1>1, <1>2 DEF Hold
  <2> HIDE DEF l, n
  <2> QED
    BY <1>1, <1>2, <1>3, <2>1, <2>2
<1> HIDE DEF l
<1>5. DOMAIN l \cap {i \in DOMAIN l : l[i].segment > Oldest} = DOMAIN l
  BY <1>4
<1>6. l = [i \in DOMAIN l |-> l[i]]
  BY <1>2 DEF IsLog
<1>7. After(l, Oldest) = l
  BY <1>5, <1>6 DEF After, RestrictLog
<1> QED
  BY <1>7 DEF l

\* At the end of a replay the state and the log map are those of the last record.
LEMMA ReplayedAll ==
  ASSUME RecoveryInv, status = "replay", rp = Len(recs)
  PROVE  /\ View(log_state, log) = At(snap, Len(recs)) /\ WellFormed(log_state, log)
         /\ files # {} => /\ Len(recs) > 0 /\ open_chunk = recs[Len(recs)].chunk
                          /\ log_state = snap[Len(recs)].log_state
<1>1. /\ Wal(recs, snap) /\ History(recs, snap) /\ Len(recs) \in Nat
      /\ files \subseteq Nat /\ Start(files, recs)
  BY DiskFacts
<1>2. CASE files = {}
  <2>1. Len(recs) = 0 /\ log_state = default_state /\ log = EmptyMap
    BY <1>2, NoFilesNoRecords DEF RecoveryInv, StoreInv, ReplayOfNothing
  <2> QED
    BY <1>2, <2>1, EmptyWellFormed DEF At
<1>3. CASE files # {}
  <2>1. Oldest \in Nat /\ Oldest < Len(recs)
    BY <1>1, <1>3, OldestFile DEF Start
  <2>2. /\ log_state = snap[Len(recs)].log_state /\ log = After(snap[Len(recs)].log, Oldest)
        /\ open_chunk = recs[Len(recs)].chunk
    BY <1>3, <2>1 DEF RecoveryInv, StoreInv, ReplayFollows
  <2>3. Len(recs) > 0 /\ Len(recs) \in 1 .. Len(recs) /\ Len(snap) = Len(recs)
    BY <1>1, <2>1 DEF Wal
  <2>4. log = snap[Len(recs)].log
    BY <1>3, <2>2, <2>3, AllAfterOldest
  <2>5. IsView(snap[Len(recs)])
    BY <1>1, <2>3, WalTypes
  <2>6. View(log_state, log) = At(snap, Len(recs))
    BY <2>2, <2>3, <2>4, <2>5 DEF At, IsView
  <2>7. WellFormed(log_state, log)
    BY <1>1, <2>2, <2>3, <2>4 DEF History, ViewsWellFormed
  <2> QED
    BY <2>2, <2>3, <2>6, <2>7
<1> QED
  BY <1>2, <1>3

\* open begins.
LEMMA OpenStartRecovery ==
  ASSUME RecoveryInv, OpenStart, TypeInv'
  PROVE  RecoveryInv'
<1>1. /\ status = "down" /\ status' \in {"failed", "replay"}
      /\ rp' = (IF files = {} THEN Len(recs) ELSE Oldest) /\ open_chunk' = rp'
      /\ UNCHANGED <<mem, recs, snap, first_chunk, closed, removed_chunks, handed,
                     worker, disk>>
  BY DEF OpenStart
<1>2. log_state = default_state /\ log = EmptyMap /\ closed = EmptyMap
  BY <1>1 DEF RecoveryInv, StoreInv, MemoryFollows
<1>3. UNCHANGED <<log_state, log, queue, written, synced, acked, files, torn>>
  BY <1>1 DEF mem, worker, disk
<1>4. HistoryInv' /\ MemoryFollows' /\ ReplayOfNothing' /\ TornPlace'
  BY <1>1, <1>2, <1>3 DEF RecoveryInv, HistoryInv, StoreInv, MemoryFollows,
      ReplayOfNothing, TornPlace
<1>5. ReplayFollows'
  <2>1. SUFFICES ASSUME files # {}
                 PROVE  ReplayFollows'
    BY <1>3 DEF ReplayFollows
  <2>2. Oldest \in Nat /\ Oldest' = Oldest /\ rp' = Oldest
    BY <1>1, <1>3, <2>1, DiskFacts, OldestFile DEF Oldest
  <2>3. rp' >= Oldest' /\ ~(rp' > Oldest')
    BY <2>2
  <2> QED
    BY <1>1, <1>2, <1>3, <2>2, <2>3 DEF ReplayFollows
<1>6. PositionsInOrder' /\ RemovedDead'
  BY <1>1, <1>3 DEF RecoveryInv, StoreInv, PositionsInOrder, RemovedDead
<1>7. DOMAIN closed' = {}
  BY <1>1, <1>2 DEF EmptyMap
<1>8. /\ ClosedAtEnd(closed, open_chunk, recs, snap)'
      /\ RemovalsDead(queue, synced, recs, snap)'
      /\ Hold(files, synced, recs, snap)' /\ Start(files, recs)'
  BY <1>1, <1>3, <1>7 DEF RecoveryInv, StoreInv, ClosedAtEnd
<1> QED
  BY <1>4, <1>5, <1>6, <1>8 DEF RecoveryInv, StoreInv

\* State s and log map l are what a replay from the start f of a chunk has made
\* of the records up to q.
Rebuilt(h, f, q, s, l) ==
  /\ q = f => s = default_state /\ l = EmptyMap
  /\ q > f => s = h[q].log_state /\ l = After(h[q].log, f)

\* The next record passes the check, and takes the replay one view further.
LEMMA RunStep ==
  ASSUME NEW r, NEW h, Wal(r, h), History(r, h),
         NEW f \in Nat, f < Len(r), r[f + 1].chunk = f,
         NEW q \in Nat, f <= q, q < Len(r), NEW s, NEW l, Rebuilt(h, f, q, s, l)
  PROVE  /\ check(s, r[q + 1].rec)
         /\ Rebuilt(h, f, q + 1, apply_state(s, r[q + 1].rec),
                    apply_log(l, r[q + 1].rec, r[q + 1].chunk, q + 1))
<1>1. PICK e, v, p : e = r[q + 1] /\ v = h[q + 1] /\ p = q + 1
  OBVIOUS
<1>2. Len(r) \in Nat
  BY DEF Wal
<1>3. /\ p \in 1 .. Len(r) /\ p \in Nat /\ p - 1 = q /\ q \in 0 .. Len(r)
      /\ e.rec \in RaftLogRecord /\ e.chunk \in Nat
  BY <1>1, <1>2, WalTypes
<1>4. Builds(At(h, q), e, p, v)
  BY <1>1, <1>3 DEF History, RecordsBuild
<1>5. ASSUME q = f
      PROVE  /\ check(s, e.rec)
             /\ apply_state(s, e.rec) = v.log_state
             /\ apply_log(l, e.rec, e.chunk, p) = After(v.log, f)
  <2>1. e.chunk = q
    BY <1>1, <1>5
  <2>2. e.rec = CheckpointRecord(At(h, q).log_state)
    BY <1>1, <1>3, <2>1 DEF History, LeadersRestate
  <2>3. e.rec.type = "Checkpoint"
    BY <2>2 DEF CheckpointRecord
  <2>4. check(s, e.rec)
    BY <2>3 DEF check
  <2>5. apply_state(s, e.rec) = v.log_state
    BY <1>4, <2>3, ApplyStateCases DEF Builds
  <2>6. apply_log(l, e.rec, e.chunk, p) = EmptyMap /\ v.log = At(h, q).log
    <3>1. apply_log(l, e.rec, e.chunk, p) = l
      BY <2>3, Zenon DEF apply_log
    <3>2. apply_log(At(h, q).log, e.rec, e.chunk, p) = At(h, q).log
      BY <2>3, Zenon DEF apply_log
    <3> QED
      BY <1>4, <1>5, <3>1, <3>2 DEF Builds, Rebuilt
  <2>7. ASSUME NEW i \in DOMAIN v.log
        PROVE  ~(v.log[i].segment > f)
    <3>1. i \in DOMAIN At(h, q).log
      BY <2>6
    <3>2. q # 0
      BY <3>1 DEF At, View, EmptyMap
    <3>3. At(h, q) = h[q] /\ q \in 1 .. Len(r)
      BY <1>3, <3>2 DEF At
    <3>4. h[q].log[i].segment \in 1 .. q
      BY <3>1, <3>3 DEF History, EntriesPlaced
    <3> QED
      BY <1>5, <2>6, <3>3, <3>4
  <2>8. DOMAIN v.log \cap {i \in DOMAIN v.log : v.log[i].segment > f} = {}
    BY <2>7
  <2>9. After(v.log, f) = EmptyMap
    BY <2>8 DEF After, RestrictLog, EmptyMap
  <2> QED
    BY <2>4, <2>5, <2>6, <2>9
<1>6. ASSUME q > f
      PROVE  /\ check(s, e.rec)
             /\ apply_state(s, e.rec) = v.log_state
             /\ apply_log(l, e.rec, e.chunk, p) = After(v.log, f)
  <2>1. At(h, q) = h[q] /\ q \in 1 .. Len(r)
    BY <1>3, <1>6 DEF At
  <2>2. IsLog(h[q].log) /\ f < p
    BY <1>1, <1>6, <2>1, WalTypes
  <2>3. apply_log(After(h[q].log, f), e.rec, e.chunk, p)
          = After(apply_log(h[q].log, e.rec, e.chunk, p), f)
    BY <1>3, <2>2, ApplyLogAfter
  <2>4. s = h[q].log_state /\ l = After(h[q].log, f)
    BY <1>6 DEF Rebuilt
  <2>5. /\ check(h[q].log_state, e.rec)
        /\ v.log_state = apply_state(h[q].log_state, e.rec)
        /\ v.log = apply_log(h[q].log, e.rec, e.chunk, p)
    BY <1>4, <2>1 DEF Builds
  <2> QED
    BY <2>3, <2>4, <2>5
<1>7. (q = f \/ q > f) /\ p # f
  BY <1>1
<1> QED
  BY <1>1, <1>5, <1>6, <1>7 DEF Rebuilt

\* The record a replay meets passes the check, and takes it one view further.
LEMMA ReplayStep ==
  ASSUME RecoveryInv, status = "replay", rp < Len(recs)
  PROVE  LET e == recs[rp + 1] IN
         /\ files # {} /\ rp + 1 \in 1 .. Len(recs) /\ Oldest \in Nat /\ rp >= Oldest
         /\ check(log_state, e.rec)
         /\ apply_state(log_state, e.rec) = snap[rp + 1].log_state
         /\ apply_log(log, e.rec, e.chunk, rp + 1) = After(snap[rp + 1].log, Oldest)
         /\ e.chunk # open_chunk => rp > Oldest
<1>1. /\ Wal(recs, snap) /\ History(recs, snap) /\ Len(recs) \in Nat /\ rp \in Nat
      /\ files \subseteq Nat /\ Start(files, recs)
  BY DiskFacts
<1>2. files # {}
  BY <1>1 DEF RecoveryInv, TypeInv, Structure, ReplayPlace
<1>3. /\ Oldest \in files /\ Oldest \in Nat /\ Oldest < Len(recs)
      /\ recs[Oldest + 1].chunk = Oldest
  BY <1>1, <1>2, OldestFile DEF Start
<1>4. /\ rp >= Oldest
      /\ rp = Oldest => /\ log_state = default_state /\ log = EmptyMap /\ open_chunk = rp
      /\ rp > Oldest => /\ log_state = snap[rp].log_state
                        /\ log = After(snap[rp].log, Oldest)
  BY <1>2 DEF RecoveryInv, StoreInv, ReplayFollows
<1>5. PICK e, v, p : e = recs[rp + 1] /\ v = snap[rp + 1] /\ p = rp + 1
  OBVIOUS
<1>6. /\ check(log_state, e.rec)
      /\ apply_state(log_state, e.rec) = v.log_state
      /\ apply_log(log, e.rec, e.chunk, p) = After(v.log, Oldest)
  <2>1. Oldest <= rp
    BY <1>1, <1>3, <1>4
  <2>2. Rebuilt(snap, Oldest, rp, log_state, log)
    BY <1>4 DEF Rebuilt
  <2>3. /\ check(log_state, recs[rp + 1].rec)
        /\ Rebuilt(snap, Oldest, rp + 1, apply_state(log_state, recs[rp + 1].rec),
                   apply_log(log, recs[rp + 1].rec, recs[rp + 1].chunk, rp + 1))
    BY <1>1, <1>3, <2>1, <2>2, RunStep
  <2>4. rp + 1 > Oldest
    BY <1>1, <1>3, <2>1
  <2> QED
    BY <1>5, <2>3, <2>4 DEF Rebuilt
<1>7. p \in 1 .. Len(recs)
  BY <1>1, <1>5
<1>8. e.chunk # open_chunk => rp > Oldest
  BY <1>1, <1>3, <1>4, <1>5
<1> QED
  BY <1>2, <1>3, <1>4, <1>5, <1>6, <1>7, <1>8

\* A replay takes in one record, and never rejects one.
LEMMA ReplayRecovery ==
  ASSUME RecoveryInv, ReplayRecord, TypeInv'
  PROVE  RecoveryInv' /\ status' = "replay"
<1>1. /\ status = "replay" /\ rp < Len(recs)
      /\ UNCHANGED <<call, recs, snap, first_chunk, removed_chunks, handed, worker, disk>>
  BY DEF ReplayRecord
<1>2. PICK e, p : e = recs[rp + 1] /\ p = rp + 1
  OBVIOUS
<1>3. /\ files # {} /\ p \in 1 .. Len(recs) /\ Oldest \in Nat /\ rp >= Oldest
      /\ check(log_state, e.rec)
      /\ apply_state(log_state, e.rec) = snap[p].log_state
      /\ apply_log(log, e.rec, e.chunk, p) = After(snap[p].log, Oldest)
      /\ e.chunk # open_chunk => rp > Oldest
  BY <1>1, <1>2, ReplayStep
<1>4. /\ log_state' = snap[p].log_state /\ log' = After(snap[p].log, Oldest)
      /\ open_chunk' = e.chunk /\ rp' = p /\ status' = "replay"
      /\ closed' = (IF e.chunk # open_chunk THEN CloseChunk(closed, open_chunk, log_state)
                    ELSE closed)
  BY <1>1, <1>2, <1>3 DEF ReplayRecord
<1>5. /\ Wal(recs, snap) /\ History(recs, snap) /\ Len(recs) \in Nat /\ rp \in Nat
      /\ open_chunk \in Nat /\ IsClosed(closed)
      /\ ClosedAtEnd(closed, open_chunk, recs, snap)
      /\ \A q \in 1 .. Len(recs) : recs[q].chunk \in Nat
  BY DiskFacts, WalTypes
<1>6. UNCHANGED <<queue, written, synced, acked, files, torn>>
  BY <1>1 DEF worker, disk
<1>7. ClosedAtEnd(closed', open_chunk', recs, snap)
  <2>1. CASE e.chunk = open_chunk
    BY <1>4, <1>5, <2>1
  <2>2. CASE e.chunk # open_chunk
    <3>1. /\ rp > Oldest /\ log_state = snap[rp].log_state /\ open_chunk = recs[rp].chunk
      BY <1>1, <1>3, <2>2 DEF RecoveryInv, StoreInv, ReplayFollows
    <3>2. rp \in 1 .. Len(recs) /\ p = rp + 1
      BY <1>1, <1>2, <1>3, <1>5, <3>1
    <3>3. open_chunk <= e.chunk /\ e.chunk \in Nat
      BY <1>2, <1>3, <1>5, <3>1, <3>2 DEF History, ChunksAscend
    <3>4. ASSUME NEW s \in 1 .. Len(recs), recs[s].chunk = open_chunk
          PROVE  s <= rp
      <4>1. SUFFICES ASSUME p <= s PROVE FALSE
        BY <1>5, <3>2
      <4>2. e.chunk <= recs[s].chunk
        BY <1>2, <1>3, <1>5, <4>1 DEF History, ChunksAscend
      <4> QED
        BY <1>5, <2>2, <3>3, <3>4, <4>2
    <3>5. open_chunk < e.chunk
      BY <1>5, <2>2, <3>3
    <3>6. closed' = CloseChunk(closed, open_chunk, snap[rp].log_state) /\ open_chunk' = e.chunk
      BY <1>4, <2>2, <3>1
    <3> QED
      BY <1>5, <3>2, <3>3, <3>4, <3>5, <3>6, CloseAtEnd
  <2> QED
    BY <2>1, <2>2
<1>8. ReplayFollows'
  <2>1. Oldest' = Oldest
    BY <1>6 DEF Oldest
  <2>2. rp' > Oldest' /\ rp' >= Oldest' /\ rp' # Oldest'
    BY <1>2, <1>3, <1>4, <1>5, <2>1
  <2> QED
    BY <1>1, <1>2, <1>4, <2>1, <2>2 DEF ReplayFollows
<1>9. HistoryInv' /\ MemoryFollows' /\ ReplayOfNothing' /\ TornPlace'
  BY <1>1, <1>3, <1>4, <1>6 DEF RecoveryInv, HistoryInv, StoreInv, MemoryFollows,
      ReplayOfNothing, TornPlace
<1>10. PositionsInOrder' /\ RemovedDead'
  BY <1>1, <1>6 DEF RecoveryInv, StoreInv, PositionsInOrder, RemovedDead
<1>11. /\ ClosedAtEnd(closed, open_chunk, recs, snap)'
       /\ RemovalsDead(queue, synced, recs, snap)'
       /\ Hold(files, synced, recs, snap)' /\ Start(files, recs)'
  BY <1>1, <1>6, <1>7 DEF RecoveryInv, StoreInv
<1> QED
  BY <1>4, <1>8, <1>9, <1>10, <1>11 DEF RecoveryInv, StoreInv

\* open ends: the store runs with what the replay rebuilt.
LEMMA OpenFinishRecovery ==
  ASSUME RecoveryInv, OpenFinish, TypeInv'
  PROVE  RecoveryInv'
<1> DEFINE n == Len(recs)
           create == files = {} \/ torn
           chunks == IF torn THEN CloseChunk(closed, open_chunk, log_state) ELSE closed
           removable == Removable(chunks, log_state.purged)
           chunk == IF create THEN n ELSE open_chunk
<1>1. /\ status = "replay" /\ rp = n /\ status' = "up" /\ open_chunk' = chunk
      /\ closed' = [c \in DOMAIN chunks \ removable |-> chunks[c]]
      /\ removed_chunks' = removable /\ files' = files \cup {chunk}
      /\ recs' = (IF create THEN Append(recs, Entry(chunk, CheckpointRecord(log_state)))
                  ELSE recs)
      /\ snap' = (IF create THEN Append(snap, View(log_state, log)) ELSE snap)
      /\ UNCHANGED <<log_state, log, handed, queue, written, acked>>
  BY DEF OpenFinish, RemovableOnOpen
<1>2. /\ synced' = (IF torn THEN n ELSE synced) /\ ~torn'
  BY DEF OpenFinish
<1>3. /\ Wal(recs, snap) /\ History(recs, snap) /\ n \in Nat
      /\ files \subseteq Nat /\ IsClosed(closed) /\ open_chunk \in Nat
      /\ acked \in Nat /\ synced \in Nat /\ written \in Nat /\ handed \in Nat
      /\ acked <= synced /\ synced <= written /\ written <= handed /\ handed <= n
      /\ synced <= n
      /\ Hold(files, synced, recs, snap) /\ Start(files, recs)
      /\ ClosedAtEnd(closed, open_chunk, recs, snap)
  BY DiskFacts
<1>4. written = n /\ queue = <<>> /\ log_state \in RaftLogState
  BY <1>1 DEF RecoveryInv, TypeInv, TypeOK, Structure, WrittenInRange
<1>5. /\ View(log_state, log) = At(snap, n) /\ WellFormed(log_state, log)
      /\ files # {} => /\ n > 0 /\ open_chunk = recs[n].chunk
                       /\ log_state = snap[n].log_state
  BY <1>1, ReplayedAll
<1>6. files = {} => n = 0 /\ ~torn /\ closed = EmptyMap
  BY <1>1, NoFilesNoRecords DEF RecoveryInv, StoreInv, ReplayOfNothing, TornPlace
<1>7. n > 0 => n \in 1 .. n /\ open_chunk < n /\ files # {}
  <2>1. n > 0 => files # {}
    BY <1>6
  <2>2. n > 0 => n \in 1 .. n /\ recs[n].chunk < n
    BY <1>3 DEF Wal, Led
  <2> QED
    BY <1>5, <2>1, <2>2
<1>8. synced' \in Nat /\ synced <= synced' /\ synced' <= n
  BY <1>2, <1>3
<1>9. Hold(files, synced', recs, snap)
  BY <1>3, <1>8 DEF Hold
<1>10. IsClosed(chunks) /\ ClosedAtEnd(chunks, chunk, recs, snap) /\ chunk \in Nat
  <2>1. CASE torn
    <3>1. files # {} /\ n > 0 /\ chunk = n /\ open_chunk < n
      BY <1>3, <1>5, <1>6, <1>7, <2>1
    <3>2. \A s \in 1 .. Len(recs) : recs[s].chunk = open_chunk => s <= n
      BY <1>3
    <3>3. chunks = CloseChunk(closed, open_chunk, snap[n].log_state) /\ n \in 1 .. Len(recs)
      BY <1>5, <1>7, <2>1, <3>1
    <3>4. ClosedAtEnd(chunks, n, recs, snap)
      <4> HIDE DEF chunks
      <4> QED
        BY <1>3, <3>1, <3>2, <3>3, CloseAtEnd
    <3>5. IsClosed(chunks)
      BY <1>3, <1>4, <2>1, CloseChunkType
    <3> HIDE DEF chunks, chunk
    <3> QED
      BY <1>3, <3>1, <3>4, <3>5
  <2>2. CASE ~torn /\ files = {}
    <3>1. chunks = EmptyMap /\ DOMAIN EmptyMap = {} /\ chunk = n
      BY <1>6, <2>2 DEF EmptyMap
    <3>2. IsClosed(chunks)
      BY <1>3, <2>2
    <3> HIDE DEF chunks, chunk
    <3> QED
      BY <1>3, <3>1, <3>2 DEF ClosedAtEnd
  <2>3. CASE ~torn /\ files # {}
    BY <1>3, <2>3
  <2> QED
    BY <2>1, <2>2, <2>3
<1> HIDE DEF chunks
<1> DEFINE Package(rr, hh) ==
             /\ Wal(rr, hh) /\ History(rr, hh) /\ Len(rr) \in Nat /\ Len(rr) > 0
             /\ n <= Len(rr) /\ recs' = rr /\ snap' = hh
             /\ hh[Len(rr)].log_state = log_state /\ hh[Len(rr)].log = log
             /\ chunk = rr[Len(rr)].chunk
             /\ ClosedAtEnd(chunks, chunk, rr, hh)
             /\ Hold(files', synced', rr, hh) /\ Start(files', rr)
<1>11. ASSUME create PROVE \E rr, hh : Package(rr, hh)
  <2>1. PICK e, v, rr, hh : /\ e = Entry(n, CheckpointRecord(log_state))
                            /\ v = View(log_state, log)
                            /\ rr = Append(recs, e) /\ hh = Append(snap, v)
    OBVIOUS
  <2>2. chunk = n /\ recs' = rr /\ snap' = hh /\ files' = files \cup {n}
    BY <1>1, <1>11, <2>1
  <2>3. Grows(recs, snap, e, v)
    BY <1>3, <1>5, <2>1, RestateGrows
  <2>4. Grown(recs, snap, e, v, rr, hh) /\ History(rr, hh)
    BY <1>3, <2>1, <2>3, GrownByOne, HistoryGrows
  <2>5. /\ Wal(rr, hh) /\ Len(rr) = n + 1 /\ rr[n + 1] = e /\ hh[n + 1] = v
        /\ e.chunk = n /\ v.log_state = log_state /\ v.log = log
    BY <2>1, <2>4 DEF Grown, Entry, View
  <2>6. Hold(files \cup {e.chunk}, synced', rr, hh) /\ Start(files \cup {e.chunk}, rr)
    BY <1>3, <1>8, <1>9, <2>3, <2>4, HoldGrows, StartGrows
  <2> HIDE DEF chunk
  <2>7. ClosedAtEnd(chunks, chunk, rr, hh)
    <3>1. chunk <= e.chunk
      BY <1>3, <2>2, <2>5
    <3> QED
      BY <1>3, <1>10, <2>3, <2>4, <3>1, ClosedGrows
  <2>8. Package(rr, hh)
    BY <1>3, <2>2, <2>4, <2>5, <2>6, <2>7
  <2> HIDE DEF Package
  <2> QED
    BY <2>8
<1>12. ASSUME ~create PROVE \E rr, hh : Package(rr, hh)
  <2>1. chunk = open_chunk /\ recs' = recs /\ snap' = snap /\ files' = files \cup {open_chunk}
    BY <1>1, <1>12
  <2>2. files # {} /\ ~torn
    BY <1>12
  <2>3. n > 0 /\ open_chunk = recs[n].chunk /\ n \in 1 .. n /\ At(snap, n) = snap[n]
    BY <1>3, <1>5, <1>7, <2>2 DEF At
  <2>4. snap[n].log_state = log_state /\ snap[n].log = log
    BY <1>5, <2>3 DEF View
  <2>5. Hold(files', synced', recs, snap)
    BY <1>9, <2>1 DEF Hold
  <2>6. Start(files', recs)
    <3>1. open_chunk < n /\ recs[open_chunk + 1].chunk = open_chunk
      BY <1>3, <2>3 DEF Wal, Led
    <3> QED
      BY <1>3, <2>1, <3>1 DEF Start
  <2> HIDE DEF chunk, create
  <2>7. n <= Len(recs)
    BY <1>3
  <2>8. Package(recs, snap)
    BY <1>3, <1>10, <2>1, <2>3, <2>4, <2>5, <2>6, <2>7
  <2> HIDE DEF Package
  <2> QED
    BY <2>8
<1>13. PICK rr, hh : Package(rr, hh)
  <2> HIDE DEF Package, create
  <2> QED
    BY <1>11, <1>12
<1> HIDE DEF chunk, create
<1>14. /\ ClosedAtEnd(closed', open_chunk', recs', snap')
       /\ \A c \in removed_chunks' : Dead(recs', snap', c, Len(recs'))
  <2>1. \A c \in removable : Dead(rr, hh, c, Len(rr))
    BY <1>10, <1>13, RemovableDead
  <2>2. ClosedAtEnd(closed', open_chunk', rr, hh)
    <3> HIDE DEF removable
    <3> QED
      BY <1>1, <1>10, <1>13, DrainAtEnd
  <2> HIDE DEF removable
  <2> QED
    BY <1>1, <1>13, <2>1, <2>2
<1> HIDE DEF removable
<1>15. HistoryInv' /\ MemoryFollows'
  BY <1>1, <1>13 DEF HistoryInv, MemoryFollows
<1>16. Len(queue') = 0
  BY <1>1, <1>4
<1>17. PositionsInOrder'
  <2>1. /\ acked' <= synced' /\ synced' <= written' /\ written' <= handed'
        /\ handed' <= Len(recs')
    BY <1>1, <1>3, <1>4, <1>8, <1>13
  <2> QED
    BY <1>16, <2>1 DEF PositionsInOrder, Ordered
<1>18. RemovalsDead(queue, synced, recs, snap)'
  BY <1>16 DEF RemovalsDead
<1>19. TornPlace'
  BY <1>2 DEF TornPlace
<1>20. RemovedDead' /\ Hold(files, synced, recs, snap)' /\ Start(files, recs)'
       /\ ReplayFollows' /\ ReplayOfNothing'
  BY <1>1, <1>13, <1>14 DEF RemovedDead, ReplayFollows, ReplayOfNothing
<1> QED
  BY <1>14, <1>15, <1>17, <1>18, <1>19, <1>20 DEF RecoveryInv, StoreInv

---------------------------------------------------------------------------
(* The invariant holds of every behaviour.                                 *)

\* The empty directory a store is first opened on.
LEMMA InitRecovery ==
  ASSUME Init
  PROVE  RecoveryInv
<1>1. TypeInv
  BY InitType
<1>2. /\ status = "down" /\ recs = <<>> /\ snap = <<>> /\ queue = <<>> /\ files = {}
      /\ log_state = default_state /\ log = EmptyMap /\ closed = EmptyMap
      /\ removed_chunks = {} /\ handed = 0 /\ written = 0 /\ synced = 0 /\ acked = 0
  BY DEF Init
<1>3. ~torn
  BY DEF Init
<1>4. Len(recs) = 0 /\ Len(snap) = 0 /\ Len(queue) = 0 /\ DOMAIN closed = {}
  BY <1>2 DEF EmptyMap
<1>5. HistoryInv
  BY <1>4 DEF HistoryInv, History, RecordsBuild, LeadersRestate, ViewsWellFormed,
      ChunksAscend, EntriesPlaced, VotesAscend
<1>6. MemoryFollows /\ ReplayFollows /\ ReplayOfNothing /\ RemovedDead /\ Start(files, recs)
  BY <1>2 DEF MemoryFollows, ReplayFollows, ReplayOfNothing, RemovedDead, Start
<1>7. PositionsInOrder
  BY <1>2, <1>4 DEF PositionsInOrder, Ordered
<1>8. /\ ClosedAtEnd(closed, open_chunk, recs, snap)
      /\ RemovalsDead(queue, synced, recs, snap) /\ Hold(files, synced, recs, snap)
  BY <1>4 DEF ClosedAtEnd, RemovalsDead, Hold
<1>9. TornPlace
  BY <1>3 DEF TornPlace
<1> QED
  BY <1>1, <1>5, <1>6, <1>7, <1>8, <1>9 DEF RecoveryInv, StoreInv

\* Every step of the caller, the FlushWorker, a crash and a recovery.
LEMMA NextRecovery ==
  ASSUME RecoveryInv, [Next]_vars, Obliged
  PROVE  RecoveryInv'
<1>1. TypeInv'
  BY NextType DEF RecoveryInv
<1>2. CASE Caller
  BY <1>2, CallerRecovery
<1>3. CASE FlushWorker
  BY <1>3, FlushWorkerRecovery
<1>4. CASE open
  BY <1>1, <1>4, OpenStartRecovery, ReplayRecovery, OpenFinishRecovery DEF open
<1>5. CASE Fail
  BY <1>5, CrashRecovery
<1>6. CASE UNCHANGED vars
  <2>1. UNCHANGED <<status, log_state, log, wal, worker, disk, rp>>
    BY <1>6 DEF vars, mem
  <2> QED
    BY <1>1, <2>1, QuietRecovery
<1> QED
  BY <1>2, <1>3, <1>4, <1>5, <1>6 DEF Next

\* For callers that purge ids of their own log and restore states that take
\* nothing back: through any interleaving of calls, FlushWorker steps, crashes
\* and recoveries, memory follows the records, and removals spare what a replay
\* needs.
THEOREM RecoveryInvHolds == Obliged => (Spec => []RecoveryInv)
<1> SUFFICES ASSUME Obliged
             PROVE  Spec => []RecoveryInv
  OBVIOUS
<1>1. Init => RecoveryInv
  BY InitRecovery
<1>2. RecoveryInv /\ [Next]_vars => RecoveryInv'
  BY NextRecovery
<1> QED
  BY <1>1, <1>2, PTL DEF Spec

\* RaftLog::open ends with the state and the log map that existed when the last
\* record left was written, wherever the crash cut the WAL and whatever was
\* purged before.
THEOREM RecoveryIsExact == Obliged => (Spec => []RecoveryExact)
<1>1. RecoveryInv => RecoveryExact
  <2>1. ASSUME RecoveryInv, status = "replay", rp = Len(recs)
        PROVE  View(log_state, log) = SnapAt(rp)
    <3>1. View(log_state, log) = At(snap, rp)
      BY <2>1, ReplayedAll
    <3> QED
      BY <3>1 DEF At, SnapAt
  <2> QED
    BY <2>1 DEF RecoveryExact
<1> QED
  BY <1>1, RecoveryInvHolds, PTL

\* Unlinking waits for the purge to be durable: wherever a crash may cut the
\* WAL, each entry live at the cut has its chunk file.
THEOREM LiveChunksStay == Obliged => (Spec => []LiveChunksOnDisk)
<1>1. RecoveryInv => LiveChunksOnDisk
  <2>1. ASSUME RecoveryInv, NEW p \in synced .. Len(recs), NEW i \in DOMAIN SnapAt(p).log
        PROVE  SnapAt(p).log[i].chunk_id \in files
    <3>1. /\ synced \in Nat /\ Len(recs) \in Nat /\ Hold(files, synced, recs, snap)
      BY <2>1, DiskFacts
    <3>2. p # 0
      BY <2>1 DEF SnapAt, View, EmptyMap
    <3>3. p \in 1 .. Len(recs) /\ synced <= p /\ SnapAt(p) = snap[p]
      BY <2>1, <3>1, <3>2 DEF SnapAt
    <3> QED
      BY <2>1, <3>1, <3>3 DEF Hold
  <2> QED
    BY <2>1 DEF LiveChunksOnDisk
<1> QED
  BY <1>1, RecoveryInvHolds, PTL

\* A running store's state and log map describe one log.
THEOREM LogAlwaysMatches == Obliged => (Spec => []LogMatchesState)
<1>1. RecoveryInv => LogMatchesState
  BY UpFacts DEF LogMatchesState
<1> QED
  BY <1>1, RecoveryInvHolds, PTL

\* A vote that a sync flush acknowledged is never taken back.
THEOREM AckedVoteStays == Obliged => (Spec => []AckedVoteKept)
<1>1. RecoveryInv => AckedVoteKept
  <2>1. ASSUME RecoveryInv, status = "up"
        PROVE  acked <= Len(recs) /\ log_state.vote >= SnapAt(acked).log_state.vote
    <3>1. /\ acked \in Nat /\ acked <= Len(recs) /\ synced \in Nat /\ Wal(recs, snap)
          /\ Len(recs) \in Nat
      BY <2>1, DiskFacts
    <3>2. /\ Len(recs) > 0 /\ History(recs, snap) /\ log_state \in RaftLogState
          /\ log_state = snap[Len(recs)].log_state
      BY <2>1, UpFacts DEF RecoveryInv, StoreInv, MemoryFollows
    <3>3. log_state.vote \in Int /\ log_state.vote >= -1
      BY <3>2 DEF RaftLogState, OptVote, NoVote
    <3>4. CASE acked = 0
      <4>1. SnapAt(acked).log_state.vote = -1
        BY <3>4 DEF SnapAt, View, default_state, NoVote
      <4> QED
        BY <3>1, <3>3, <4>1
    <3>5. CASE acked # 0
      <4>1. SnapAt(acked) = snap[acked] /\ acked \in 1 .. Len(snap)
            /\ Len(recs) \in 1 .. Len(snap)
        BY <3>1, <3>2, <3>5 DEF SnapAt, Wal
      <4>2. snap[acked].log_state.vote <= snap[Len(recs)].log_state.vote
        BY <3>1, <3>2, <4>1 DEF History, VotesAscend
      <4>3. snap[acked].log_state.vote \in Int
        <5>1. snap[acked].log_state \in RaftLogState
          BY <3>1, <4>1, WalTypes DEF Wal
        <5> QED
          BY <5>1 DEF RaftLogState, OptVote, NoVote
      <4> QED
        BY <3>1, <3>2, <3>3, <4>1, <4>2, <4>3
    <3> QED
      BY <3>4, <3>5
  <2> QED
    BY <2>1 DEF AckedVoteKept
<1> QED
  BY <1>1, RecoveryInvHolds, PTL

---------------------------------------------------------------------------
(* What a running store may give up.                                       *)

\* An entry that a proper record drops is above the committed ones, or purged.
LEMMA DropsOnlyPurged ==
  ASSUME NEW s \in RaftLogState, NEW l, IsLog(l), WellFormed(s, l),
         NEW rec \in RaftLogRecord, check(s, rec), Proper(s, l, rec),
         NEW chunk \in Nat, NEW seg \in Nat,
         NEW i \in DOMAIN l \ DOMAIN apply_log(l, rec, chunk, seg),
         Le(l[i].log_id, s.committed)
  PROVE  i < next_log_index(apply_state(s, rec).purged)
<1>1. /\ s.last \in OptLogId /\ s.purged \in OptLogId /\ s.committed \in OptLogId
      /\ i \in Nat /\ l[i].log_id \in OptLogId
      /\ \A k \in DOMAIN l : k \in Nat /\ l[k].log_id \in OptLogId
  BY WellFormedTypes
<1>2. /\ log_index(l[i].log_id) = i /\ Lt(s.purged, l[i].log_id)
      /\ \A k \in DOMAIN l : log_index(l[k].log_id) = k /\ (k < i => Lt(l[k].log_id, l[i].log_id))
  BY DEF WellFormed, LogIsRun, LogFits
<1>3. rec.type \in {"TruncateAfter", "PurgeUpto"}
  <2>1. rec.type \in {"SaveVote", "Commit", "Checkpoint"} => apply_log(l, rec, chunk, seg) = l
    BY Zenon DEF apply_log
  <2>2. rec.type = "Append" =>
          DOMAIN apply_log(l, rec, chunk, seg) = DOMAIN l \cup {log_index(rec.log_id)}
    <3>1. rec.type = "Append" =>
            apply_log(l, rec, chunk, seg)
              = InsertLog(l, log_index(rec.log_id), NewLogData(rec.log_id, chunk, seg))
      BY Zenon DEF apply_log
    <3> QED
      BY <3>1 DEF InsertLog
  <2> QED
    BY <2>1, <2>2, RecordTypes
<1>4. CASE rec.type = "TruncateAfter"
  <2> DEFINE keep == rec.log_id
  <2>1. apply_log(l, rec, chunk, seg)
          = RestrictLog(l, {j \in DOMAIN l : j < next_log_index(keep)})
    BY <1>4, Zenon DEF apply_log
  <2>2. ~(i < next_log_index(keep))
    BY <2>1 DEF RestrictLog
  <2>3. keep \in OptLogId /\ Le(s.committed, keep)
    BY <1>4, RecordTypes DEF check, check_truncate
  <2>4. Lt(keep, l[i].log_id)
    <3>1. CASE keep = s.purged
      BY <1>2, <3>1
    <3>2. ASSUME NEW k \in DOMAIN l, keep = l[k].log_id
          PROVE  Lt(keep, l[i].log_id)
      <4>1. next_log_index(keep) = k + 1 /\ k \in Nat
        BY <1>1, <1>2, <3>2, IdIndex
      <4>2. k < i
        BY <1>1, <2>2, <4>1
      <4> QED
        BY <1>2, <3>2, <4>2
    <3> QED
      BY <1>4, <3>1, <3>2 DEF Proper
  <2> QED
    BY <1>1, <2>3, <2>4, IdOrder DEF Le
<1>5. CASE rec.type = "PurgeUpto"
  <2> DEFINE id == rec.log_id
  <2>1. apply_log(l, rec, chunk, seg)
          = RestrictLog(l, {j \in DOMAIN l : j >= next_log_index(id)})
    BY <1>5, Zenon DEF apply_log
  <2>2. id \in LogId /\ id \in OptLogId
    BY <1>5, RecordTypes DEF OptLogId
  <2>3. i < next_log_index(id)
    <3>1. ~(i >= next_log_index(id))
      BY <2>1 DEF RestrictLog
    <3> QED
      BY <1>1, <2>2, <3>1, IdIndex
  <2>4. Agrees(id, l[i].log_id)
    BY <1>5 DEF Proper
  <2>5. ~Lt(id, l[i].log_id)
    <3>1. next_log_index(id) = log_index(id) + 1 /\ log_index(id) \in Int
      BY <2>2, IdIndex
    <3>2. ~(log_index(id) < i)
      BY <1>1, <2>3, <3>1
    <3> QED
      BY <1>2, <2>4, <3>2 DEF Agrees
  <2>6. Lt(s.purged, id)
    BY <1>1, <1>2, <2>2, <2>5, IdOrder
  <2>7. apply_state(s, rec).purged = id
    <3>1. apply_state(s, rec) = purge_state(s, id)
      BY <1>5, ApplyStateCases
    <3>2. purge_state(s, id).purged = id
      BY <2>6 DEF purge_state, RaftLogState
    <3> QED
      BY <3>1, <3>2
  <2> QED
    BY <2>3, <2>7
<1> QED
  BY <1>3, <1>4, <1>5

\* A running store gives up a committed entry only by purging it.
THEOREM CommittedStays == Obliged => (Spec => CommittedOnlyPurged)
<1> SUFFICES ASSUME Obliged
             PROVE  Spec => CommittedOnlyPurged
  OBVIOUS
<1> DEFINE Step ==
             status = "up" /\ status' = "up" =>
               \A i \in DOMAIN log \ DOMAIN log' :
                 Le(log[i].log_id, log_state.committed) =>
                   i < next_log_index(log_state'.purged)
<1>1. RecoveryInv /\ [Next]_vars => [Step]_vars
  <2>1. SUFFICES ASSUME RecoveryInv, Next, status = "up", status' = "up",
                        NEW i \in DOMAIN log \ DOMAIN log',
                        Le(log[i].log_id, log_state.committed)
                 PROVE  i < next_log_index(log_state'.purged)
    OBVIOUS
  <2>2. ASSUME NEW rec \in RaftLogRecord, Writes(rec)
        PROVE  i < next_log_index(log_state'.purged)
    <3>1. /\ log_state' = apply_state(log_state, rec) /\ check(log_state, rec)
          /\ log' = apply_log(log, rec, open_chunk, Len(recs) + 1)
          /\ Proper(log_state, log, rec)
      BY <2>2 DEF Writes, Issued, append_and_apply, Accepts
    <3>2. /\ log_state \in RaftLogState /\ IsLog(log) /\ WellFormed(log_state, log)
          /\ open_chunk \in Nat /\ Len(recs) + 1 \in Nat
      BY <2>1, UpFacts
    <3>3. apply_state(log_state, rec).purged = log_state'.purged
      BY <3>1
    <3> QED
      BY <2>1, <3>1, <3>2, <3>3, DropsOnlyPurged
  <2>3. ASSUME log' = log
        PROVE  FALSE
    BY <2>1, <2>3
  <2>4. CASE Caller
    BY <2>1, <2>2, <2>3, <2>4, CallerSteps DEF flush, append_reject, drain_cache_evictable, mem
  <2>5. CASE FlushWorker
    BY <2>3, <2>5 DEF FlushWorker, WorkerWrite, WorkerSync, WorkerRemove, mem
  <2>6. CASE open
    BY <2>1, <2>6 DEF open, OpenStart, ReplayRecord, OpenFinish
  <2>7. CASE Fail
    BY <2>1, <2>7 DEF Fail, Crash
  <2> QED
    BY <2>1, <2>4, <2>5, <2>6, <2>7 DEF Next
<1>2. Spec => []RecoveryInv
  BY RecoveryInvHolds
<1>3. Spec => [][Step]_vars
  BY <1>1, <1>2, PTL DEF Spec
<1> QED
  BY <1>3 DEF CommittedOnlyPurged

---------------------------------------------------------------------------
(* The files of a store: each is accounted for, they leave oldest first,   *)
(* and what a crash leaves of them can always be opened again.             *)

---------------------------------------------------------------------------
(* The chunks a queue removes.                                             *)

\* What Leaving collects.
LEMMA LeavingMembers ==
  ASSUME NEW q \in Seq(Requests)
  PROVE  \A c : c \in Leaving(q) <=>
           \E k \in 1 .. Len(q) : q[k].type = "RemoveChunks" /\ c \in q[k].ids
<1>1. DOMAIN q = 1 .. Len(q)
  OBVIOUS
<1> QED
  BY <1>1, Zenon DEF Leaving

\* The removals of q are removals of g as well.
LEMMA LeavingWithin ==
  ASSUME NEW q \in Seq(Requests), NEW g \in Seq(Requests),
         \A k \in 1 .. Len(q) : q[k].type = "RemoveChunks" =>
           \E j \in 1 .. Len(g) : g[j] = q[k]
  PROVE  Leaving(q) \subseteq Leaving(g)
<1>1. SUFFICES ASSUME NEW c \in Leaving(q) PROVE c \in Leaving(g)
  OBVIOUS
<1>2. PICK k \in 1 .. Len(q) : q[k].type = "RemoveChunks" /\ c \in q[k].ids
  BY LeavingMembers
<1>3. PICK j \in 1 .. Len(g) : g[j] = q[k]
  BY <1>2
<1>4. g[j].type = "RemoveChunks" /\ c \in g[j].ids
  BY <1>2, <1>3
<1> QED
  BY <1>4, LeavingMembers

\* A removal names chunks.
LEMMA LeavingType ==
  ASSUME NEW q \in Seq(Requests)
  PROVE  Leaving(q) \subseteq Nat
<1>1. ASSUME NEW k \in 1 .. Len(q), q[k].type = "RemoveChunks"
      PROVE  q[k].ids \subseteq Nat
  <2>1. q[k] \in Requests
    OBVIOUS
  <2> QED
    BY <1>1, <2>1 DEF Requests
<1> QED
  BY <1>1, LeavingMembers

\* A write request removes nothing.
LEMMA LeavingWrite ==
  ASSUME NEW q \in Seq(Requests), NEW w \in Requests, w.type = "Write"
  PROVE  /\ Leaving(Append(q, w)) = Leaving(q)
         /\ RemovalsAscend(q) => RemovalsAscend(Append(q, w))
<1>1. PICK g : g = Append(q, w)
  OBVIOUS
<1>2. /\ g \in Seq(Requests) /\ Len(g) = Len(q) + 1 /\ Len(q) \in Nat
      /\ \A k \in 1 .. Len(q) : g[k] = q[k]
      /\ g[Len(q) + 1] = w
  BY <1>1
<1>3. \A k \in 1 .. Len(g) : g[k].type = "RemoveChunks" => k \in 1 .. Len(q) /\ g[k] = q[k]
  BY <1>2
<1>4. \A k \in 1 .. Len(q) : k \in 1 .. Len(g)
  BY <1>2
<1>5. Leaving(g) = Leaving(q)
  <2>1. Leaving(g) \subseteq Leaving(q)
    BY <1>2, <1>3, LeavingWithin
  <2>2. Leaving(q) \subseteq Leaving(g)
    BY <1>2, <1>4, LeavingWithin
  <2> QED
    BY <2>1, <2>2
<1>6. RemovalsAscend(q) => RemovalsAscend(g)
  BY <1>3, Zenon DEF RemovalsAscend
<1> QED
  BY <1>1, <1>5, <1>6

\* A removal request adds its chunks, behind the ones that were sent.
LEMMA LeavingRemove ==
  ASSUME NEW q \in Seq(Requests), NEW ids, ids \subseteq Nat
  PROVE  LET g == Append(q, RemoveRequest(ids)) IN
         /\ Leaving(g) = Leaving(q) \cup ids
         /\ RemovalsAscend(q) /\ Below(Leaving(q), ids) => RemovalsAscend(g)
<1>1. PICK w, g : w = RemoveRequest(ids) /\ g = Append(q, w)
  OBVIOUS
<1>2. w.type = "RemoveChunks" /\ w.ids = ids /\ w \in Requests
  BY <1>1 DEF RemoveRequest, Requests
<1>3. /\ g \in Seq(Requests) /\ Len(g) = Len(q) + 1 /\ Len(q) \in Nat
      /\ \A k \in 1 .. Len(q) : g[k] = q[k] /\ k \in 1 .. Len(g)
      /\ Len(q) + 1 \in 1 .. Len(g) /\ g[Len(q) + 1] = w
      /\ \A k \in 1 .. Len(g) : k = Len(q) + 1 \/ (k \in 1 .. Len(q) /\ g[k] = q[k])
  BY <1>1, <1>2
<1>4. Leaving(g) = Leaving(q) \cup ids
  <2>1. Leaving(q) \subseteq Leaving(g)
    BY <1>3, LeavingWithin
  <2>2. ids \subseteq Leaving(g)
    BY <1>2, <1>3, LeavingMembers
  <2>3. ASSUME NEW c \in Leaving(g), c \notin ids PROVE c \in Leaving(q)
    <3>1. PICK k \in 1 .. Len(g) : g[k].type = "RemoveChunks" /\ c \in g[k].ids
      BY <1>3, LeavingMembers
    <3>2. k \in 1 .. Len(q) /\ g[k] = q[k]
      BY <1>2, <1>3, <2>3, <3>1
    <3>3. q[k].type = "RemoveChunks" /\ c \in q[k].ids
      BY <3>1, <3>2
    <3> QED
      BY <3>2, <3>3, LeavingMembers
  <2> QED
    BY <2>1, <2>2, <2>3
<1>5. ASSUME RemovalsAscend(q), Below(Leaving(q), ids)
      PROVE  RemovalsAscend(g)
  <2>1. SUFFICES ASSUME NEW j \in 1 .. Len(g), NEW k \in 1 .. Len(g), j < k,
                        g[j].type = "RemoveChunks", g[k].type = "RemoveChunks"
                 PROVE  Below(g[j].ids, g[k].ids)
    BY DEF RemovalsAscend
  <2>2. j \in 1 .. Len(q) /\ g[j] = q[j]
    BY <1>3, <2>1
  <2>3. CASE k = Len(q) + 1
    <3>1. \A c \in q[j].ids : c \in Leaving(q)
      BY <2>1, <2>2, LeavingMembers, Zenon
    <3> QED
      BY <1>2, <1>3, <1>5, <2>2, <2>3, <3>1 DEF Below
  <2>4. CASE k \in 1 .. Len(q) /\ g[k] = q[k]
    BY <1>5, <2>1, <2>2, <2>4 DEF RemovalsAscend
  <2> QED
    BY <1>3, <2>3, <2>4
<1> QED
  BY <1>1, <1>4, <1>5

\* Serving a write request changes no removal.
LEMMA LeavingServed ==
  ASSUME NEW q \in Seq(Requests), q # <<>>, Head(q).type = "Write"
  PROVE  /\ Leaving(Tail(q)) = Leaving(q)
         /\ RemovalsAscend(q) => RemovalsAscend(Tail(q))
<1>1. PICK t : t = Tail(q)
  OBVIOUS
<1>2. /\ t \in Seq(Requests) /\ Len(t) = Len(q) - 1 /\ Len(q) \in Nat /\ Len(q) > 0
      /\ \A k \in 1 .. Len(q) - 1 : t[k] = q[k + 1]
      /\ Head(q) = q[1]
  BY <1>1
<1>3. \A k \in 1 .. Len(t) : k + 1 \in 1 .. Len(q) /\ t[k] = q[k + 1]
  BY <1>2
<1>4. \A k \in 1 .. Len(q) : q[k].type = "RemoveChunks" =>
        \E j \in 1 .. Len(t) : t[j] = q[k]
  <2>1. SUFFICES ASSUME NEW k \in 1 .. Len(q), q[k].type = "RemoveChunks"
                 PROVE  \E j \in 1 .. Len(t) : t[j] = q[k]
    OBVIOUS
  <2>2. k # 1
    BY <1>2, <2>1
  <2>3. k - 1 \in 1 .. Len(t) /\ (k - 1) + 1 = k
    BY <1>2, <2>2
  <2> QED
    BY <1>3, <2>3
<1>5. Leaving(t) = Leaving(q)
  <2>1. Leaving(t) \subseteq Leaving(q)
    BY <1>2, <1>3, LeavingWithin
  <2>2. Leaving(q) \subseteq Leaving(t)
    BY <1>2, <1>4, LeavingWithin
  <2> QED
    BY <2>1, <2>2
<1>6. ASSUME RemovalsAscend(q) PROVE RemovalsAscend(t)
  <2>1. SUFFICES ASSUME NEW j \in 1 .. Len(t), NEW k \in 1 .. Len(t), j < k,
                        t[j].type = "RemoveChunks", t[k].type = "RemoveChunks"
                 PROVE  Below(t[j].ids, t[k].ids)
    BY DEF RemovalsAscend
  <2>2. j + 1 < k + 1
    BY <1>2, <2>1
  <2> QED
    BY <1>3, <1>6, <2>1, <2>2 DEF RemovalsAscend
<1> QED
  BY <1>1, <1>5, <1>6

\* The queue after the first removal gave up the chunk it unlinked.
Unlinked(q, c) ==
  IF Head(q).ids = {c} THEN Tail(q) ELSE <<RemoveRequest(Head(q).ids \ {c})>> \o Tail(q)

\* Unlinking a chunk takes it, and nothing else, out of the queue.
LEMMA LeavingUnlinked ==
  ASSUME NEW q \in Seq(Requests), q # <<>>, Head(q).type = "RemoveChunks",
         RemovalsAscend(q), NEW c \in Head(q).ids, \A d \in Head(q).ids : c <= d
  PROVE  /\ Leaving(Unlinked(q, c)) = Leaving(q) \ {c}
         /\ RemovalsAscend(Unlinked(q, c))
         /\ c \in Leaving(q) /\ \A d \in Leaving(q) : c <= d
<1>1. PICK t, b : t = Tail(q) /\ b = Head(q)
  OBVIOUS
<1>2. /\ t \in Seq(Requests) /\ Len(t) = Len(q) - 1 /\ Len(q) \in Nat /\ Len(q) > 0
      /\ \A k \in 1 .. Len(q) - 1 : t[k] = q[k + 1]
      /\ b = q[1] /\ b \in Requests /\ 1 \in 1 .. Len(q)
  BY <1>1
<1>3. b.ids \subseteq Nat /\ b.type = "RemoveChunks"
  BY <1>1, <1>2 DEF Requests
<1>4. \A k \in 1 .. Len(t) : k + 1 \in 1 .. Len(q) /\ t[k] = q[k + 1] /\ 1 < k + 1
  BY <1>2
<1>5. ASSUME NEW k \in 1 .. Len(q), k # 1, q[k].type = "RemoveChunks"
      PROVE  /\ \E j \in 1 .. Len(t) : t[j] = q[k]
             /\ Below(b.ids, q[k].ids) /\ c \notin q[k].ids
  <2>1. k - 1 \in 1 .. Len(t) /\ (k - 1) + 1 = k /\ 1 < k
    BY <1>2, <1>5
  <2>2. t[k - 1] = q[k]
    BY <1>4, <2>1
  <2>3. Below(b.ids, q[k].ids)
    BY <1>2, <1>3, <1>5, <2>1 DEF RemovalsAscend
  <2>4. c \notin q[k].ids
    BY <1>1, <1>3, <2>3 DEF Below
  <2> QED
    BY <2>1, <2>2, <2>3, <2>4
<1>6. \A d : d \in Leaving(q) <=> d \in b.ids \/ d \in Leaving(t)
  <2>1. ASSUME NEW d \in Leaving(q), d \notin b.ids PROVE d \in Leaving(t)
    <3>1. PICK k \in 1 .. Len(q) : q[k].type = "RemoveChunks" /\ d \in q[k].ids
      BY LeavingMembers
    <3>2. k # 1
      BY <1>2, <2>1, <3>1
    <3>3. PICK j \in 1 .. Len(t) : t[j] = q[k]
      BY <1>5, <3>1, <3>2
    <3> QED
      BY <1>2, <3>1, <3>3, LeavingMembers, Zenon
  <2>2. Leaving(t) \subseteq Leaving(q)
    BY <1>2, <1>4, LeavingWithin
  <2>3. ASSUME NEW d \in b.ids PROVE d \in Leaving(q)
    BY <1>2, <1>3, LeavingMembers, Zenon
  <2> QED
    BY <2>1, <2>2, <2>3
<1>7. \A d \in Leaving(t) : \E k \in 1 .. Len(q) :
        k # 1 /\ q[k].type = "RemoveChunks" /\ d \in q[k].ids
  <2>1. SUFFICES ASSUME NEW d \in Leaving(t)
                 PROVE  \E k \in 1 .. Len(q) :
                          k # 1 /\ q[k].type = "RemoveChunks" /\ d \in q[k].ids
    OBVIOUS
  <2>2. PICK j \in 1 .. Len(t) : t[j].type = "RemoveChunks" /\ d \in t[j].ids
    BY <1>2, LeavingMembers
  <2>3. j + 1 \in 1 .. Len(q) /\ t[j] = q[j + 1] /\ j + 1 # 1
    BY <1>2, <1>4
  <2> QED
    BY <2>2, <2>3
<1>8. \A d \in Leaving(t) : c < d /\ d # c
  <2>1. SUFFICES ASSUME NEW d \in Leaving(t) PROVE c < d /\ d # c
    OBVIOUS
  <2>2. PICK k \in 1 .. Len(q) : k # 1 /\ q[k].type = "RemoveChunks" /\ d \in q[k].ids
    BY <1>7
  <2>3. Below(b.ids, q[k].ids) /\ c \notin q[k].ids
    BY <1>5, <2>2
  <2> QED
    BY <1>1, <2>2, <2>3 DEF Below
<1>9. c \in Leaving(q) /\ \A d \in Leaving(q) : c <= d
  <2>1. c \in Nat /\ Leaving(q) \subseteq Nat
    BY <1>1, <1>3, LeavingType
  <2> QED
    BY <1>1, <1>6, <1>8, <2>1
<1>10. RemovalsAscend(t)
  <2>1. SUFFICES ASSUME NEW j \in 1 .. Len(t), NEW k \in 1 .. Len(t), j < k,
                        t[j].type = "RemoveChunks", t[k].type = "RemoveChunks"
                 PROVE  Below(t[j].ids, t[k].ids)
    BY DEF RemovalsAscend
  <2>2. j + 1 < k + 1
    BY <1>2, <2>1
  <2> QED
    BY <1>4, <2>1, <2>2 DEF RemovalsAscend
<1>11. CASE b.ids = {c}
  <2>1. Unlinked(q, c) = t
    BY <1>1, <1>11 DEF Unlinked
  <2>2. Leaving(t) = Leaving(q) \ {c}
    BY <1>6, <1>8, <1>11
  <2> QED
    BY <1>9, <1>10, <2>1, <2>2
<1>12. CASE b.ids # {c}
  <2>1. PICK x, g : x = RemoveRequest(b.ids \ {c}) /\ g = <<x>> \o t
    OBVIOUS
  <2>2. x.type = "RemoveChunks" /\ x.ids = b.ids \ {c} /\ x \in Requests
    BY <1>3, <2>1 DEF RemoveRequest, Requests
  <2>3. Unlinked(q, c) = g
    BY <1>1, <1>12, <2>1 DEF Unlinked
  <2>4. /\ g \in Seq(Requests) /\ Len(g) = Len(t) + 1 /\ Len(t) \in Nat /\ g[1] = x
        /\ \A k \in 2 .. Len(t) + 1 : g[k] = t[k - 1]
    BY <1>2, <2>1, <2>2
  <2>5. \A k \in 1 .. Len(g) : k = 1 \/ (k - 1 \in 1 .. Len(t) /\ g[k] = t[k - 1] /\ g[k] = q[k])
    <3>1. SUFFICES ASSUME NEW k \in 1 .. Len(g), k # 1
                   PROVE  k - 1 \in 1 .. Len(t) /\ g[k] = t[k - 1] /\ g[k] = q[k]
      OBVIOUS
    <3>2. k - 1 \in 1 .. Len(t) /\ (k - 1) + 1 = k /\ k \in 2 .. Len(t) + 1
      BY <2>4, <3>1
    <3> QED
      BY <1>4, <2>4, <3>2
  <2>6. \A j \in 1 .. Len(t) : j + 1 \in 1 .. Len(g) /\ g[j + 1] = t[j]
    <3>1. SUFFICES ASSUME NEW j \in 1 .. Len(t)
                   PROVE  j + 1 \in 1 .. Len(g) /\ g[j + 1] = t[j]
      OBVIOUS
    <3>2. j + 1 \in 2 .. Len(t) + 1 /\ (j + 1) - 1 = j /\ j + 1 \in 1 .. Len(g)
      BY <2>4
    <3> QED
      BY <2>4, <3>2
  <2>7. \A d : d \in Leaving(g) <=> d \in x.ids \/ d \in Leaving(t)
    <3>1. 1 \in 1 .. Len(g)
      BY <2>4
    <3>2. Leaving(t) \subseteq Leaving(g)
      BY <1>2, <2>4, <2>6, LeavingWithin
    <3>3. x.ids \subseteq Leaving(g)
      BY <2>2, <2>4, <3>1, LeavingMembers
    <3>4. ASSUME NEW d \in Leaving(g), d \notin x.ids PROVE d \in Leaving(t)
      <4>1. PICK k \in 1 .. Len(g) : g[k].type = "RemoveChunks" /\ d \in g[k].ids
        BY <2>4, LeavingMembers
      <4>2. k - 1 \in 1 .. Len(t) /\ g[k] = t[k - 1]
        BY <2>4, <2>5, <3>4, <4>1
      <4>3. t[k - 1].type = "RemoveChunks" /\ d \in t[k - 1].ids
        BY <4>1, <4>2
      <4> QED
        BY <1>2, <4>2, <4>3, LeavingMembers
    <3> QED
      BY <3>2, <3>3, <3>4
  <2>8. Leaving(g) = Leaving(q) \ {c}
    BY <1>6, <1>8, <2>2, <2>7
  <2>9. RemovalsAscend(g)
    <3>1. SUFFICES ASSUME NEW j \in 1 .. Len(g), NEW k \in 1 .. Len(g), j < k,
                          g[j].type = "RemoveChunks", g[k].type = "RemoveChunks"
                   PROVE  Below(g[j].ids, g[k].ids)
      BY DEF RemovalsAscend
    <3>2. k # 1 /\ g[k] = q[k] /\ k \in 1 .. Len(q)
      BY <1>2, <2>4, <2>5, <3>1
    <3>3. CASE j = 1
      <4>1. Below(b.ids, q[k].ids)
        BY <1>5, <3>1, <3>2
      <4> QED
        BY <2>2, <2>4, <3>2, <3>3, <4>1 DEF Below
    <3>4. CASE j # 1
      <4>1. g[j] = q[j] /\ j \in 1 .. Len(q)
        BY <1>2, <2>4, <2>5, <3>4
      <4> QED
        BY <3>1, <3>2, <4>1 DEF RemovalsAscend
    <3> QED
      BY <3>3, <3>4
  <2> QED
    BY <1>9, <2>3, <2>8, <2>9
<1> QED
  BY <1>11, <1>12

---------------------------------------------------------------------------
(* append_and_apply and flush.                                             *)

\* buffer_removable_chunks drains the oldest closed chunks.
LEMMA RemovableOldest ==
  ASSUME NEW chunks, IsClosed(chunks), NEW purged
  PROVE  Below(Removable(chunks, purged), DOMAIN chunks \ Removable(chunks, purged))
<1>1. SUFFICES ASSUME NEW c \in Removable(chunks, purged),
                      NEW d \in DOMAIN chunks \ Removable(chunks, purged), ~(c < d)
               PROVE  FALSE
  BY DEF Below
<1>2. DOMAIN chunks \subseteq Nat /\ c \in DOMAIN chunks
  BY DEF IsClosed, Removable
<1>3. \A e \in DOMAIN chunks : e <= d => e <= c
  BY <1>1, <1>2
<1> QED
  BY <1>3 DEF Removable

\* New records in the open chunk, or in a new one that has its file.
LEMMA ConnectedGrows ==
  ASSUME NEW r \in Seq(WalEntry), NEW F, Connected(F, r), NEW e \in WalEntry,
         NEW G, F \subseteq G, e.chunk \in G, \A c \in G \ F : c >= Len(r), G \subseteq Nat
  PROVE  Connected(G, Append(r, e))
<1>1. PICK rr : rr = Append(r, e)
  OBVIOUS
<1>2. /\ Len(r) \in Nat /\ Len(rr) = Len(r) + 1 /\ rr[Len(r) + 1] = e
      /\ \A p \in 1 .. Len(r) : rr[p] = r[p]
      /\ \A p \in 1 .. Len(rr) : p \in 1 .. Len(r) \/ p = Len(r) + 1
  BY <1>1
<1>3. SUFFICES ASSUME NEW c \in G, NEW p \in 1 .. Len(rr), p > c
               PROVE  rr[p].chunk \in G
  BY <1>1 DEF Connected
<1>4. CASE p = Len(r) + 1
  BY <1>2, <1>4
<1>5. CASE p \in 1 .. Len(r)
  <2>1. c \in F
    <3>1. c \in Nat /\ Len(r) \in Nat
      BY <1>2
    <3>2. p \in Nat /\ p <= Len(r) /\ p > c
      BY <1>3, <1>5, <3>1
    <3>3. ~(c >= Len(r))
      BY <3>1, <3>2
    <3> QED
      BY <3>3
  <2> QED
    BY <1>2, <1>3, <1>5, <2>1 DEF Connected
<1> QED
  BY <1>2, <1>4, <1>5

\* What FilesInv says of a running store.
LEMMA UpFiles ==
  ASSUME RecoveryInv, FilesInv, status = "up"
  PROVE  /\ files = {open_chunk} \cup DOMAIN closed \cup removed_chunks \cup Leaving(queue)
         /\ Below(Leaving(queue), removed_chunks \cup DOMAIN closed \cup {open_chunk})
         /\ Below(removed_chunks, DOMAIN closed \cup {open_chunk})
         /\ RemovalsAscend(queue) /\ Connected(files, recs)
         /\ files \subseteq Nat /\ queue \in Seq(Requests) /\ recs \in Seq(WalEntry)
         /\ IsClosed(closed) /\ DOMAIN closed \subseteq Nat
         /\ \A c \in DOMAIN closed : c < open_chunk
<1>1. /\ files \subseteq Nat /\ queue \in Seq(Requests) /\ recs \in Seq(WalEntry)
      /\ IsClosed(closed) /\ DOMAIN closed \subseteq Nat
      /\ \A c \in DOMAIN closed : c < open_chunk
  BY DiskFacts DEF ClosedAtEnd, IsClosed, Wal
<1> QED
  BY <1>1 DEF FilesInv, FilesAccounted, InRemovalOrder

\* append_and_apply: a chunk that closes stays in line, the ones drained are
\* the oldest.
LEMMA AppendAndApplyFiles ==
  ASSUME RecoveryInv, FilesInv, status = "up", NEW rec \in RaftLogRecord,
         NEW buffer \in BOOLEAN, append_and_apply(rec, buffer)
  PROVE  FilesInv'
<1> DEFINE pos == Len(recs) + 1
           st == apply_state(log_state, rec)
           lg == apply_log(log, rec, open_chunk, pos)
           full == pos - open_chunk >= ChunkMaxRecords
           chunks == IF full THEN CloseChunk(closed, open_chunk, st) ELSE closed
           removable == IF full \/ buffer THEN Removable(chunks, st.purged) ELSE {}
<1>1. /\ files = {open_chunk} \cup DOMAIN closed \cup removed_chunks \cup Leaving(queue)
      /\ Below(Leaving(queue), removed_chunks \cup DOMAIN closed \cup {open_chunk})
      /\ Below(removed_chunks, DOMAIN closed \cup {open_chunk})
      /\ RemovalsAscend(queue) /\ Connected(files, recs)
      /\ files \subseteq Nat /\ queue \in Seq(Requests) /\ recs \in Seq(WalEntry)
      /\ IsClosed(closed) /\ DOMAIN closed \subseteq Nat
      /\ \A c \in DOMAIN closed : c < open_chunk
  BY UpFiles
<1>2. /\ Len(recs) \in Nat /\ open_chunk \in Nat /\ open_chunk < Len(recs)
      /\ log_state \in RaftLogState
  BY UpFacts
<1>3. /\ closed' = [c \in DOMAIN chunks \ removable |-> chunks[c]]
      /\ removed_chunks' = removed_chunks \cup removable
      /\ status' = "up"
  BY DEF append_and_apply
<1>4. IsClosed(chunks)
  <2>1. st \in RaftLogState
    BY <1>2, ApplyStateType
  <2> HIDE DEF st
  <2> QED
    BY <1>1, <1>2, <2>1, CloseChunkType
<1>5. ~full => /\ recs' = Append(recs, Entry(open_chunk, rec))
               /\ UNCHANGED <<open_chunk, queue, files>> /\ chunks = closed
  BY DEF append_and_apply
<1>6. full => /\ recs' = Append(Append(recs, Entry(open_chunk, rec)),
                                Entry(pos, CheckpointRecord(st)))
              /\ open_chunk' = pos /\ files' = files \cup {pos}
              /\ queue' = Append(queue, WriteRequest(open_chunk, pos, TRUE, FALSE))
              /\ DOMAIN chunks = DOMAIN closed \cup {open_chunk}
  BY DEF append_and_apply, CloseChunk
<1>7. Entry(open_chunk, rec) \in WalEntry /\ Entry(open_chunk, rec).chunk = open_chunk
  BY <1>2 DEF Entry, WalEntry
<1>8. /\ removable \subseteq DOMAIN chunks
      /\ Below(removable, DOMAIN chunks \ removable)
  <2>1. Removable(chunks, st.purged) \subseteq DOMAIN chunks
    BY DEF Removable
  <2>2. Below(Removable(chunks, st.purged), DOMAIN chunks \ Removable(chunks, st.purged))
    BY <1>4, RemovableOldest
  <2>3. Below({}, DOMAIN chunks)
    BY DEF Below
  <2> HIDE DEF chunks, st, full
  <2> QED
    BY <2>1, <2>2, <2>3
<1>9. DOMAIN closed' = DOMAIN chunks \ removable
  BY <1>3
<1>10. Connected(files, Append(recs, Entry(open_chunk, rec)))
  BY <1>1, <1>7, ConnectedGrows
<1> HIDE DEF removable
<1>11. CASE ~full
  <2>1. FilesAccounted'
    BY <1>1, <1>3, <1>5, <1>8, <1>9, <1>11 DEF FilesAccounted
  <2>2. InRemovalOrder'
    <3>1. Below(Leaving(queue), removed_chunks' \cup DOMAIN closed' \cup {open_chunk})
      BY <1>1, <1>3, <1>5, <1>8, <1>9, <1>11 DEF Below
    <3>2. Below(removed_chunks', DOMAIN closed' \cup {open_chunk})
      BY <1>1, <1>3, <1>5, <1>8, <1>9, <1>11 DEF Below
    <3> QED
      BY <1>1, <1>5, <1>11, <3>1, <3>2 DEF InRemovalOrder
  <2>3. Connected(files, recs)'
    BY <1>5, <1>10, <1>11
  <2> QED
    BY <1>3, <2>1, <2>2, <2>3 DEF FilesInv, OpenSucceeds, FilesReplayed
<1>12. CASE full
  <2>1. PICK w : w = WriteRequest(open_chunk, pos, TRUE, FALSE)
    OBVIOUS
  <2>2. w \in Requests /\ w.type = "Write" /\ queue' = Append(queue, w)
    BY <1>2, <1>6, <1>12, <2>1 DEF WriteRequest, Requests
  <2>3. Leaving(queue') = Leaving(queue) /\ RemovalsAscend(queue')
    BY <1>1, <2>2, LeavingWrite
  <2>4. /\ pos \in Nat /\ open_chunk < pos
        /\ DOMAIN chunks = DOMAIN closed \cup {open_chunk}
        /\ open_chunk' = pos /\ files' = files \cup {pos}
    <3>1. pos \in Nat /\ open_chunk < pos
      BY <1>2
    <3> HIDE DEF pos, chunks, full
    <3> QED
      BY <1>6, <1>12, <3>1
  <2>5. Connected(files, recs)'
    <3>1. PICK r, e : r = Append(recs, Entry(open_chunk, rec)) /\ e = Entry(pos, CheckpointRecord(st))
      OBVIOUS
    <3>2. st \in RaftLogState
      BY <1>2, ApplyStateType
    <3>3. r \in Seq(WalEntry) /\ Len(r) = pos /\ e \in WalEntry /\ e.chunk = pos
      <4> HIDE DEF st
      <4>1. Len(r) = pos /\ r \in Seq(WalEntry)
        BY <1>1, <1>7, <3>1
      <4>2. CheckpointRecord(st) \in RaftLogRecord
        BY <3>2 DEF CheckpointRecord, RaftLogRecord
      <4> QED
        BY <2>4, <3>1, <4>1, <4>2 DEF Entry, WalEntry
    <3>4. \A c \in files' \ files : c >= Len(r)
      BY <2>4, <3>3
    <3>5. files \subseteq files' /\ e.chunk \in files' /\ files' \subseteq Nat
      BY <1>1, <2>4, <3>3
    <3>6. Connected(files, r)
      BY <1>10, <3>1
    <3>7. Connected(files', Append(r, e))
      BY <3>3, <3>4, <3>5, <3>6, ConnectedGrows
    <3>8. recs' = Append(r, e)
      BY <1>6, <1>12, <3>1
    <3> QED
      BY <3>7, <3>8
  <2> HIDE DEF pos, chunks, full
  <2>6. FilesAccounted'
    BY <1>1, <1>3, <1>8, <1>9, <2>3, <2>4 DEF FilesAccounted
  <2>7. InRemovalOrder'
    <3>1. Below(Leaving(queue), DOMAIN chunks \cup {pos} \cup removed_chunks)
      <4>1. Leaving(queue) \subseteq Nat /\ \A c \in Leaving(queue) : c < open_chunk
        BY <1>1, LeavingType DEF Below
      <4> QED
        BY <1>1, <1>2, <2>4, <4>1 DEF Below
    <3>2. Below(removed_chunks, DOMAIN chunks \cup {pos})
      <4>1. removed_chunks \subseteq Nat
        BY <1>1
      <4> QED
        BY <1>1, <1>2, <2>4, <4>1 DEF Below
    <3>3. Below(DOMAIN chunks, {pos})
      BY <1>1, <1>2, <2>4 DEF Below
    <3>4. Below(Leaving(queue), removed_chunks' \cup DOMAIN closed' \cup {pos})
      BY <1>3, <1>8, <1>9, <3>1 DEF Below
    <3>5. Below(removed_chunks', DOMAIN closed' \cup {pos})
      BY <1>3, <1>8, <1>9, <3>2, <3>3 DEF Below
    <3> QED
      BY <2>3, <2>4, <3>4, <3>5 DEF InRemovalOrder
  <2> QED
    BY <1>3, <2>5, <2>6, <2>7 DEF FilesInv, OpenSucceeds, FilesReplayed
<1> QED
  BY <1>11, <1>12

\* flush: the removals it sends are behind those sent before.
LEMMA FlushFiles ==
  ASSUME RecoveryInv, FilesInv, NEW sync \in BOOLEAN, flush(sync)
  PROVE  FilesInv'
<1>1. /\ status = "up" /\ removed_chunks' = removed_chunks \ Removals(sync)
      /\ UNCHANGED <<status, recs, open_chunk, closed, files>>
  BY DEF flush, Ready, StillRemoved, disk
<1>2. /\ files = {open_chunk} \cup DOMAIN closed \cup removed_chunks \cup Leaving(queue)
      /\ Below(Leaving(queue), removed_chunks \cup DOMAIN closed \cup {open_chunk})
      /\ Below(removed_chunks, DOMAIN closed \cup {open_chunk})
      /\ RemovalsAscend(queue) /\ Connected(files, recs)
      /\ files \subseteq Nat /\ queue \in Seq(Requests)
  BY <1>1, UpFiles
<1>3. PICK w, q : w = WriteRequest(open_chunk, Len(recs), sync, sync) /\ q = Append(queue, w)
  OBVIOUS
<1>4. w \in Requests /\ w.type = "Write"
  BY <1>1, <1>3, UpFacts DEF WriteRequest, Requests
<1>5. q \in Seq(Requests) /\ Leaving(q) = Leaving(queue) /\ RemovalsAscend(q)
  BY <1>2, <1>3, <1>4, LeavingWrite
<1>6. /\ Leaving(queue') = Leaving(queue) \cup Removals(sync)
      /\ RemovalsAscend(queue')
      /\ Removals(sync) \subseteq removed_chunks
  <2>1. CASE Removals(sync) = {}
    <3>1. queue' = q
      BY <1>3, <2>1 DEF flush
    <3> QED
      BY <1>5, <2>1, <3>1
  <2>2. CASE Removals(sync) # {}
    <3>1. Removals(sync) = removed_chunks
      BY <2>2 DEF Removals
    <3>2. queue' = Append(q, RemoveRequest(removed_chunks))
      BY <1>3, <2>2, <3>1 DEF flush
    <3>3. removed_chunks \subseteq Nat /\ Below(Leaving(q), removed_chunks)
      BY <1>2, <1>5 DEF Below
    <3> QED
      BY <1>5, <3>1, <3>2, <3>3, LeavingRemove
  <2> QED
    BY <2>1, <2>2
<1>7. FilesAccounted'
  BY <1>1, <1>2, <1>6 DEF FilesAccounted
<1>8. InRemovalOrder'
  <2>1. Below(Leaving(queue'), removed_chunks' \cup DOMAIN closed \cup {open_chunk})
    <3>1. removed_chunks' = {} \/ Removals(sync) = {}
      BY <1>1 DEF Removals
    <3> QED
      BY <1>1, <1>2, <1>6, <3>1 DEF Below
  <2>2. Below(removed_chunks', DOMAIN closed \cup {open_chunk})
    BY <1>1, <1>2 DEF Below
  <2> QED
    BY <1>1, <1>6, <2>1, <2>2 DEF InRemovalOrder
<1> QED
  BY <1>1, <1>2, <1>7, <1>8 DEF FilesInv, OpenSucceeds, FilesReplayed

---------------------------------------------------------------------------
(* The FlushWorker, a crash and a recovery.                                *)

\* Steps that leave the chunks and the removals alone.
LEMMA QuietFiles ==
  ASSUME FilesInv, UNCHANGED <<status, recs, open_chunk, closed, removed_chunks, files>>,
         Leaving(queue') = Leaving(queue), RemovalsAscend(queue) => RemovalsAscend(queue')
  PROVE  FilesInv'
<1>1. OpenSucceeds' /\ Connected(files, recs)' /\ FilesReplayed'
  BY DEF FilesInv, OpenSucceeds, FilesReplayed
<1>2. FilesAccounted' /\ InRemovalOrder'
  BY DEF FilesInv, FilesAccounted, InRemovalOrder
<1> QED
  BY <1>1, <1>2 DEF FilesInv

\* The oldest file goes: the others still follow one another.
LEMMA ConnectedWithout ==
  ASSUME NEW r, NEW h, Wal(r, h), ChunksAscend(r), NEW F, F \subseteq Nat,
         Connected(F, r), Start(F, r), NEW c \in F, \A d \in F : c <= d
  PROVE  Connected(F \ {c}, r)
<1>1. SUFFICES ASSUME NEW d \in F \ {c}, NEW p \in 1 .. Len(r), p > d
               PROVE  r[p].chunk \in F /\ r[p].chunk # c
  BY DEF Connected
<1>2. r[p].chunk \in F
  BY <1>1 DEF Connected
<1>3. /\ d + 1 \in 1 .. Len(r) /\ d + 1 <= p /\ r[d + 1].chunk = d /\ c < d
      /\ d \in Nat /\ c \in Nat
  BY <1>1, WalTypes DEF Start
<1>4. d <= r[p].chunk /\ r[p].chunk \in Nat
  BY <1>3, WalTypes DEF ChunksAscend
<1> QED
  BY <1>2, <1>3, <1>4

\* Every step of the FlushWorker.
LEMMA FlushWorkerFiles ==
  ASSUME RecoveryInv, FilesInv, FlushWorker
  PROVE  FilesInv'
<1>1. status = "up" /\ queue # <<>>
  BY DEF FlushWorker, WorkerWrite, WorkerSync, WorkerRemove, Serving
<1>2. /\ files = {open_chunk} \cup DOMAIN closed \cup removed_chunks \cup Leaving(queue)
      /\ Below(Leaving(queue), removed_chunks \cup DOMAIN closed \cup {open_chunk})
      /\ Below(removed_chunks, DOMAIN closed \cup {open_chunk})
      /\ RemovalsAscend(queue) /\ Connected(files, recs)
      /\ files \subseteq Nat /\ queue \in Seq(Requests)
  BY <1>1, UpFiles
<1>3. CASE WorkerWrite \/ WorkerSync
  <2>1. Head(queue).type = "Write" /\ (queue' = queue \/ queue' = Tail(queue))
    BY <1>3 DEF WorkerWrite, WorkerSync, Serving, AfterWrite
  <2>2. UNCHANGED <<status, recs, open_chunk, closed, removed_chunks, files>>
    BY <1>3 DEF WorkerWrite, WorkerSync, wal, disk
  <2>3. Leaving(queue') = Leaving(queue) /\ (RemovalsAscend(queue) => RemovalsAscend(queue'))
    BY <1>1, <1>2, <2>1, LeavingServed
  <2> QED
    BY <2>2, <2>3, QuietFiles
<1>4. CASE WorkerRemove
  <2>1. PICK c \in Head(queue).ids :
          /\ \A d \in Head(queue).ids : c <= d
          /\ files' = files \ {c} /\ queue' = Unlinked(queue, c)
    BY <1>4 DEF WorkerRemove, Unlinked
  <2>2. Head(queue).type = "RemoveChunks"
        /\ UNCHANGED <<status, recs, open_chunk, closed, removed_chunks>>
    BY <1>4 DEF WorkerRemove, Serving, wal
  <2>3. /\ Leaving(queue') = Leaving(queue) \ {c} /\ RemovalsAscend(queue')
        /\ c \in Leaving(queue) /\ \A d \in Leaving(queue) : c <= d
    BY <1>1, <1>2, <2>1, <2>2, LeavingUnlinked
  <2>4. \A d \in removed_chunks \cup DOMAIN closed \cup {open_chunk} : c < d /\ d # c
    BY <1>2, <2>3 DEF Below
  <2>5. c \in files /\ \A d \in files : c <= d
    <3>1. c \in files /\ c \in Nat
      BY <1>2, <2>3
    <3>2. ASSUME NEW d \in files PROVE c <= d
      <4>1. d \in Nat /\ (d \in Leaving(queue)
                           \/ d \in removed_chunks \cup DOMAIN closed \cup {open_chunk})
        BY <1>2
      <4> QED
        BY <2>3, <2>4, <3>1, <4>1
    <3> QED
      BY <3>1, <3>2
  <2>6. Connected(files, recs)'
    <3>1. Wal(recs, snap) /\ ChunksAscend(recs) /\ Start(files, recs)
      BY DiskFacts DEF History
    <3> QED
      BY <1>2, <2>1, <2>2, <2>5, <3>1, ConnectedWithout
  <2>7. FilesAccounted'
    BY <1>2, <2>1, <2>2, <2>3, <2>4 DEF FilesAccounted
  <2>8. InRemovalOrder'
    BY <1>2, <2>2, <2>3 DEF InRemovalOrder, Below
  <2> QED
    BY <1>1, <2>2, <2>6, <2>7, <2>8 DEF FilesInv, OpenSucceeds, FilesReplayed
<1> QED
  BY <1>3, <1>4 DEF FlushWorker

\* A crash cuts the records and drops the files that have none left.
LEMMA CrashFiles ==
  ASSUME RecoveryInv, FilesInv, Fail
  PROVE  FilesInv'
<1>1. PICK n \in synced .. Reach, incomplete \in BOOLEAN : Crash(n, incomplete)
  BY DEF Fail
<1>2. /\ Wal(recs, snap) /\ Len(recs) \in Nat /\ queue \in Seq(Requests)
      /\ Covers(queue, recs) /\ synced \in Nat /\ written \in Nat /\ written <= Len(recs)
      /\ files \subseteq Nat
  BY DiskFacts
<1>3. n \in 0 .. Len(recs)
  <2>1. Serving("Write") => Head(queue).upto \in 1 .. Len(recs)
    BY <1>2, CoversTail DEF Serving
  <2>2. Reach \in 0 .. Len(recs)
    BY <1>2, <2>1 DEF Reach
  <2> QED
    BY <1>2, <2>2
<1>4. status' = "down" /\ recs' = SubSeq(recs, 1, n) /\ files' = {c \in files : c < n}
  BY <1>1 DEF Crash
<1>5. Len(recs') = n /\ \A p \in 1 .. n : p \in 1 .. Len(recs) /\ recs'[p] = recs[p]
  BY <1>2, <1>3, <1>4, PrefixWal DEF CutAt
<1>6. \A p \in 1 .. Len(recs) : recs[p].chunk < p /\ recs[p].chunk \in Nat
  BY <1>2, WalTypes DEF Wal, Led
<1>7. Connected(files, recs)'
  <2>1. SUFFICES ASSUME NEW c \in files, NEW p \in 1 .. n, p > c
                 PROVE  recs[p].chunk \in files /\ recs[p].chunk < n
    BY <1>4, <1>5 DEF Connected
  <2>2. recs[p].chunk \in files
    BY <1>5, <2>1 DEF FilesInv, Connected
  <2> QED
    BY <1>3, <1>5, <1>6, <2>2
<1> QED
  BY <1>4, <1>7 DEF FilesInv, OpenSucceeds, FilesReplayed, FilesAccounted, InRemovalOrder

\* The files connect, so that open goes on to replay them.
LEMMA OpenStartFiles ==
  ASSUME RecoveryInv, FilesInv, OpenStart
  PROVE  FilesInv'
<1>1. /\ status = "down" /\ rp' = (IF files = {} THEN Len(recs) ELSE Oldest)
      /\ open_chunk' = rp' /\ UNCHANGED <<recs, closed, files>>
      /\ status' = (IF files # {} /\ ~NoGap THEN "failed" ELSE "replay")
  BY DEF OpenStart, disk
<1>2. /\ files \subseteq Nat /\ closed = EmptyMap /\ Connected(files, recs)
  BY <1>1, DiskFacts DEF RecoveryInv, StoreInv, MemoryFollows, FilesInv
<1>3. files # {} => /\ Oldest \in files /\ \A d \in files : Oldest <= d
                    /\ Oldest \in Nat /\ NoGap
  BY <1>2, OldestFile DEF Connected, NoGap
<1>4. DOMAIN closed = {}
  BY <1>2 DEF EmptyMap
<1>5. FilesReplayed'
  <2>1. SUFFICES ASSUME files # {}
                 PROVE  Oldest \in files /\ DOMAIN closed = {c \in files : c < Oldest}
    BY <1>1 DEF FilesReplayed
  <2>2. \A c \in files : ~(c < Oldest)
    BY <1>2, <1>3, <2>1
  <2> QED
    BY <1>3, <1>4, <2>1, <2>2
<1> QED
  BY <1>1, <1>2, <1>3, <1>5 DEF FilesInv, OpenSucceeds, FilesAccounted, InRemovalOrder

\* A replay enters a file right behind the one it closes.
LEMMA ReplayFiles ==
  ASSUME RecoveryInv, FilesInv, ReplayRecord, TypeInv'
  PROVE  FilesInv'
<1>1. /\ status = "replay" /\ rp < Len(recs) /\ status' = "replay"
      /\ UNCHANGED <<recs, files>>
  BY ReplayRecovery DEF ReplayRecord, disk
<1>2. PICK e, p : e = recs[rp + 1] /\ p = rp + 1
  OBVIOUS
<1>3. /\ files # {} /\ p \in 1 .. Len(recs) /\ Oldest \in Nat /\ rp >= Oldest
      /\ check(log_state, e.rec) /\ (e.chunk # open_chunk => rp > Oldest)
  BY <1>1, <1>2, ReplayStep
<1>4. /\ open_chunk' = e.chunk
      /\ closed' = (IF e.chunk # open_chunk THEN CloseChunk(closed, open_chunk, log_state)
                    ELSE closed)
  BY <1>1, <1>2, <1>3 DEF ReplayRecord
<1>5. /\ Wal(recs, snap) /\ ChunksAscend(recs) /\ Len(recs) \in Nat /\ rp \in Nat
      /\ files \subseteq Nat /\ Start(files, recs) /\ Connected(files, recs)
      /\ open_chunk \in files /\ DOMAIN closed = {c \in files : c < open_chunk}
      /\ \A q \in 1 .. Len(recs) : recs[q].chunk \in Nat
  BY <1>1, <1>3, DiskFacts, WalTypes DEF History, FilesInv, FilesReplayed
<1>6. CASE e.chunk = open_chunk
  BY <1>1, <1>4, <1>5, <1>6 DEF FilesInv, FilesReplayed, OpenSucceeds, FilesAccounted, InRemovalOrder
<1>7. CASE e.chunk # open_chunk
  <2>1. rp > Oldest /\ open_chunk = recs[rp].chunk
    BY <1>1, <1>3, <1>7 DEF RecoveryInv, StoreInv, ReplayFollows
  <2>2. rp \in 1 .. Len(recs) /\ p = rp + 1 /\ p > Oldest /\ e = recs[p] /\ p > rp
    BY <1>1, <1>2, <1>3, <1>5, <2>1
  <2>3. e.chunk \in files
    BY <1>3, <1>5, <2>2, OldestFile DEF Connected
  <2>4. open_chunk < e.chunk /\ open_chunk \in Nat /\ e.chunk \in Nat
    <3>1. open_chunk <= e.chunk
      BY <1>3, <1>5, <2>1, <2>2 DEF ChunksAscend
    <3>2. open_chunk \in Nat /\ e.chunk \in Nat
      BY <1>5, <2>3
    <3> QED
      BY <1>7, <3>1, <3>2
  <2>5. ASSUME NEW c \in files, c < e.chunk
        PROVE  c < open_chunk \/ c = open_chunk
    <3>1. c \in Nat /\ c + 1 \in 1 .. Len(recs) /\ recs[c + 1].chunk = c
      BY <1>5 DEF Start
    <3>2. CASE c + 1 <= rp
      <4>1. c <= open_chunk
        BY <1>5, <2>1, <2>2, <3>1, <3>2 DEF ChunksAscend
      <4> QED
        BY <2>4, <3>1, <4>1
    <3>3. CASE p <= c + 1
      <4>1. e.chunk <= c
        BY <1>3, <1>5, <2>2, <3>1, <3>3 DEF ChunksAscend
      <4> QED
        BY <2>4, <2>5, <3>1, <4>1
    <3> QED
      BY <1>5, <2>2, <3>1, <3>2, <3>3
  <2>6. DOMAIN closed' = {c \in files : c < e.chunk}
    <3>1. DOMAIN closed' = DOMAIN closed \cup {open_chunk}
      BY <1>4, <1>7 DEF CloseChunk
    <3>2. ASSUME NEW c \in files, c < open_chunk PROVE c < e.chunk
      <4>1. c \in Nat /\ open_chunk \in Nat /\ e.chunk \in Nat
        BY <1>5, <2>3
      <4> QED
        BY <2>4, <3>2, <4>1
    <3> QED
      BY <1>5, <2>4, <2>5, <3>1, <3>2
  <2>7. FilesReplayed'
    BY <1>1, <1>4, <2>3, <2>6 DEF FilesReplayed
  <2> QED
    BY <1>1, <1>5, <2>7 DEF FilesInv, OpenSucceeds, FilesAccounted, InRemovalOrder
<1> QED
  BY <1>6, <1>7

\* open ends with the files it replayed, and a new one where it needs it.
LEMMA OpenFinishFiles ==
  ASSUME RecoveryInv, FilesInv, OpenFinish, TypeInv'
  PROVE  FilesInv'
<1> DEFINE n == Len(recs)
           create == files = {} \/ torn
           chunks == IF torn THEN CloseChunk(closed, open_chunk, log_state) ELSE closed
           removable == Removable(chunks, log_state.purged)
           chunk == IF create THEN n ELSE open_chunk
<1>1. /\ status = "replay" /\ rp = n /\ status' = "up" /\ open_chunk' = chunk
      /\ closed' = [c \in DOMAIN chunks \ removable |-> chunks[c]]
      /\ removed_chunks' = removable /\ files' = files \cup {chunk}
      /\ recs' = (IF create THEN Append(recs, Entry(chunk, CheckpointRecord(log_state)))
                  ELSE recs)
      /\ queue' = queue
  BY DEF OpenFinish, RemovableOnOpen
<1>2. /\ Wal(recs, snap) /\ ChunksAscend(recs) /\ n \in Nat /\ files \subseteq Nat
      /\ IsClosed(closed) /\ open_chunk \in Nat /\ Start(files, recs)
      /\ recs \in Seq(WalEntry)
  BY DiskFacts DEF History, Wal
<1>3. queue = <<>> /\ log_state \in RaftLogState
  BY <1>1 DEF RecoveryInv, TypeInv, TypeOK, Structure, WrittenInRange
<1>4. files # {} => n > 0 /\ n \in 1 .. n /\ open_chunk = recs[n].chunk /\ open_chunk < n
  <2>1. files # {} => n > 0 /\ n \in 1 .. n /\ open_chunk = recs[n].chunk
    BY <1>1, <1>2, ReplayedAll
  <2>2. n > 0 => recs[n].chunk < n
    BY <1>2 DEF Wal, Led
  <2> QED
    BY <2>1, <2>2
<1>5. files = {} => n = 0 /\ ~torn /\ closed = EmptyMap
  BY <1>1, NoFilesNoRecords DEF RecoveryInv, StoreInv, ReplayOfNothing, TornPlace
<1>6. files # {} => /\ open_chunk \in files /\ DOMAIN closed = {c \in files : c < open_chunk}
                    /\ \A c \in files : c < open_chunk \/ c = open_chunk
  <2>1. SUFFICES ASSUME files # {}
                 PROVE  /\ open_chunk \in files
                        /\ DOMAIN closed = {c \in files : c < open_chunk}
                        /\ \A c \in files : c < open_chunk \/ c = open_chunk
    OBVIOUS
  <2>2. open_chunk \in files /\ DOMAIN closed = {c \in files : c < open_chunk}
    BY <1>1, <2>1 DEF FilesInv, FilesReplayed
  <2>3. ASSUME NEW c \in files PROVE c < open_chunk \/ c = open_chunk
    <3>1. c \in Nat /\ c + 1 \in 1 .. n /\ recs[c + 1].chunk = c /\ c + 1 <= n
      BY <1>2 DEF Start
    <3>2. c <= open_chunk
      BY <1>2, <1>4, <2>1, <3>1 DEF ChunksAscend
    <3> QED
      BY <1>2, <3>1, <3>2
  <2> QED
    BY <2>2, <2>3
<1>7. /\ chunk \in Nat /\ IsClosed(chunks) /\ files \cup {chunk} = {chunk} \cup DOMAIN chunks
      /\ \A c \in DOMAIN chunks : c < chunk
  <2>1. CASE files = {}
    <3>1. chunks = EmptyMap /\ DOMAIN EmptyMap = {} /\ chunk = n /\ chunks = closed
      BY <1>5, <2>1 DEF EmptyMap
    <3> HIDE DEF chunks, chunk
    <3> QED
      BY <1>2, <2>1, <3>1
  <2>2. CASE files # {} /\ torn
    <3>1. DOMAIN chunks = DOMAIN closed \cup {open_chunk} /\ chunk = n
      BY <2>2 DEF CloseChunk
    <3>2. IsClosed(chunks)
      BY <1>2, <1>3, CloseChunkType
    <3> HIDE DEF chunks, chunk
    <3>3. \A c \in DOMAIN chunks : c < chunk
      BY <1>2, <1>4, <1>6, <2>2, <3>1
    <3> QED
      BY <1>2, <1>6, <2>2, <3>1, <3>2, <3>3
  <2>3. CASE files # {} /\ ~torn
    <3>1. chunks = closed /\ chunk = open_chunk
      BY <2>3
    <3> HIDE DEF chunks, chunk
    <3> QED
      BY <1>2, <1>6, <2>3, <3>1
  <2> QED
    BY <2>1, <2>2, <2>3
<1>8. Connected(files, recs)'
  <2>1. Connected(files, recs)
    BY DEF FilesInv
  <2>2. CASE create
    <3>1. chunk = n /\ recs' = Append(recs, Entry(n, CheckpointRecord(log_state)))
          /\ files' = files \cup {n}
      BY <1>1, <2>2
    <3>2. PICK e : e = Entry(n, CheckpointRecord(log_state))
      OBVIOUS
    <3>3. e \in WalEntry /\ e.chunk = n
      BY <1>2, <1>3, <3>2 DEF Entry, CheckpointRecord, WalEntry, RaftLogRecord
    <3>4. \A c \in files' \ files : c >= Len(recs)
      BY <1>2, <3>1
    <3>5. files \subseteq files' /\ e.chunk \in files' /\ files' \subseteq Nat
      BY <1>2, <3>1, <3>3
    <3>6. Connected(files', Append(recs, e))
      BY <1>2, <2>1, <3>3, <3>4, <3>5, ConnectedGrows
    <3> QED
      BY <3>1, <3>2, <3>6
  <2>3. CASE ~create
    <3>1. files' = files /\ recs' = recs
      BY <1>1, <1>6, <2>3
    <3> QED
      BY <2>1, <3>1
  <2> QED
    BY <2>2, <2>3
<1> HIDE DEF chunks, chunk, create
<1>9. /\ removable \subseteq DOMAIN chunks /\ Below(removable, DOMAIN chunks \ removable)
      /\ DOMAIN closed' = DOMAIN chunks \ removable
  BY <1>1, <1>7, RemovableOldest DEF Removable
<1> HIDE DEF removable
<1>10. Leaving(queue') = {} /\ RemovalsAscend(queue')
  <2>1. queue' \in Seq(Requests) /\ Len(queue') = 0
    BY <1>1, <1>3
  <2>2. \A k \in 1 .. Len(queue') : FALSE
    BY <2>1
  <2> QED
    BY <2>1, <2>2, LeavingMembers DEF RemovalsAscend
<1>11. FilesAccounted'
  BY <1>1, <1>7, <1>9, <1>10 DEF FilesAccounted
<1>12. InRemovalOrder'
  BY <1>1, <1>7, <1>9, <1>10 DEF InRemovalOrder, Below
<1> QED
  BY <1>1, <1>8, <1>11, <1>12 DEF FilesInv, OpenSucceeds, FilesReplayed

---------------------------------------------------------------------------
(* The invariant holds of every behaviour.                                 *)

\* The empty directory a store is first opened on.
LEMMA InitFiles ==
  ASSUME Init
  PROVE  FilesInv
  BY DEF Init, FilesInv, OpenSucceeds, Connected, FilesReplayed, FilesAccounted, InRemovalOrder

\* Every step of the caller, the FlushWorker, a crash and a recovery.
LEMMA NextFiles ==
  ASSUME RecoveryInv, FilesInv, [Next]_vars, Obliged
  PROVE  FilesInv'
<1>1. TypeInv'
  BY NextType DEF RecoveryInv
<1>2. CASE Caller
  <2>1. ASSUME NEW rec \in RaftLogRecord, Writes(rec)
        PROVE  FilesInv'
    BY <2>1, AppendAndApplyFiles DEF Writes
  <2>2. ASSUME append_reject \/ drain_cache_evictable
        PROVE  FilesInv'
    <3>1. UNCHANGED <<status, recs, open_chunk, closed, removed_chunks, files, queue>>
      BY <2>2 DEF append_reject, drain_cache_evictable, wal, disk, worker
    <3> QED
      BY <3>1, QuietFiles
  <2> QED
    BY <1>2, <2>1, <2>2, CallerSteps, FlushFiles
<1>3. CASE FlushWorker
  BY <1>3, FlushWorkerFiles
<1>4. CASE open
  BY <1>1, <1>4, OpenStartFiles, ReplayFiles, OpenFinishFiles DEF open
<1>5. CASE Fail
  BY <1>5, CrashFiles
<1>6. CASE UNCHANGED vars
  <2>1. UNCHANGED <<status, recs, open_chunk, closed, removed_chunks, files, queue>>
    BY <1>6 DEF vars, wal, disk, worker
  <2> QED
    BY <2>1, QuietFiles
<1> QED
  BY <1>2, <1>3, <1>4, <1>5, <1>6 DEF Next

\* For callers that keep their obligations: the FlushWorker unlinks chunk files
\* oldest first and every file is the open chunk, a closed chunk or on its way
\* out, through any number of crashes and recoveries.
THEOREM FilesInvHolds == Obliged => (Spec => []FilesInv)
<1> SUFFICES ASSUME Obliged
             PROVE  Spec => []FilesInv
  OBVIOUS
<1>1. Init => FilesInv
  BY InitFiles
<1>2. RecoveryInv /\ FilesInv /\ [Next]_vars => FilesInv'
  BY NextFiles
<1>3. Spec => []RecoveryInv
  BY RecoveryInvHolds
<1> QED
  BY <1>1, <1>2, <1>3, PTL DEF Spec

\* RaftLog::open never fails on what a crash left: the files connect and no
\* record is rejected.
THEOREM OpenAlwaysSucceeds == Obliged => (Spec => []OpenSucceeds)
<1>1. FilesInv => OpenSucceeds
  BY DEF FilesInv
<1> QED
  BY <1>1, FilesInvHolds, PTL

\* No chunk file is forgotten: in a running store each is the open chunk, a
\* closed one, in removed_chunks or in a removal that was sent.
THEOREM NoFileForgotten == Obliged => (Spec => []FilesAccounted)
<1>1. FilesInv => FilesAccounted
  BY DEF FilesInv
<1> QED
  BY <1>1, FilesInvHolds, PTL

---------------------------------------------------------------------------
(* Chunks that hold only purged entries do not go unnoticed.               *)

\* The oldest closed chunk that buffer_removable_chunks leaves reaches above
\* the purge point.
LEMMA DrainedEnough ==
  ASSUME NEW chunks, IsClosed(chunks), NEW purged \in OptLogId,
         NEW c \in DOMAIN chunks \ Removable(chunks, purged),
         \A d \in DOMAIN chunks \ Removable(chunks, purged) : c <= d
  PROVE  purged = None \/ Lt(purged, chunks[c].last)
<1>1. SUFFICES ASSUME purged # None PROVE Lt(purged, chunks[c].last)
  OBVIOUS
<1>2. PICK d \in DOMAIN chunks : d <= c /\ ~Le(chunks[d].last, purged)
  BY <1>1 DEF Removable
<1>3. d \in Nat /\ c \in Nat
  BY DEF IsClosed
<1>4. d \notin Removable(chunks, purged)
  <2>1. d <= d
    BY <1>3
  <2> QED
    BY <1>2, <2>1 DEF Removable
<1>5. c = d
  BY <1>2, <1>3, <1>4
<1>6. chunks[c].last \in OptLogId
  BY DEF IsClosed, RaftLogState
<1> QED
  BY <1>2, <1>5, <1>6, IdOrder DEF Le

\* append_and_apply of a record that leaves the purge point alone, or after
\* which the caller runs buffer_removable_chunks.
LEMMA AppendAndApplyBuffers ==
  ASSUME TypeInv, TypeInv', status = "up", ObsoleteChunksBuffered,
         NEW rec \in RaftLogRecord, NEW buffer \in BOOLEAN, append_and_apply(rec, buffer),
         buffer \/ apply_state(log_state, rec).purged = log_state.purged
  PROVE  ObsoleteChunksBuffered'
<1> DEFINE pos == Len(recs) + 1
           st == apply_state(log_state, rec)
           full == pos - open_chunk >= ChunkMaxRecords
           chunks == IF full THEN CloseChunk(closed, open_chunk, st) ELSE closed
           removable == IF full \/ buffer THEN Removable(chunks, st.purged) ELSE {}
<1>2. /\ log_state' = st /\ status' = "up"
      /\ closed' = [c \in DOMAIN chunks \ removable |-> chunks[c]]
      /\ full \/ buffer => removable = Removable(chunks, st.purged)
      /\ ~(full \/ buffer) => removable = {} /\ chunks = closed
  <2>1. removable = IF full \/ buffer THEN Removable(chunks, st.purged) ELSE {}
    OBVIOUS
  <2>2. chunks = IF full THEN CloseChunk(closed, open_chunk, st) ELSE closed
    OBVIOUS
  <2>3. /\ log_state' = st /\ status' = "up"
        /\ closed' = [c \in DOMAIN chunks \ removable |-> chunks[c]]
    BY DEF append_and_apply
  <2> HIDE DEF removable, chunks, full, st
  <2> QED
    BY <2>1, <2>2, <2>3
<1>3. /\ IsClosed(closed) /\ open_chunk \in Nat /\ st \in RaftLogState
      /\ st.purged \in OptLogId
  BY ApplyStateType DEF TypeInv, TypeOK, RaftLogState
<1>4. IsClosed(chunks)
  <2> HIDE DEF st
  <2> QED
    BY <1>3, CloseChunkType
<1> HIDE DEF chunks, full, removable
<1>5. CASE full \/ buffer
  <2>1. SUFFICES ASSUME NEW c \in DOMAIN closed', \A d \in DOMAIN closed' : c <= d
                 PROVE  st.purged = None \/ Lt(st.purged, closed'[c].last)
    BY <1>2 DEF ObsoleteChunksBuffered
  <2>2. DOMAIN closed' = DOMAIN chunks \ Removable(chunks, st.purged)
        /\ closed'[c] = chunks[c]
    BY <1>2, <1>5, <2>1
  <2> QED
    BY <1>3, <1>4, <2>1, <2>2, DrainedEnough
<1>6. CASE ~(full \/ buffer)
  <2>1. closed' = closed
    BY <1>2, <1>3, <1>6 DEF IsClosed
  <2>2. log_state'.purged = log_state.purged
    BY <1>2, <1>6
  <2> QED
    BY <2>1, <2>2 DEF ObsoleteChunksBuffered
<1> QED
  BY <1>5, <1>6

\* A chunk that a purge made obsolete is found at once, and found again after a
\* crash, in a store whose callers never declare a state: update_state moves
\* the purge point without looking for such chunks.
THEOREM ObsoleteChunksFound == RestoreStates = {} => (Spec => []ObsoleteChunksBuffered)
<1> SUFFICES ASSUME RestoreStates = {}
             PROVE  Spec => []ObsoleteChunksBuffered
  OBVIOUS
<1>1. Init => ObsoleteChunksBuffered
  BY DEF Init, ObsoleteChunksBuffered
<1>2. TypeInv /\ ObsoleteChunksBuffered /\ [Next]_vars => ObsoleteChunksBuffered'
  <2>1. SUFFICES ASSUME TypeInv, ObsoleteChunksBuffered, [Next]_vars
                 PROVE  ObsoleteChunksBuffered'
    OBVIOUS
  <2>2. TypeInv'
    BY <2>1, NextType
  <2>3. log_state \in RaftLogState /\ IsLog(log) /\ IsClosed(closed) /\ open_chunk \in Nat
    BY <2>1 DEF TypeInv, TypeOK
  <2>4. ASSUME UNCHANGED <<status, log_state, closed>> PROVE ObsoleteChunksBuffered'
    BY <2>1, <2>4 DEF ObsoleteChunksBuffered
  <2>5. ASSUME NEW rec \in RaftLogRecord, NEW buffer \in BOOLEAN, status = "up",
               append_and_apply(rec, buffer), rec.type = "PurgeUpto" => buffer,
               rec.type = "Checkpoint" => rec.state.purged = log_state.purged
        PROVE  ObsoleteChunksBuffered'
    <3>1. rec.type # "PurgeUpto" => apply_state(log_state, rec).purged = log_state.purged
      BY <2>3, <2>5, ApplyStateCases, RecordTypes DEF truncate_after, RaftLogState
    <3> QED
      BY <2>1, <2>2, <2>5, <3>1, AppendAndApplyBuffers
  <2>6. ASSUME NEW id \in LogId, NEW p \in Payload, status = "up",
               append_and_apply(AppendAction(id, p), FALSE)
        PROVE  ObsoleteChunksBuffered'
    <3>1. AppendAction(id, p) \in RaftLogRecord /\ AppendAction(id, p).type = "Append"
      BY DEF AppendAction, RaftLogRecord
    <3> QED
      BY <2>5, <2>6, <3>1
  <2>7. CASE Caller
    <3>1. ASSUME NEW vote \in Votes, save_vote(vote) PROVE ObsoleteChunksBuffered'
      <4>1. SaveVoteAction(vote) \in RaftLogRecord /\ SaveVoteAction(vote).type = "SaveVote"
        BY InputAssumption DEF SaveVoteAction, RaftLogRecord
      <4> QED
        BY <2>5, <3>1, <4>1 DEF save_vote, Ready
    <3>2. ASSUME NEW user_data \in UserDatas, save_user_data(user_data)
          PROVE  ObsoleteChunksBuffered'
      <4>1. PICK t : t = [log_state EXCEPT !.user_data = user_data]
        OBVIOUS
      <4>2. t \in RaftLogState /\ t.purged = log_state.purged
        BY <2>3, <4>1, InputAssumption DEF RaftLogState
      <4>3. /\ CheckpointRecord(t) \in RaftLogRecord /\ CheckpointRecord(t).state = t
            /\ CheckpointRecord(t).type = "Checkpoint"
        BY <4>2 DEF CheckpointRecord, RaftLogRecord
      <4> QED
        BY <2>5, <3>2, <4>1, <4>2, <4>3 DEF save_user_data, Ready
    <3>3. ASSUME NEW entries \in Batches, append(entries) PROVE ObsoleteChunksBuffered'
      <4>1. entries \in Seq(LogId \X Payload) /\ Len(entries) > 0
        BY InputAssumption, BoundAssumption DEF Batches
      <4>2. entries[1] \in LogId \X Payload
        BY <4>1
      <4>3. entries[1][1] \in LogId /\ entries[1][2] \in Payload
        BY <4>2
      <4> QED
        BY <2>6, <3>3, <4>3 DEF append, Ready
    <3>4. ASSUME append_next PROVE ObsoleteChunksBuffered'
      <4>1. call.rest \in Seq(LogId \X Payload) /\ call.rest # <<>>
        BY <2>1, <3>4 DEF append_next, TypeInv, TypeOK
      <4>2. call.rest[1] \in LogId \X Payload
        BY <4>1
      <4>3. call.rest[1][1] \in LogId /\ call.rest[1][2] \in Payload
        BY <4>2
      <4> QED
        BY <2>6, <3>4, <4>3 DEF append_next
    <3>5. ASSUME NEW index \in Indexes, truncate(index) PROVE ObsoleteChunksBuffered'
      <4>1. PICK keep \in TruncateKeeps(index) :
              append_and_apply(TruncateAfterAction(keep), FALSE)
        BY <3>5 DEF truncate
      <4>2. keep \in OptLogId
        BY <2>3, <4>1, WellFormedTypes DEF TruncateKeeps
      <4>3. /\ TruncateAfterAction(keep) \in RaftLogRecord
            /\ TruncateAfterAction(keep).type = "TruncateAfter"
        BY <4>2 DEF TruncateAfterAction, RaftLogRecord
      <4> QED
        BY <2>5, <3>5, <4>1, <4>3 DEF truncate, Ready
    <3>6. ASSUME NEW id \in LogIds, purge(id) PROVE ObsoleteChunksBuffered'
      <4>1. PurgeUptoAction(id) \in RaftLogRecord /\ PurgeUptoAction(id).type = "PurgeUpto"
        BY InputAssumption DEF PurgeUptoAction, RaftLogRecord
      <4> QED
        BY <2>5, <3>6, <4>1 DEF purge, Ready
    <3>7. ASSUME NEW id \in LogIds, commit(id) PROVE ObsoleteChunksBuffered'
      <4>1. CommitAction(id) \in RaftLogRecord /\ CommitAction(id).type = "Commit"
        BY InputAssumption DEF CommitAction, RaftLogRecord
      <4> QED
        BY <2>5, <3>7, <4>1 DEF commit, Ready
    <3>8. CASE append_reject \/ drain_cache_evictable \/ \E sync \in BOOLEAN : flush(sync)
      BY <2>4, <3>8 DEF append_reject, drain_cache_evictable, flush, wal, mem
    <3> QED
      BY <2>7, <3>1, <3>2, <3>3, <3>4, <3>5, <3>6, <3>7, <3>8 DEF Caller
  <2>8. CASE FlushWorker
    BY <2>4, <2>8 DEF FlushWorker, WorkerWrite, WorkerSync, WorkerRemove, wal, mem
  <2>9. CASE open
    <3>1. CASE OpenFinish
      <4> DEFINE chunks == IF torn THEN CloseChunk(closed, open_chunk, log_state) ELSE closed
      <4>1. /\ log_state' = log_state
            /\ closed' = [c \in DOMAIN chunks \ Removable(chunks, log_state.purged)
                            |-> chunks[c]]
        BY <3>1 DEF OpenFinish, RemovableOnOpen
      <4>2. IsClosed(chunks) /\ log_state.purged \in OptLogId
        BY <2>3, CloseChunkType DEF RaftLogState
      <4> HIDE DEF chunks
      <4>3. SUFFICES ASSUME NEW c \in DOMAIN closed', \A d \in DOMAIN closed' : c <= d
                     PROVE  \/ log_state.purged = None
                            \/ Lt(log_state.purged, closed'[c].last)
        BY <4>1 DEF ObsoleteChunksBuffered
      <4>4. /\ DOMAIN closed' = DOMAIN chunks \ Removable(chunks, log_state.purged)
            /\ closed'[c] = chunks[c]
        BY <4>1, <4>3
      <4> QED
        BY <4>2, <4>3, <4>4, DrainedEnough
    <3>2. CASE OpenStart \/ ReplayRecord
      BY <3>2 DEF OpenStart, ReplayRecord, ObsoleteChunksBuffered
    <3> QED
      BY <2>9, <3>1, <3>2 DEF open
  <2>10. CASE Fail
    BY <2>10 DEF Fail, Crash, ObsoleteChunksBuffered
  <2>11. CASE UNCHANGED vars
    BY <2>4, <2>11 DEF vars, mem, wal
  <2> QED
    BY <2>1, <2>7, <2>8, <2>9, <2>10, <2>11 DEF Next
<1>3. Spec => []TypeInv
  BY StructureHolds
<1> QED
  BY <1>1, <1>2, <1>3, PTL DEF Spec
=============================================================================
