------------------------- MODULE RaftLogRefinementProofs -------------------------
(***************************************************************************)
(* The store implements DurableLog: every step of a caller, the            *)
(* FlushWorker, a crash or a replay is a step of the abstract store, or    *)
(* nothing the node can notice.                                            *)
(***************************************************************************)
EXTENDS RaftLogCacheProofs, RaftLogRefinement

---------------------------------------------------------------------------
(* The contents of a history.                                              *)

\* What position p of records r, with views h, stands for.
Told(r, h, p) ==
  [marks |-> h[p].log_state,
   entries |-> [i \in DOMAIN h[p].log |->
                  Shown(h[p].log[i], r[h[p].log[i].segment].rec.payload)]]

Past(r, h) == [p \in 1 .. Len(h) |-> Told(r, h, p)]

\* The content the node sees.
Seen == IF status = "up" THEN Served ELSE [marks |-> default_state, entries |-> EmptyMap]

\* A running store shows what its records stand for.
Serves == status = "up" => Served = Told(recs, snap, Len(recs))

\* DurableLog's names mean the same as the ones of this development.
LEMMA SameNames ==
  /\ Abstract!None = None /\ Abstract!EmptyMap = EmptyMap
  /\ Abstract!default_state = default_state
  /\ \A a, b : (Abstract!Lt(a, b) <=> Lt(a, b)) /\ (Abstract!Le(a, b) <=> Le(a, b))
  /\ \A a : Abstract!log_index(a) = log_index(a) /\ Abstract!next_log_index(a) = next_log_index(a)
  BY DEF Abstract!None, None, Abstract!EmptyMap, EmptyMap, Abstract!default_state,
         default_state, Abstract!NoVote, NoVote, Abstract!NoUserData, NoUserData,
         Abstract!Lt, Lt, Abstract!Le, Le, Abstract!log_index, log_index,
         Abstract!next_log_index, next_log_index

\* A content depends on the records up to it only.
LEMMA ToldKept ==
  ASSUME NEW r, NEW h, Wal(r, h), History(r, h), NEW p \in 1 .. Len(r),
         NEW rr, NEW hh, \A q \in 1 .. p : rr[q] = r[q], hh[p] = h[p]
  PROVE  Told(rr, hh, p) = Told(r, h, p)
<1>1. \A i \in DOMAIN h[p].log : h[p].log[i].segment \in 1 .. p
  BY DEF History, EntriesPlaced
<1>2. \A i \in DOMAIN h[p].log :
        rr[h[p].log[i].segment].rec.payload = r[h[p].log[i].segment].rec.payload
  BY <1>1
<1> QED
  BY <1>2 DEF Told

\* A cached payload is the one of the record its entry points to.
LEMMA ServesHolds ==
  ASSUME RecoveryInv, CacheInv
  PROVE  Serves
<1>1. SUFFICES ASSUME status = "up"
               PROVE  Served = Told(recs, snap, Len(recs))
  BY DEF Serves
<1>2. log_state = snap[Len(recs)].log_state /\ log = snap[Len(recs)].log
  BY <1>1 DEF RecoveryInv, StoreInv, MemoryFollows
<1>3. ASSUME NEW i \in DOMAIN log
      PROVE  read_payload(log[i]) = recs[log[i].segment].rec.payload
  BY <1>1, <1>3, PayloadServed DEF load_record
<1> QED
  BY <1>2, <1>3 DEF Served, Told

---------------------------------------------------------------------------
(* Every record a caller writes is a legal write of the abstract store.    *)

\* Entries e are what a node is told of log map l, and f of ll: an entry that
\* stays is told the same.
Tells(l, e) ==
  /\ e = [i \in DOMAIN l |-> e[i]]
  /\ \A i \in DOMAIN l : e[i].log_id = l[i].log_id

StaysTold(l, e, ll, f) ==
  /\ Tells(l, e) /\ Tells(ll, f)
  /\ \A i \in DOMAIN l \cap DOMAIN ll : ll[i] = l[i] => f[i] = e[i]

Content(s, e) == [marks |-> s, entries |-> e]

\* Where the log map stays, a node is told the same.
LEMMA SameEntries ==
  ASSUME NEW l, NEW e, NEW f, StaysTold(l, e, l, f)
  PROVE  e = f
<1>1. \A i \in DOMAIN l : f[i] = e[i]
  BY DEF StaysTold
<1>2. e = [i \in DOMAIN l |-> e[i]] /\ f = [i \in DOMAIN l |-> f[i]]
  BY DEF StaysTold, Tells
<1>3. [i \in DOMAIN l |-> e[i]] = [i \in DOMAIN l |-> f[i]]
  BY <1>1
<1> QED
  BY <1>2, <1>3

\* append
LEMMA AppendLegal ==
  ASSUME NEW s \in RaftLogState, NEW l, IsLog(l), WellFormed(s, l), NEW e,
         NEW id \in LogId, check_append(s, id), NEW data, data.log_id = id,
         NEW f, StaysTold(l, e, InsertLog(l, log_index(id), data), f)
  PROVE  Abstract!Legal(Content(s, e), Content([s EXCEPT !.last = id], f))
<1>1. PICK c, d, t, ll, j : /\ c = Content(s, e) /\ t = [s EXCEPT !.last = id]
                            /\ d = Content(t, f) /\ j = log_index(id)
                            /\ ll = InsertLog(l, j, data)
  OBVIOUS
<1>2. /\ c.marks = s /\ c.entries = e /\ d.marks = t /\ d.entries = f /\ t.last = id
  BY <1>1 DEF Content, RaftLogState
<1>3. /\ DOMAIN e = DOMAIN l /\ DOMAIN f = DOMAIN l \cup {j} /\ ll[j] = data
      /\ f[j].log_id = id /\ \A i \in DOMAIN l : i # j => f[i] = e[i]
  <2>1. DOMAIN ll = DOMAIN l \cup {j} /\ ll[j] = data /\ \A i \in DOMAIN l : i # j => ll[i] = l[i]
    BY <1>1 DEF InsertLog
  <2>2. StaysTold(l, e, ll, f)
    BY <1>1
  <2>3. /\ e = [i \in DOMAIN l |-> e[i]] /\ f = [i \in DOMAIN ll |-> f[i]]
        /\ \A i \in DOMAIN ll : f[i].log_id = ll[i].log_id
    BY <2>2 DEF StaysTold, Tells
  <2>4. DOMAIN e = DOMAIN l /\ DOMAIN f = DOMAIN ll
    BY <2>3
  <2> QED
    BY <2>1, <2>2, <2>3, <2>4 DEF StaysTold
<1>4. j \notin DOMAIN l
  <2>1. s.last \in OptLogId /\ j \in Nat
    BY <1>1, LogDataType DEF RaftLogState
  <2>2. ASSUME j \in DOMAIN l PROVE FALSE
    <3>1. j <= log_index(s.last) /\ log_index(s.last) \in DOMAIN l
      BY <2>2 DEF WellFormed, LogFits
    <3>2. log_index(s.last) \in Int /\ (s.last = None => log_index(s.last) = -1)
          /\ next_log_index(s.last) = log_index(s.last) + 1
      BY <2>1, IdIndex
    <3> QED
      BY <1>1, <2>1, <3>1, <3>2 DEF check_append
  <2> QED
    BY <2>2
<1>5. \A i \in DOMAIN e : f[i] = e[i]
  BY <1>3, <1>4
<1>6. Lt(s.last, id) /\ (s.last = None \/ log_index(id) = next_log_index(s.last))
  BY DEF check_append
<1>7. Abstract!Appends(c, d)
  BY <1>1, <1>2, <1>3, <1>5, <1>6, SameNames DEF Abstract!Appends
<1> QED
  BY <1>1, <1>7 DEF Abstract!Legal

\* save_vote, commit, save_user_data
LEMMA MarksLegal ==
  ASSUME NEW s \in RaftLogState, NEW e, NEW rec \in RaftLogRecord, check(s, rec),
         NEW t, t = apply_state(s, rec),
         \/ rec.type \in {"SaveVote", "Commit"}
         \/ rec.type = "Checkpoint" /\ \E u \in UserDatas : rec.state = [s EXCEPT !.user_data = u]
  PROVE  Abstract!Legal(Content(s, e), Content(t, e))
<1>1. PICK c, d : c = Content(s, e) /\ d = Content(t, e)
  OBVIOUS
<1>2. /\ c.marks = s /\ d.marks = t
  BY <1>1 DEF Content
<1>3. CASE rec.type = "SaveVote"
  <2>1. t = [s EXCEPT !.vote = rec.vote] /\ t.vote = rec.vote /\ rec.vote >= s.vote
    BY <1>3, ApplyStateCases DEF check, check_vote, RaftLogState
  <2>2. d = [c EXCEPT !.marks.vote = t.vote]
    BY <1>1, <2>1 DEF Content
  <2>3. Abstract!SavesVote(c, d)
    BY <1>2, <2>1, <2>2 DEF Abstract!SavesVote
  <2> QED
    BY <1>1, <2>3 DEF Abstract!Legal
<1>4. CASE rec.type = "Commit"
  <2>1. /\ t = [s EXCEPT !.committed = rec.log_id] /\ t.committed = rec.log_id
        /\ t.last = s.last /\ Le(s.committed, rec.log_id) /\ Le(rec.log_id, s.last)
    BY <1>4, ApplyStateCases DEF check, check_commit, RaftLogState
  <2>2. d = [c EXCEPT !.marks.committed = t.committed]
    BY <1>1, <2>1 DEF Content
  <2>3. Abstract!Commits(c, d)
    BY <1>2, <2>1, <2>2, SameNames DEF Abstract!Commits
  <2> QED
    BY <1>1, <2>3 DEF Abstract!Legal
<1>5. CASE rec.type = "Checkpoint" /\ \E u \in UserDatas : rec.state = [s EXCEPT !.user_data = u]
  <2>1. PICK u : t = [s EXCEPT !.user_data = u]
    BY <1>5, ApplyStateCases
  <2>2. t.user_data = u
    BY <2>1 DEF RaftLogState
  <2>3. d = [c EXCEPT !.marks.user_data = t.user_data]
    BY <1>1, <2>1, <2>2 DEF Content
  <2>4. Abstract!SavesUserData(c, d)
    BY <1>2, <2>3 DEF Abstract!SavesUserData
  <2> QED
    BY <1>1, <2>4 DEF Abstract!Legal
<1> QED
  BY <1>3, <1>4, <1>5

\* What stays of the entries when the log map is restricted.
LEMMA KeepsRestricted ==
  ASSUME NEW l, NEW e, NEW S, NEW f, StaysTold(l, e, RestrictLog(l, S), f),
         NEW T, \A i \in DOMAIN l : i \in S <=> i \in T, T \subseteq DOMAIN l,
         NEW s, NEW t
  PROVE  Abstract!Keeps(Content(s, e), Content(t, f), T)
<1>1. PICK ll : ll = RestrictLog(l, S)
  OBVIOUS
<1>2. DOMAIN ll = DOMAIN l \cap S /\ \A i \in DOMAIN ll : ll[i] = l[i]
  BY <1>1 DEF RestrictLog
<1>3. f = [i \in DOMAIN ll |-> f[i]] /\ \A i \in DOMAIN ll : f[i] = e[i]
  BY <1>1, <1>2 DEF StaysTold, Tells
<1>4. DOMAIN f = T
  BY <1>2, <1>3
<1> QED
  BY <1>2, <1>3, <1>4 DEF Abstract!Keeps, Content

\* truncate
LEMMA TruncateLegal ==
  ASSUME NEW s \in RaftLogState, NEW l, IsLog(l), WellFormed(s, l), NEW e,
         NEW keep \in OptLogId, check_truncate(s, keep),
         keep = s.purged \/ \E k \in DOMAIN l : keep = l[k].log_id,
         NEW f, StaysTold(l, e, RestrictLog(l, {i \in DOMAIN l : i < next_log_index(keep)}), f)
  PROVE  Abstract!Legal(Content(s, e), Content(truncate_after(s, keep), f))
<1>1. PICK c, d, t, T : /\ c = Content(s, e) /\ t = truncate_after(s, keep)
                        /\ d = Content(t, f)
                        /\ T = {i \in DOMAIN e : Le(e[i].log_id, t.last)}
  OBVIOUS
<1>2. c.marks = s /\ c.entries = e /\ d.marks = t
  BY <1>1 DEF Content
<1>3. /\ t.last = (IF Lt(keep, s.last) THEN keep ELSE s.last)
      /\ t = [s EXCEPT !.last = t.last]
  BY <1>1 DEF truncate_after, RaftLogState
<1>4. /\ s.last \in OptLogId /\ s.committed \in OptLogId /\ s.purged \in OptLogId
      /\ t.last \in OptLogId
  BY <1>3 DEF RaftLogState
<1>5. Le(s.committed, keep) /\ Le(s.committed, s.last)
  BY DEF check_truncate, WellFormed, MarksInOrder
<1>6. Le(s.committed, t.last) /\ Le(t.last, s.last) /\ Le(t.last, keep)
  <2>1. Lt(keep, s.last) \/ Le(s.last, keep)
    BY <1>4, IdOrder DEF Le
  <2> QED
    BY <1>3, <1>5, <2>1 DEF Le
<1>7. DOMAIN e = DOMAIN l /\ \A i \in DOMAIN l : e[i].log_id = l[i].log_id
  <2>1. e = [i \in DOMAIN l |-> e[i]] /\ \A i \in DOMAIN l : e[i].log_id = l[i].log_id
    BY DEF StaysTold, Tells
  <2> QED
    BY <2>1
<1>8. ASSUME NEW i \in DOMAIN l PROVE i < next_log_index(keep) <=> Le(l[i].log_id, t.last)
  <2>1. /\ i \in Nat /\ l[i].log_id \in OptLogId /\ log_index(keep) \in Int
        /\ next_log_index(keep) = log_index(keep) + 1
    BY WellFormedTypes, IdIndex
  <2>2. ASSUME i < next_log_index(keep) PROVE Le(l[i].log_id, t.last)
    <3>1. PICK ll : ll = RestrictLog(l, {j \in DOMAIN l : j < next_log_index(keep)})
      OBVIOUS
    <3>2. IsLog(ll) /\ WellFormed(t, ll) /\ i \in DOMAIN ll /\ ll[i] = l[i]
      <4>1. WellFormed(t, ll)
        BY <1>1, <3>1, TruncateWellFormed
      <4>2. IsLog(ll)
        BY <3>1, RestrictLogType
      <4> QED
        BY <2>2, <3>1, <4>1, <4>2 DEF RestrictLog
    <3>3. Le(ll[i].log_id, t.last)
      BY <3>2, EntriesUpToLast
    <3> QED
      BY <3>2, <3>3
  <2>3. ASSUME Le(l[i].log_id, t.last) PROVE i < next_log_index(keep)
    <3>1. Le(l[i].log_id, keep)
      BY <1>4, <1>6, <2>1, <2>3, IdOrder DEF Le
    <3>2. CASE keep = s.purged
      <4>1. Lt(s.purged, l[i].log_id)
        BY DEF WellFormed, LogFits
      <4> QED
        BY <1>4, <2>1, <3>1, <3>2, <4>1, IdOrder DEF Le
    <3>3. ASSUME NEW k \in DOMAIN l, keep = l[k].log_id PROVE i < next_log_index(keep)
      <4>1. log_index(keep) = k /\ k \in Nat
        BY <3>3, WellFormedTypes DEF WellFormed, LogIsRun
      <4>2. ASSUME k < i PROVE FALSE
        <5>1. Lt(keep, l[i].log_id)
          BY <3>3, <4>2 DEF WellFormed, LogIsRun
        <5> QED
          BY <2>1, <3>1, <5>1, IdOrder DEF Le
      <4> QED
        BY <2>1, <4>1, <4>2
    <3> QED
      BY <3>2, <3>3
  <2> QED
    BY <2>2, <2>3
<1>9. Abstract!Keeps(c, d, T)
  <2>1. PICK S : S = {i \in DOMAIN l : i < next_log_index(keep)}
    OBVIOUS
  <2>2. StaysTold(l, e, RestrictLog(l, S), f)
    BY <2>1
  <2>3. (\A i \in DOMAIN l : i \in S <=> i \in T) /\ T \subseteq DOMAIN l
    BY <1>1, <1>7, <1>8, <2>1
  <2> QED
    BY <1>1, <2>2, <2>3, KeepsRestricted
<1>10. T = {i \in DOMAIN c.entries : Abstract!Le(c.entries[i].log_id, d.marks.last)}
  BY <1>1, <1>2, SameNames
<1>11. Abstract!Truncates(c, d)
  BY <1>2, <1>3, <1>6, <1>9, <1>10, SameNames DEF Abstract!Truncates
<1> QED
  BY <1>1, <1>11 DEF Abstract!Legal

\* purge
LEMMA PurgeLegal ==
  ASSUME NEW s \in RaftLogState, NEW l, IsLog(l), WellFormed(s, l), NEW e,
         NEW id \in LogId, \A i \in DOMAIN l : Agrees(id, l[i].log_id),
         NEW f, StaysTold(l, e, RestrictLog(l, {i \in DOMAIN l : i >= next_log_index(id)}), f)
  PROVE  Abstract!Legal(Content(s, e), Content(purge_state(s, id), f))
<1>1. PICK c, d, t, T : /\ c = Content(s, e) /\ t = purge_state(s, id)
                        /\ d = Content(t, f)
                        /\ T = {i \in DOMAIN e : Lt(t.purged, e[i].log_id)}
  OBVIOUS
<1>2. c.marks = s /\ c.entries = e /\ d.marks = t
  BY <1>1 DEF Content
<1>3. /\ t.purged = (IF Lt(s.purged, id) THEN id ELSE s.purged)
      /\ t = [s EXCEPT !.purged = t.purged,
                       !.last = IF Lt(s.last, id) THEN id ELSE s.last]
  BY <1>1 DEF purge_state, RaftLogState
<1>4. /\ s.last \in OptLogId /\ s.purged \in OptLogId /\ id \in OptLogId /\ Le(s.purged, s.last)
  BY DEF RaftLogState, OptLogId, WellFormed, MarksInOrder
<1>5. Le(s.purged, t.purged)
  BY <1>3 DEF Le
<1>6. (IF Lt(s.last, id) THEN id ELSE s.last)
        = (IF Lt(s.last, t.purged) THEN t.purged ELSE s.last)
  <2>1. CASE Lt(s.purged, id)
    BY <1>3, <2>1
  <2>2. CASE ~Lt(s.purged, id)
    <3>1. ~Lt(s.last, id) /\ ~Lt(s.last, s.purged)
      BY <1>4, <2>2, IdOrder DEF Le
    <3> QED
      BY <1>3, <2>2, <3>1
  <2> QED
    BY <2>1, <2>2
<1>7. DOMAIN e = DOMAIN l /\ \A i \in DOMAIN l : e[i].log_id = l[i].log_id
  <2>1. e = [i \in DOMAIN l |-> e[i]] /\ \A i \in DOMAIN l : e[i].log_id = l[i].log_id
    BY DEF StaysTold, Tells
  <2> QED
    BY <2>1
<1>8. ASSUME NEW i \in DOMAIN l PROVE i >= next_log_index(id) <=> Lt(t.purged, l[i].log_id)
  <2>1. /\ i \in Nat /\ l[i].log_id \in OptLogId /\ log_index(id) \in Int
        /\ next_log_index(id) = log_index(id) + 1
    BY <1>4, WellFormedTypes, IdIndex
  <2>2. log_index(l[i].log_id) = i /\ Lt(s.purged, l[i].log_id)
    BY DEF WellFormed, LogIsRun, LogFits
  <2>3. Lt(id, l[i].log_id) <=> i >= next_log_index(id)
    BY <2>1, <2>2 DEF Agrees
  <2>4. CASE Lt(s.purged, id)
    BY <1>3, <2>3, <2>4
  <2>5. CASE ~Lt(s.purged, id)
    <3>1. Lt(id, l[i].log_id)
      BY <1>4, <2>1, <2>2, <2>5, IdOrder
    <3> QED
      BY <1>3, <2>2, <2>3, <2>5, <3>1
  <2> QED
    BY <2>4, <2>5
<1>9. Abstract!Keeps(c, d, T)
  <2>1. PICK S : S = {i \in DOMAIN l : i >= next_log_index(id)}
    OBVIOUS
  <2>2. StaysTold(l, e, RestrictLog(l, S), f)
    BY <2>1
  <2>3. (\A i \in DOMAIN l : i \in S <=> i \in T) /\ T \subseteq DOMAIN l
    BY <1>1, <1>7, <1>8, <2>1
  <2> QED
    BY <1>1, <2>2, <2>3, KeepsRestricted
<1>10. T = {i \in DOMAIN c.entries : Abstract!Lt(d.marks.purged, c.entries[i].log_id)}
  BY <1>1, <1>2, SameNames
<1>11. t = [s EXCEPT !.purged = t.purged,
                     !.last = IF Abstract!Lt(@, t.purged) THEN t.purged ELSE @]
  BY <1>3, <1>6, SameNames
<1>12. Abstract!Purges(c, d)
  BY <1>2, <1>5, <1>9, <1>10, <1>11, SameNames DEF Abstract!Purges
<1> QED
  BY <1>1, <1>12 DEF Abstract!Legal

\* update_state
LEMMA RestoreLegal ==
  ASSUME NEW s \in RaftLogState, NEW l, IsLog(l), WellFormed(s, l), NEW e, Tells(l, e),
         NEW t, WellFormed(t, l), t.vote >= s.vote, check_checkpoint(l, t),
         Le(s.last, t.last), Le(s.purged, t.purged)
  PROVE  Abstract!Legal(Content(s, e), Content(t, e))
<1>1. PICK c, d : c = Content(s, e) /\ d = Content(t, e)
  OBVIOUS
<1>2. c.marks = s /\ c.entries = e /\ d.marks = t /\ d.entries = e
  BY <1>1 DEF Content
<1>3. DOMAIN e = DOMAIN l /\ \A i \in DOMAIN l : e[i].log_id = l[i].log_id
  <2>1. e = [i \in DOMAIN l |-> e[i]] /\ \A i \in DOMAIN l : e[i].log_id = l[i].log_id
    BY DEF Tells
  <2> QED
    BY <2>1
<1>4. ASSUME NEW i \in DOMAIN l PROVE t.last = s.last /\ Lt(t.purged, l[i].log_id)
  <2>1. PICK j : j = log_index(s.last)
    OBVIOUS
  <2>2. /\ j \in DOMAIN l /\ l[j].log_id = s.last /\ j \in Nat
        /\ \A k \in DOMAIN l : k <= j
    BY <2>1 DEF WellFormed, LogFits, IsLog
  <2>3. PICK m \in DOMAIN l : (\A k \in DOMAIN l : k <= m) /\ l[m].log_id = t.last
    BY DEF check_checkpoint
  <2>4. m = j
    <3>1. m \in Nat /\ m <= j /\ j <= m
      BY <2>2, <2>3 DEF IsLog
    <3> QED
      BY <2>2, <3>1
  <2> QED
    BY <2>2, <2>3, <2>4 DEF WellFormed, LogFits
<1>5. Abstract!Restores(c, d)
  BY <1>2, <1>3, <1>4, SameNames DEF Abstract!Restores
<1> QED
  BY <1>1, <1>5 DEF Abstract!Legal

\* Every record that callers who keep their obligations write.
LEMMA WriteLegal ==
  ASSUME RecoveryInv, status = "up", NEW rec \in RaftLogRecord, Issued(rec),
         check(log_state, rec), NEW t, t = apply_state(log_state, rec),
         NEW ll, ll = apply_log(log, rec, open_chunk, Len(recs) + 1),
         NEW e, NEW f, StaysTold(log, e, ll, f)
  PROVE  Abstract!Legal(Content(log_state, e), Content(t, f))
<1>1. log_state \in RaftLogState /\ IsLog(log) /\ WellFormed(log_state, log)
  BY UpFacts
<1>2. Proper(log_state, log, rec)
  BY DEF Issued
<1>3. CASE rec.type = "Append"
  <2>1. PICK id, data : id = rec.log_id /\ data = NewLogData(id, open_chunk, Len(recs) + 1)
    OBVIOUS
  <2>2. id \in LogId /\ data.log_id = id /\ check_append(log_state, id)
    BY <1>3, <2>1, RecordTypes DEF check, NewLogData
  <2>3. ll = InsertLog(log, log_index(id), data)
    BY <1>3, <2>1, Zenon DEF apply_log
  <2>4. t = [log_state EXCEPT !.last = id]
    BY <1>3, <2>1, ApplyStateCases
  <2> QED
    BY <1>1, <2>2, <2>3, <2>4, AppendLegal
<1>4. CASE rec.type = "TruncateAfter"
  <2>1. PICK keep : keep = rec.log_id
    OBVIOUS
  <2>2. /\ keep \in OptLogId /\ check_truncate(log_state, keep)
        /\ keep = log_state.purged \/ \E k \in DOMAIN log : keep = log[k].log_id
    BY <1>2, <1>4, <2>1, RecordTypes DEF check, Proper
  <2>3. ll = RestrictLog(log, {i \in DOMAIN log : i < next_log_index(keep)})
    BY <1>4, <2>1, Zenon DEF apply_log
  <2>4. t = truncate_after(log_state, keep)
    BY <1>4, <2>1, ApplyStateCases
  <2> QED
    BY <1>1, <2>2, <2>3, <2>4, TruncateLegal
<1>5. CASE rec.type = "PurgeUpto"
  <2>1. PICK id : id = rec.log_id
    OBVIOUS
  <2>2. id \in LogId /\ \A i \in DOMAIN log : Agrees(id, log[i].log_id)
    BY <1>2, <1>5, <2>1, RecordTypes DEF Proper
  <2>3. ll = RestrictLog(log, {i \in DOMAIN log : i >= next_log_index(id)})
    BY <1>5, <2>1, Zenon DEF apply_log
  <2>4. t = purge_state(log_state, id)
    BY <1>5, <2>1, ApplyStateCases
  <2> QED
    BY <1>1, <2>2, <2>3, <2>4, PurgeLegal
<1>6. CASE rec.type \in {"SaveVote", "Commit", "Checkpoint"}
  <2>1. ll = log
    BY <1>6, Zenon DEF apply_log
  <2>2. e = f
    BY <2>1, SameEntries
  <2>3. CASE \/ rec.type \in {"SaveVote", "Commit"}
             \/ /\ rec.type = "Checkpoint"
                /\ \E u \in UserDatas : rec.state = [log_state EXCEPT !.user_data = u]
    BY <1>1, <2>2, <2>3, MarksLegal
  <2>4. CASE /\ rec.type = "Checkpoint" /\ check_checkpoint(log, rec.state)
             /\ Le(log_state.last, rec.state.last) /\ Le(log_state.purged, rec.state.purged)
    <3>1. t = rec.state /\ WellFormed(t, log) /\ t.vote >= log_state.vote
      BY <1>2, <2>4, ApplyStateCases DEF Proper
    <3>2. Tells(log, e)
      BY DEF StaysTold
    <3>3. /\ check_checkpoint(log, t) /\ Le(log_state.last, t.last)
          /\ Le(log_state.purged, t.purged)
      BY <2>4, <3>1
    <3> QED
      BY <1>1, <2>2, <3>1, <3>2, <3>3, RestoreLegal
  <2> QED
    BY <1>6, <2>3, <2>4 DEF Issued
<1> QED
  BY <1>3, <1>4, <1>5, <1>6, RecordTypes

---------------------------------------------------------------------------
(* The steps.                                                              *)

\* What DurableLog's variables stand for.
LEMMA AbstractState ==
  /\ Abstract!absvars = <<status = "up", Seen, Past(recs, snap), synced, acked>>
  /\ Abstract!Empty = Content(default_state, EmptyMap)
  BY SameNames DEF Abstract!absvars, Seen, Past, Told, Recorded, load_record, Abstract!Empty,
         Abstract!Content, Content

\* A sequence that goes on one further than another.
LEMMA OneMore ==
  ASSUME NEW S, NEW g \in Seq(S), NEW k \in Seq(S), Len(k) = Len(g) + 1,
         \A p \in 1 .. Len(g) : k[p] = g[p]
  PROVE  k = Append(g, k[Len(g) + 1])
<1>1. Len(g) \in Nat /\ k[Len(g) + 1] \in S
  OBVIOUS
<1>2. PICK a : a = Append(g, k[Len(g) + 1])
  OBVIOUS
<1>3. a \in Seq(S) /\ Len(a) = Len(k) /\ \A p \in 1 .. Len(k) : a[p] = k[p]
  <2>1. /\ a \in Seq(S) /\ Len(a) = Len(g) + 1 /\ a[Len(g) + 1] = k[Len(g) + 1]
        /\ \A p \in 1 .. Len(g) : a[p] = g[p]
    BY <1>1, <1>2
  <2> QED
    BY <1>1, <2>1
<1>4. a = k
  BY <1>3, SeqEqual
<1> QED
  BY <1>2, <1>4

\* The contents of a history, one by one.
LEMMA PastShape ==
  ASSUME NEW r, NEW h, Len(h) \in Nat, NEW S, \A p \in 1 .. Len(h) : Told(r, h, p) \in S
  PROVE  /\ Past(r, h) \in Seq(S) /\ Len(Past(r, h)) = Len(h)
         /\ \A p \in 1 .. Len(h) : Past(r, h)[p] = Told(r, h, p)
  BY DEF Past

\* A history that begins with the records of another one tells its contents
\* first.
LEMMA PastKept ==
  ASSUME NEW r, NEW h, Wal(r, h), History(r, h), NEW rr, NEW hh, NEW n \in Nat, n <= Len(r),
         \A p \in 1 .. n : rr[p] = r[p] /\ hh[p] = h[p]
  PROVE  \A p \in 1 .. n : Told(rr, hh, p) = Told(r, h, p)
<1> SUFFICES ASSUME NEW p \in 1 .. n
             PROVE  Told(rr, hh, p) = Told(r, h, p)
  OBVIOUS
<1>1. Len(r) \in Nat
  BY WalTypes
<1>2. p \in 1 .. Len(r) /\ \A q \in 1 .. p : q \in 1 .. n
  BY <1>1
<1> QED
  BY <1>2, ToldKept

\* One record more is remembered as one content more.
LEMMA PastGrows ==
  ASSUME NEW r, NEW h, Wal(r, h), History(r, h), NEW rr, NEW hh,
         \A p \in 1 .. Len(r) : rr[p] = r[p] /\ hh[p] = h[p], NEW d
  PROVE  /\ Len(hh) = Len(r) + 1 /\ Told(rr, hh, Len(r) + 1) = d =>
              Past(rr, hh) = Append(Past(r, h), d)
         /\ /\ Len(hh) = Len(r) + 2
            /\ Told(rr, hh, Len(r) + 1) = d /\ Told(rr, hh, Len(r) + 2) = d
            => Past(rr, hh) = Append(Append(Past(r, h), d), d)
<1>1. PICK n, g, k : n = Len(r) /\ g = Past(r, h) /\ k = Past(rr, hh)
  OBVIOUS
<1>2. n \in Nat /\ Len(h) = n
  BY <1>1, WalTypes DEF Wal
<1>3. PICK S : S = {Told(r, h, p) : p \in 1 .. n} \cup {d}
  OBVIOUS
<1>4. /\ \A p \in 1 .. n : Told(r, h, p) \in S /\ Told(rr, hh, p) = Told(r, h, p)
      /\ d \in S
  BY <1>1, <1>2, <1>3, PastKept
<1>5. g \in Seq(S) /\ Len(g) = n /\ \A p \in 1 .. n : g[p] = Told(r, h, p)
  BY <1>1, <1>2, <1>4, PastShape
<1>6. ASSUME Len(hh) = n + 1, Told(rr, hh, n + 1) = d
      PROVE  k = Append(g, d)
  <2>1. Len(hh) \in Nat /\ \A p \in 1 .. Len(hh) : Told(rr, hh, p) \in S
    BY <1>2, <1>4, <1>6
  <2>2. k \in Seq(S) /\ Len(k) = n + 1 /\ \A p \in 1 .. n + 1 : k[p] = Told(rr, hh, p)
    BY <1>1, <1>6, <2>1, PastShape
  <2>3. \A p \in 1 .. Len(g) : k[p] = g[p]
    BY <1>2, <1>4, <1>5, <2>2
  <2>4. k = Append(g, k[Len(g) + 1])
    BY <1>5, <2>2, <2>3, OneMore
  <2> QED
    BY <1>2, <1>5, <1>6, <2>2, <2>4
<1>7. ASSUME Len(hh) = n + 2, Told(rr, hh, n + 1) = d, Told(rr, hh, n + 2) = d
      PROVE  k = Append(Append(g, d), d)
  <2>1. Len(hh) \in Nat /\ \A p \in 1 .. Len(hh) : Told(rr, hh, p) \in S
    BY <1>2, <1>4, <1>7
  <2>2. k \in Seq(S) /\ Len(k) = n + 2 /\ \A p \in 1 .. n + 2 : k[p] = Told(rr, hh, p)
    BY <1>1, <1>7, <2>1, PastShape
  <2>3. PICK j : j = Append(g, d)
    OBVIOUS
  <2>4. /\ j \in Seq(S) /\ Len(j) = n + 1 /\ j[n + 1] = d
        /\ \A p \in 1 .. n : j[p] = g[p]
    BY <1>2, <1>4, <1>5, <2>3
  <2>5. \A p \in 1 .. Len(j) : k[p] = j[p]
    BY <1>2, <1>4, <1>5, <1>7, <2>2, <2>4
  <2>6. k = Append(j, k[Len(j) + 1])
    BY <1>2, <2>2, <2>4, <2>5, OneMore
  <2> QED
    BY <1>2, <1>7, <2>2, <2>3, <2>4, <2>6
<1> QED
  BY <1>1, <1>6, <1>7

\* A content, given the view it is told of.
LEMMA ToldView ==
  ASSUME NEW r, NEW h, NEW p, NEW s, NEW l, h[p].log_state = s, h[p].log = l,
         NEW d, d = Told(r, h, p)
  PROVE  /\ d = Content(s, d.entries) /\ Tells(l, d.entries)
         /\ \A i \in DOMAIN l : d.entries[i] = Shown(l[i], r[l[i].segment].rec.payload)
<1>1. PICK e : e = [i \in DOMAIN l |-> Shown(l[i], r[l[i].segment].rec.payload)]
  OBVIOUS
<1>2. d = [marks |-> s, entries |-> e]
  BY <1>1 DEF Told
<1>3. e = [i \in DOMAIN l |-> e[i]] /\ \A i \in DOMAIN l : e[i].log_id = l[i].log_id
  BY <1>1 DEF Shown
<1>4. d.entries = e
  BY <1>2
<1>5. Tells(l, e)
  BY <1>3, Zenon DEF Tells
<1> QED
  BY <1>1, <1>2, <1>4, <1>5 DEF Content

\* A write of the caller is one of the abstract store, remembered twice where
\* the record filled a chunk and the next one begins by restating the state.
LEMMA WriteStep ==
  ASSUME RecoveryInv, Serves, Serves', NEW rec \in RaftLogRecord, Writes(rec)
  PROVE  Abstract!Write
<1>1. PICK n, r, h : n = Len(recs) /\ r = recs' /\ h = snap'
  OBVIOUS
<1>2. status = "up" /\ Issued(rec) /\ Added(rec) /\ status' = "up"
  <2>1. Added(rec)
    BY RecordAdded DEF Writes
  <2> QED
    BY <2>1 DEF Writes, Added
<1>3. /\ Wal(recs, snap) /\ History(recs, snap) /\ n \in Nat /\ n > 0 /\ IsLog(log)
      /\ snap[n].log_state = log_state /\ snap[n].log = log
      /\ \A i \in DOMAIN log : log[i].segment \in 1 .. n
  <2>1. /\ Wal(recs, snap) /\ History(recs, snap) /\ n \in Nat /\ n > 0 /\ IsLog(log)
        /\ snap[n].log_state = log_state /\ snap[n].log = log
    BY <1>1, <1>2, UpFacts DEF RecoveryInv, StoreInv, MemoryFollows
  <2>2. EntriesPlaced(recs, snap) /\ n \in 1 .. Len(recs)
    BY <1>1, <2>1 DEF History
  <2> QED
    BY <2>1, <2>2 DEF EntriesPlaced
<1>4. /\ Len(r) = n + 1 \/ Len(r) = n + 2
      /\ Len(h) = Len(r)
      /\ h[n + 1].log_state = log_state' /\ h[n + 1].log = log'
      /\ Len(r) = n + 2 => h[n + 2] = h[n + 1]
      /\ \A p \in 1 .. n : r[p] = recs[p] /\ h[p] = snap[p]
  <2>1. /\ Len(r) \in {n + 1, n + 2} /\ Len(h) = Len(r)
        /\ \A p \in 1 .. n : r[p] = recs[p] /\ h[p] = snap[p]
        /\ h[n + 1] = View(log_state', log')
    BY <1>1, <1>2, AddedShape DEF Added
  <2>2. Len(r) = n + 2 => h[n + 2] = View(log_state', log')
    BY <1>1, <1>2, AddedShape
  <2> QED
    BY <2>1, <2>2 DEF View
<1>5. PICK c, d : c = Seen /\ d = Seen'
  OBVIOUS
<1>6. /\ c = Content(log_state, c.entries) /\ Tells(log, c.entries)
      /\ \A i \in DOMAIN log :
           c.entries[i] = Shown(log[i], recs[log[i].segment].rec.payload)
  <2>1. c = Told(recs, snap, n)
    BY <1>1, <1>2, <1>5 DEF Serves, Seen
  <2> QED
    BY <1>3, <2>1, ToldView
<1>7. d = Told(r, h, n + 1) /\ (Len(r) = n + 2 => d = Told(r, h, n + 2))
  <2>1. d = Told(r, h, Len(r))
    BY <1>1, <1>2, <1>5 DEF Serves, Seen
  <2>2. Len(r) = n + 2 => Told(r, h, n + 2) = Told(r, h, n + 1)
    BY <1>4 DEF Told
  <2> QED
    BY <1>4, <2>1, <2>2
<1>8. /\ d = Content(log_state', d.entries) /\ Tells(log', d.entries)
      /\ \A i \in DOMAIN log' : d.entries[i] = Shown(log'[i], r[log'[i].segment].rec.payload)
  BY <1>4, <1>7, ToldView
<1>9. StaysTold(log, c.entries, log', d.entries)
  <2>1. ASSUME NEW i \in DOMAIN log \cap DOMAIN log', log'[i] = log[i]
        PROVE  d.entries[i] = c.entries[i]
    <3>1. r[log[i].segment] = recs[log[i].segment]
      BY <1>3, <1>4
    <3> QED
      BY <1>6, <1>8, <2>1, <3>1
  <2> QED
    BY <1>6, <1>8, <2>1 DEF StaysTold
<1>10. Abstract!Legal(c, d)
  <2>1. /\ check(log_state, rec) /\ log_state' = apply_state(log_state, rec)
        /\ log' = apply_log(log, rec, open_chunk, Len(recs) + 1)
    BY <1>2 DEF Added
  <2>2. Abstract!Legal(Content(log_state, c.entries), Content(log_state', d.entries))
    BY <1>2, <1>9, <2>1, WriteLegal
  <2> QED
    BY <1>6, <1>8, <2>2
<1>11. Past(r, h) \in Abstract!Remember(Past(recs, snap), d)
  BY <1>1, <1>3, <1>4, <1>7, PastGrows DEF Abstract!Remember
<1>12. synced' = synced /\ acked' = acked
  BY <1>2 DEF Added
<1> QED
  BY <1>1, <1>2, <1>5, <1>10, <1>11, <1>12
  DEF Abstract!Write, Seen, Past, Told, Recorded, load_record

\* Where the records stay, and the store stays up or not, the node sees no
\* difference: payloads may have left the cache.
LEMMA SeenKept ==
  ASSUME Serves, Serves', recs' = recs, snap' = snap, (status' = "up") = (status = "up")
  PROVE  Seen' = Seen /\ Past(recs', snap') = Past(recs, snap)
  BY DEF Serves, Seen

\* A flush, a rejected append, draining, a write of the FlushWorker, unlinking,
\* and the replay before it is over.
LEMMA QuietStep ==
  ASSUME Serves, Serves', UNCHANGED <<recs, snap, synced, acked>>,
         (status' = "up") = (status = "up")
  PROVE  UNCHANGED Abstract!absvars
<1>1. Seen' = Seen /\ Past(recs', snap') = Past(recs, snap)
  BY SeenKept
<1> QED
  BY <1>1 DEF Abstract!absvars, Seen, Past, Told, Recorded, load_record

\* A sync makes what is written durable.
LEMMA SyncStep ==
  ASSUME RecoveryInv, Serves, Serves', WorkerSync
  PROVE  Abstract!Sync
<1>1. /\ status = "up" /\ UNCHANGED <<status, recs, snap>>
      /\ synced' = written /\ acked' \in {acked, synced'}
  BY DEF WorkerSync, Serving, wal
<1>2. Seen' = Seen /\ Past(recs', snap') = Past(recs, snap)
  BY <1>1, SeenKept
<1>3. /\ synced \in Nat /\ written \in Nat /\ synced <= written /\ written <= Len(recs)
      /\ Len(recs) \in Nat /\ Len(snap) = Len(recs)
  BY DiskFacts DEF Wal
<1>4. Len(Past(recs, snap)) = Len(snap)
  <2>1. Len(snap) \in Nat
    BY <1>3
  <2> QED
    BY <2>1 DEF Past
<1>5. synced' \in synced .. Len(Past(recs, snap))
  BY <1>1, <1>3, <1>4
<1> QED
  BY <1>1, <1>2, <1>5 DEF Abstract!Sync, Seen, Past, Told, Recorded, load_record

\* A crash takes back writes that are not durable, the latest first.
LEMMA FallStep ==
  ASSUME RecoveryInv, Fail
  PROVE  Abstract!Fall
<1>1. PICK n \in synced .. Reach, incomplete \in BOOLEAN : Crash(n, incomplete)
  BY DEF Fail
<1>2. /\ Wal(recs, snap) /\ History(recs, snap) /\ Len(recs) \in Nat /\ Len(snap) = Len(recs)
      /\ synced \in Nat
  BY DiskFacts DEF Wal
<1>3. Reach \in Nat /\ Reach <= Len(recs)
  <2>1. queue \in Seq(Requests) /\ Covers(queue, recs) /\ written \in Nat /\ written <= Len(recs)
    BY DiskFacts
  <2> QED
    BY <1>2, <2>1, CoversTail DEF Reach, Serving
<1>4. n \in Nat /\ n \in 0 .. Len(recs) /\ synced <= n
  BY <1>2, <1>3
<1>5. PICK r, h : r = SubSeq(recs, 1, n) /\ h = SubSeq(snap, 1, n)
  OBVIOUS
<1>6. CutAt(r, h, n, recs, snap)
  BY <1>2, <1>4, <1>5, PrefixWal
<1>7. /\ recs' = r /\ snap' = h /\ status' = "down" /\ synced' = synced /\ acked' = acked
  BY <1>1, <1>5 DEF Crash
<1>8. PICK g, k : g = Past(recs, snap) /\ k = Past(r, h)
  OBVIOUS
<1>9. PICK S : S = {Told(recs, snap, p) : p \in 1 .. Len(recs)}
  OBVIOUS
<1>10. g \in Seq(S) /\ Len(g) = Len(recs) /\ \A p \in 1 .. Len(recs) : g[p] = Told(recs, snap, p)
  <2>1. \A p \in 1 .. Len(snap) : Told(recs, snap, p) \in S
    BY <1>2, <1>9
  <2> QED
    BY <1>2, <1>8, <2>1, PastShape
<1>11. k \in Seq(S) /\ Len(k) = n /\ \A p \in 1 .. n : k[p] = g[p]
  <2>1. Len(h) = n /\ \A p \in 1 .. n : r[p] = recs[p] /\ h[p] = snap[p]
    BY <1>6 DEF CutAt
  <2>2. \A p \in 1 .. n : Told(r, h, p) = Told(recs, snap, p)
    BY <1>2, <1>4, <2>1, PastKept
  <2>3. \A p \in 1 .. n : Told(r, h, p) \in S
    BY <1>2, <1>4, <1>9, <2>2
  <2>4. k \in Seq(S) /\ Len(k) = n /\ \A p \in 1 .. n : k[p] = Told(r, h, p)
    BY <1>4, <1>8, <2>1, <2>3, PastShape
  <2> QED
    BY <1>2, <1>4, <1>10, <2>2, <2>4
<1>12. k = SubSeq(g, 1, n)
  <2>1. PICK j : j = SubSeq(g, 1, n)
    OBVIOUS
  <2>2. j \in Seq(S) /\ Len(j) = n /\ \A p \in 1 .. n : j[p] = g[p]
    BY <1>2, <1>4, <1>10, <2>1
  <2>3. j = k
    BY <1>11, <2>2, SeqEqual
  <2> QED
    BY <2>1, <2>3
<1>13. k = SubSeq(g, 1, Len(k)) /\ Len(k) \in synced .. Len(g)
  BY <1>2, <1>4, <1>10, <1>11, <1>12
<1>14. Past(recs', snap') = k /\ Past(recs, snap) = g
  BY <1>7, <1>8
<1>15. Abstract!Empty = [marks |-> default_state, entries |-> EmptyMap]
  BY AbstractState DEF Content
<1> QED
  BY <1>7, <1>13, <1>14, <1>15 DEF Abstract!Fall, Past, Told, Recorded, load_record

\* An opened store shows the last content that is left, and restates it where
\* it starts a chunk.
LEMMA ReopenStep ==
  ASSUME RecoveryInv, Serves', OpenFinish
  PROVE  Abstract!Reopen
<1>1. PICK n, r, h, d : n = Len(recs) /\ r = recs' /\ h = snap' /\ d = Seen'
  OBVIOUS
<1>2. /\ status = "replay" /\ rp = n /\ status' = "up" /\ acked' = acked
      /\ synced' \in {synced, n}
  BY <1>1 DEF OpenFinish
<1>3. /\ Wal(recs, snap) /\ History(recs, snap) /\ n \in Nat /\ Len(snap) = n
      /\ recs \in Seq(WalEntry) /\ IsHistory(snap)
  BY <1>1, DiskFacts DEF Wal
<1>4. At(snap, n) = View(log_state, log) /\ (files # {} => n > 0)
  BY <1>1, <1>2, ReplayedAll
<1>5. \/ files # {} /\ r = recs /\ h = snap
      \/ /\ r = Append(recs, Entry(n, CheckpointRecord(log_state)))
         /\ h = Append(snap, View(log_state, log))
  BY <1>1 DEF OpenFinish
<1>6. d = Told(r, h, Len(r))
  BY <1>1, <1>2 DEF Serves, Seen
<1>7. PICK g : g = Past(recs, snap)
  OBVIOUS
<1>8. Len(g) = n /\ (n > 0 => g[n] = Told(recs, snap, n)) /\ (g = <<>> <=> n = 0)
  <2>1. PICK S : S = {Told(recs, snap, p) : p \in 1 .. Len(snap)}
    OBVIOUS
  <2>2. \A p \in 1 .. Len(snap) : Told(recs, snap, p) \in S
    BY <2>1
  <2>3. g \in Seq(S) /\ Len(g) = n /\ \A p \in 1 .. n : g[p] = Told(recs, snap, p)
    BY <1>3, <1>7, <2>2, PastShape
  <2>4. g = <<>> <=> Len(g) = 0
    BY <2>3
  <2> QED
    BY <1>3, <2>3, <2>4
<1>9. CASE files # {} /\ r = recs /\ h = snap
  <2>1. d = Abstract!Latest(g)
    BY <1>1, <1>4, <1>6, <1>8, <1>9 DEF Abstract!Latest
  <2>2. Past(r, h) = g
    BY <1>7, <1>9
  <2> QED
    BY <1>1, <1>2, <1>7, <1>8, <2>1, <2>2
    DEF Abstract!Reopen, Seen, Past, Told, Recorded, load_record
<1>10. CASE /\ r = Append(recs, Entry(n, CheckpointRecord(log_state)))
            /\ h = Append(snap, View(log_state, log))
  <2>1. /\ Len(r) = n + 1 /\ Len(h) = n + 1 /\ h[n + 1] = View(log_state, log)
        /\ \A p \in 1 .. n : r[p] = recs[p] /\ h[p] = snap[p]
    <3>1. snap \in Seq({snap[p] : p \in DOMAIN snap})
      BY <1>3 DEF IsHistory
    <3> QED
      BY <1>1, <1>3, <1>10, <3>1
  <2>2. d = Told(r, h, n + 1)
    BY <1>6, <2>1
  <2>3. d = Abstract!Latest(g)
    <3>1. CASE n = 0
      <4>1. h[n + 1] = View(default_state, EmptyMap)
        BY <1>4, <2>1, <3>1 DEF At
      <4>2. h[n + 1].log_state = default_state /\ h[n + 1].log = EmptyMap
        BY <4>1 DEF View
      <4>3. d = [marks |-> default_state, entries |-> EmptyMap]
        BY <2>2, <4>2 DEF Told, EmptyMap
      <4> QED
        BY <1>8, <3>1, <4>3, AbstractState DEF Abstract!Latest, Content
    <3>2. CASE n > 0
      <4>1. h[n + 1] = snap[n] /\ h[n] = snap[n]
        BY <1>3, <1>4, <2>1, <3>2 DEF At
      <4>2. d = Told(r, h, n)
        BY <2>2, <4>1 DEF Told
      <4>3. Told(r, h, n) = Told(recs, snap, n)
        BY <1>1, <1>3, <2>1, <3>2, ToldKept
      <4> QED
        BY <1>8, <3>2, <4>2, <4>3 DEF Abstract!Latest
    <3> QED
      BY <1>3, <3>1, <3>2
  <2>4. Past(r, h) = Append(g, d)
    BY <1>1, <1>3, <1>7, <2>1, <2>2, PastGrows
  <2>5. Past(r, h) \in Abstract!Remember(g, d)
    BY <2>4 DEF Abstract!Remember
  <2> QED
    BY <1>1, <1>2, <1>7, <1>8, <2>3, <2>5
    DEF Abstract!Reopen, Seen, Past, Told, Recorded, load_record
<1> QED
  BY <1>5, <1>9, <1>10

\* A new store holds nothing.
LEMMA InitStep ==
  ASSUME Init
  PROVE  Abstract!AbsInit
  BY AbstractState DEF Init, Abstract!AbsInit, Content

\* Every step of the store.
LEMMA NextStep ==
  ASSUME RecoveryInv, Serves, Serves', Obliged, [Next]_vars
  PROVE  [Abstract!AbsNext]_(Abstract!absvars)
<1>1. CASE UNCHANGED vars
  BY <1>1, QuietStep DEF vars, wal, worker
<1>2. CASE Caller
  <2>1. ASSUME NEW rec \in RaftLogRecord, Writes(rec)
        PROVE  Abstract!AbsNext
    BY <2>1, WriteStep DEF Abstract!AbsNext
  <2>2. ASSUME \/ \E sync \in BOOLEAN : flush(sync)
               \/ append_reject \/ drain_cache_evictable
        PROVE  UNCHANGED Abstract!absvars
    <3>1. UNCHANGED <<status, recs, snap, synced, acked>>
      BY <2>2 DEF flush, append_reject, drain_cache_evictable, wal, worker
    <3> QED
      BY <3>1, QuietStep
  <2> QED
    BY <1>2, <2>1, <2>2, CallerSteps
<1>3. CASE FlushWorker
  <2>1. CASE WorkerSync
    BY <2>1, SyncStep DEF Abstract!AbsNext
  <2>2. CASE WorkerWrite \/ WorkerRemove
    <3>1. UNCHANGED <<status, recs, snap, synced, acked>>
      BY <2>2 DEF WorkerWrite, WorkerRemove, wal
    <3> QED
      BY <3>1, QuietStep
  <2> QED
    BY <1>3, <2>1, <2>2 DEF FlushWorker
<1>4. CASE open
  <2>1. CASE OpenFinish
    BY <2>1, ReopenStep DEF Abstract!AbsNext
  <2>2. CASE OpenStart \/ ReplayRecord
    <3>1. UNCHANGED <<recs, snap, synced, acked>> /\ status # "up" /\ status' # "up"
      BY <2>2 DEF OpenStart, ReplayRecord, worker
    <3> QED
      BY <3>1, QuietStep
  <2> QED
    BY <1>4, <2>1, <2>2 DEF open
<1>5. CASE Fail
  BY <1>5, FallStep DEF Abstract!AbsNext
<1> QED
  BY <1>1, <1>2, <1>3, <1>4, <1>5 DEF Next

\* The store keeps its promise (RaftLogWriter, RaftLog::open): with callers that
\* keep their obligations every behaviour of the detailed store, through every
\* interleaving with the FlushWorker, every crash and every replay, is one of
\* DurableLog. What a node reads is what it wrote, a crash takes back only
\* writes that no sync covered, and an opened store shows exactly what is left.
THEOREM StoreImplementsDurableLog == Obliged => (Spec => ImplementsDurableLog)
<1> SUFFICES ASSUME Obliged
             PROVE  Spec => ImplementsDurableLog
  OBVIOUS
<1>1. Init => Abstract!AbsInit
  BY InitStep
<1>2. RecoveryInv /\ CacheInv => Serves
  BY ServesHolds
<1>3. RecoveryInv /\ Serves /\ Serves' /\ [Next]_vars
        => [Abstract!AbsNext]_(Abstract!absvars)
  BY NextStep
<1>4. Spec => []RecoveryInv /\ []CacheInv
  BY RecoveryInvHolds, CacheInvHolds, PTL
<1>5. Spec => []Serves
  BY <1>2, <1>4, PTL
<1> QED
  BY <1>1, <1>3, <1>4, <1>5, PTL DEF Spec, ImplementsDurableLog, Abstract!AbsSpec
=============================================================================
