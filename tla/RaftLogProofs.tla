------------------------------ MODULE RaftLogProofs ------------------------------
(***************************************************************************)
(* Type correctness of module RaftLog, for every value of its constants.   *)
(* Before it lemmas about the operators of RaftLogStateMachine: types, and *)
(* that an accepted record keeps a well-formed store well formed.  After   *)
(* it lemmas about the history of a WAL, which the other theorems rest on. *)
(***************************************************************************)
EXTENDS RaftLogInvariant, PayloadCacheProofs, SequenceTheorems

---------------------------------------------------------------------------
(* The cases of apply, one fact per kind of record.                        *)

\* RaftLogState::apply, taken apart by the kind of the record.
LEMMA ApplyStateCases ==
  ASSUME NEW s, NEW rec
  PROVE  /\ rec.type = "SaveVote" => apply_state(s, rec) = [s EXCEPT !.vote = rec.vote]
         /\ rec.type = "Append" => apply_state(s, rec) = [s EXCEPT !.last = rec.log_id]
         /\ rec.type = "Commit" => apply_state(s, rec) = [s EXCEPT !.committed = rec.log_id]
         /\ rec.type = "TruncateAfter" => apply_state(s, rec) = truncate_after(s, rec.log_id)
         /\ rec.type = "PurgeUpto" => apply_state(s, rec) = purge_state(s, rec.log_id)
         /\ rec.type = "Checkpoint" => apply_state(s, rec) = rec.state
  BY Zenon DEF apply_state, apply_checkpoint

\* The kinds of records.
LEMMA RecordTypes ==
  ASSUME NEW rec \in RaftLogRecord
  PROVE  /\ rec.type \in {"SaveVote", "Append", "Commit", "TruncateAfter",
                          "PurgeUpto", "Checkpoint"}
         /\ rec.type = "SaveVote" => rec.vote \in Nat
         /\ rec.type \in {"Append", "Commit", "PurgeUpto"} => rec.log_id \in LogId
         /\ rec.type = "Append" => rec.payload \in Payload
         /\ rec.type = "TruncateAfter" => rec.log_id \in OptLogId
         /\ rec.type = "Checkpoint" => rec.state \in RaftLogState
  BY DEF RaftLogRecord

---------------------------------------------------------------------------
(* Types.                                                                  *)

\* RaftLogState::purge returns a state.
LEMMA PurgeStateType ==
  ASSUME NEW s \in RaftLogState, NEW id \in OptLogId
  PROVE  purge_state(s, id) \in RaftLogState
<1>1. PICK p \in OptLogId, l \in OptLogId :
        purge_state(s, id) = [s EXCEPT !.purged = p, !.last = l]
  BY DEF purge_state, RaftLogState
<1> QED
  BY <1>1 DEF RaftLogState

\* RaftLogState::truncate_after returns a state.
LEMMA TruncateStateType ==
  ASSUME NEW s \in RaftLogState, NEW id \in OptLogId
  PROVE  truncate_after(s, id) \in RaftLogState
<1>1. PICK l \in OptLogId : truncate_after(s, id) = [s EXCEPT !.last = l]
  BY DEF truncate_after, RaftLogState
<1> QED
  BY <1>1 DEF RaftLogState

\* RaftLogState::apply returns a state.
LEMMA ApplyStateType ==
  ASSUME NEW s \in RaftLogState, NEW rec \in RaftLogRecord
  PROVE  apply_state(s, rec) \in RaftLogState
<1>1. CASE rec.type = "SaveVote"
  <2>1. apply_state(s, rec) = [s EXCEPT !.vote = rec.vote]
    BY <1>1, ApplyStateCases, Zenon
  <2>2. rec.vote \in OptVote
    BY <1>1, RecordTypes DEF OptVote
  <2> QED
    BY <2>1, <2>2 DEF RaftLogState
<1>2. CASE rec.type = "Append"
  <2>1. apply_state(s, rec) = [s EXCEPT !.last = rec.log_id]
    BY <1>2, ApplyStateCases, Zenon
  <2>2. rec.log_id \in OptLogId
    BY <1>2, RecordTypes DEF OptLogId
  <2> QED
    BY <2>1, <2>2 DEF RaftLogState
<1>3. CASE rec.type = "Commit"
  <2>1. apply_state(s, rec) = [s EXCEPT !.committed = rec.log_id]
    BY <1>3, ApplyStateCases, Zenon
  <2>2. rec.log_id \in OptLogId
    BY <1>3, RecordTypes DEF OptLogId
  <2> QED
    BY <2>1, <2>2 DEF RaftLogState
<1>4. CASE rec.type = "TruncateAfter"
  <2>1. apply_state(s, rec) = truncate_after(s, rec.log_id)
    BY <1>4, ApplyStateCases, Zenon
  <2>2. rec.log_id \in OptLogId
    BY <1>4, RecordTypes
  <2> QED
    BY <2>1, <2>2, TruncateStateType
<1>5. CASE rec.type = "PurgeUpto"
  <2>1. apply_state(s, rec) = purge_state(s, rec.log_id)
    BY <1>5, ApplyStateCases, Zenon
  <2>2. rec.log_id \in OptLogId
    BY <1>5, RecordTypes DEF OptLogId
  <2> QED
    BY <2>1, <2>2, PurgeStateType
<1>6. CASE rec.type = "Checkpoint"
  <2>1. apply_state(s, rec) = rec.state
    BY <1>6, ApplyStateCases, Zenon
  <2> QED
    BY <1>6, <2>1, RecordTypes
<1> QED
  BY <1>1, <1>2, <1>3, <1>4, <1>5, <1>6, RecordTypes

\* BTreeMap::insert of an entry keeps a log map.
LEMMA InsertLogType ==
  ASSUME NEW lg, IsLog(lg), NEW i \in Nat, NEW data \in LogData
  PROVE  IsLog(InsertLog(lg, i, data))
  BY DEF IsLog, InsertLog

\* BTreeMap::split_off keeps a log map.
LEMMA RestrictLogType ==
  ASSUME NEW lg, IsLog(lg), NEW S
  PROVE  IsLog(RestrictLog(lg, S))
  BY DEF IsLog, RestrictLog

\* LogData::new
LEMMA LogDataType ==
  ASSUME NEW id \in LogId, NEW chunk \in Nat, NEW seg \in Nat
  PROVE  /\ NewLogData(id, chunk, seg) \in LogData
         /\ log_index(id) \in Nat
  BY DEF NewLogData, LogData, LogId, log_index

\* RaftLogStateMachine::apply keeps the log map a log map.
LEMMA ApplyLogType ==
  ASSUME NEW lg, IsLog(lg), NEW rec \in RaftLogRecord,
         NEW chunk \in Nat, NEW seg \in Nat
  PROVE  IsLog(apply_log(lg, rec, chunk, seg))
<1>1. CASE rec.type = "Append"
  <2>1. apply_log(lg, rec, chunk, seg) =
          InsertLog(lg, log_index(rec.log_id), NewLogData(rec.log_id, chunk, seg))
    BY <1>1, Zenon DEF apply_log
  <2>2. rec.log_id \in LogId
    BY <1>1, RecordTypes
  <2> QED
    BY <2>1, <2>2, LogDataType, InsertLogType
<1>2. CASE rec.type \in {"TruncateAfter", "PurgeUpto"}
  <2>1. \E S : apply_log(lg, rec, chunk, seg) = RestrictLog(lg, S)
    BY <1>2, Zenon DEF apply_log
  <2> QED
    BY <2>1, RestrictLogType
<1>3. CASE rec.type \in {"SaveVote", "Commit", "Checkpoint"}
  <2>1. apply_log(lg, rec, chunk, seg) = lg
    BY <1>3, Zenon DEF apply_log
  <2> QED
    BY <2>1
<1> QED
  BY <1>1, <1>2, <1>3, RecordTypes

---------------------------------------------------------------------------
(* Well-formedness.                                                        *)

\* Indexes are numbers; only None has index -1.
LEMMA IdIndex ==
  ASSUME NEW a \in OptLogId
  PROVE  /\ log_index(a) \in Int
         /\ log_index(a) >= -1
         /\ next_log_index(a) = log_index(a) + 1
         /\ a # None => a \in LogId /\ log_index(a) \in Nat
         /\ a = None => log_index(a) = -1
         /\ a # None => Lt(None, a)
         /\ ~Lt(a, None)
  BY DEF OptLogId, LogId, None, log_index, next_log_index, Lt

\* What the other lemmas need of the types of a state and a log map.
LEMMA WellFormedTypes ==
  ASSUME NEW s \in RaftLogState, NEW lg, IsLog(lg)
  PROVE  /\ s.last \in OptLogId /\ s.purged \in OptLogId /\ s.committed \in OptLogId
         /\ \A i \in DOMAIN lg : i \in Nat /\ lg[i].log_id \in LogId
                                  /\ lg[i].log_id \in OptLogId
  BY DEF RaftLogState, IsLog, LogData, OptLogId

\* An append that check_append accepts extends the run by one entry.
LEMMA AppendWellFormed ==
  ASSUME NEW s \in RaftLogState, NEW lg, IsLog(lg), WellFormed(s, lg),
         NEW id \in LogId, NEW data \in LogData, data.log_id = id,
         check_append(s, id)
  PROVE  WellFormed([s EXCEPT !.last = id], InsertLog(lg, log_index(id), data))
<1> DEFINE n == log_index(id)
           t == [s EXCEPT !.last = id]
           new == InsertLog(lg, n, data)
<1>1. /\ t.last = id /\ t.purged = s.purged /\ t.committed = s.committed
      /\ t \in RaftLogState
  BY DEF RaftLogState, OptLogId
<1>2. id \in OptLogId /\ n \in Nat /\ Lt(s.last, id) /\ id # None
  BY IdIndex DEF OptLogId, check_append, LogId, None, log_index
<1>3. /\ DOMAIN new = DOMAIN lg \cup {n}
      /\ new[n] = data
      /\ \A i \in DOMAIN lg : i # n => new[i] = lg[i]
  BY DEF InsertLog
<1>4. s.last # None => n = log_index(s.last) + 1
  BY WellFormedTypes, IdIndex DEF check_append
<1>5. \A i \in DOMAIN lg : /\ i \in Nat /\ i < n
                            /\ n = log_index(s.last) + 1
                            /\ log_index(s.last) \in DOMAIN lg
                            /\ lg[log_index(s.last)].log_id = s.last
  <2> SUFFICES ASSUME NEW i \in DOMAIN lg
               PROVE  /\ i \in Nat /\ i < n
                      /\ n = log_index(s.last) + 1
                      /\ log_index(s.last) \in DOMAIN lg
                      /\ lg[log_index(s.last)].log_id = s.last
    OBVIOUS
  <2>1. /\ i <= log_index(s.last) /\ log_index(s.last) \in DOMAIN lg
        /\ lg[log_index(s.last)].log_id = s.last /\ i \in Nat
    BY WellFormedTypes DEF WellFormed, LogFits
  <2>2. s.last # None
    BY <2>1, WellFormedTypes, IdIndex
  <2> QED
    BY <2>1, <2>2, <1>4, WellFormedTypes, IdIndex
<1>6. \A i \in DOMAIN lg : Lt(lg[i].log_id, id)
  <2> SUFFICES ASSUME NEW i \in DOMAIN lg PROVE Lt(lg[i].log_id, id)
    OBVIOUS
  <2>1. CASE i = log_index(s.last)
    BY <2>1, <1>5, <1>2
  <2>2. CASE i < log_index(s.last)
    <3>1. Lt(lg[i].log_id, s.last)
      BY <2>2, <1>5 DEF WellFormed, LogIsRun
    <3> QED
      BY <3>1, <1>2, IdOrder, WellFormedTypes
  <2> QED
    BY <2>1, <2>2, <1>5, <1>2
<1>7. LogIsRun(new)
  <2> SUFFICES ASSUME NEW i \in DOMAIN new, NEW j \in DOMAIN new
               PROVE  /\ log_index(new[i].log_id) = i
                      /\ i < j => Lt(new[i].log_id, new[j].log_id)
                      /\ i .. j \subseteq DOMAIN new
    BY DEF LogIsRun
  <2>1. log_index(new[i].log_id) = i
    BY <1>3 DEF WellFormed, LogIsRun
  <2>2. ASSUME i < j PROVE Lt(new[i].log_id, new[j].log_id)
    <3>1. CASE i = n
      BY <3>1, <2>2, <1>2, <1>3, <1>5
    <3>2. CASE i # n /\ j = n
      BY <3>2, <1>3, <1>6
    <3>3. CASE i # n /\ j # n
      BY <3>3, <2>2, <1>3 DEF WellFormed, LogIsRun
    <3> QED
      BY <3>1, <3>2, <3>3
  <2>3. i .. j \subseteq DOMAIN new
    <3>1. CASE i = n
      BY <3>1, <1>2, <1>3, <1>5
    <3>2. CASE i # n /\ j = n
      <4>1. i .. log_index(s.last) \subseteq DOMAIN lg
        BY <3>2, <1>3, <1>5 DEF WellFormed, LogIsRun
      <4> QED
        BY <4>1, <3>2, <1>2, <1>3, <1>5
    <3>3. CASE i # n /\ j # n
      BY <3>3, <1>3 DEF WellFormed, LogIsRun
    <3> QED
      BY <3>1, <3>2, <3>3
  <2> QED
    BY <2>1, <2>2, <2>3
<1>8. Lt(s.purged, id) /\ n >= log_index(s.purged) + 1
  <2>1. Lt(s.purged, id)
    BY <1>2, IdOrder, WellFormedTypes DEF WellFormed, MarksInOrder, Le
  <2>2. CASE s.last # None
    <3>1. log_index(s.last) \in Int /\ log_index(s.purged) \in Int
      BY WellFormedTypes, IdIndex
    <3>2. log_index(s.purged) <= log_index(s.last)
      BY DEF WellFormed, MarksInOrder
    <3> QED
      BY <2>1, <2>2, <3>1, <3>2, <1>2, <1>4
  <2>3. CASE s.last = None
    <3>1. log_index(s.last) = -1 /\ log_index(s.purged) \in Int
      BY <2>3, WellFormedTypes, IdIndex
    <3>2. log_index(s.purged) <= log_index(s.last)
      BY DEF WellFormed, MarksInOrder
    <3> QED
      BY <2>1, <3>1, <3>2, <1>2
  <2> QED
    BY <2>1, <2>2, <2>3
<1>9. LogFits(t, new)
  <2> SUFFICES ASSUME NEW i \in DOMAIN new
               PROVE  /\ i >= next_log_index(t.purged)
                      /\ Lt(t.purged, new[i].log_id)
                      /\ i <= log_index(t.last)
                      /\ log_index(t.last) \in DOMAIN new
                      /\ new[log_index(t.last)].log_id = t.last
    BY DEF LogFits
  <2>1. log_index(t.last) = n /\ n \in DOMAIN new /\ new[n].log_id = t.last
    BY <1>1, <1>3
  <2>2. CASE i = n
    BY <2>1, <2>2, <1>1, <1>2, <1>3, <1>8, WellFormedTypes, IdIndex
  <2>3. CASE i # n
    BY <2>1, <2>3, <1>1, <1>2, <1>3, <1>5 DEF WellFormed, LogFits
  <2> QED
    BY <2>1, <2>2, <2>3
<1>10. MarksInOrder(t)
  <2>1. Lt(s.committed, id)
    BY <1>2, IdOrder, WellFormedTypes DEF WellFormed, MarksInOrder, Le
  <2>2. log_index(s.purged) <= n
    BY <1>8, <1>2, WellFormedTypes, IdIndex
  <2> QED
    BY <1>1, <1>8, <2>1, <2>2 DEF MarksInOrder, Le
<1> QED
  BY <1>7, <1>9, <1>10 DEF WellFormed

\* A truncation to the purge point or to an entry of the log keeps the run up
\* to that entry.
LEMMA TruncateWellFormed ==
  ASSUME NEW s \in RaftLogState, NEW lg, IsLog(lg), WellFormed(s, lg),
         NEW keep \in OptLogId, check_truncate(s, keep),
         keep = s.purged \/ \E k \in DOMAIN lg : keep = lg[k].log_id
  PROVE  WellFormed(truncate_after(s, keep),
                    RestrictLog(lg, {i \in DOMAIN lg : i < next_log_index(keep)}))
<1> DEFINE t == truncate_after(s, keep)
           new == RestrictLog(lg, {i \in DOMAIN lg : i < next_log_index(keep)})
<1>1. /\ DOMAIN new = {i \in DOMAIN lg : i <= log_index(keep)}
      /\ \A i \in DOMAIN new : new[i] = lg[i]
  BY WellFormedTypes, IdIndex DEF RestrictLog
<1>2. /\ t.purged = s.purged /\ t.committed = s.committed
      /\ t.last = IF Lt(keep, s.last) THEN keep ELSE s.last
  BY DEF truncate_after, RaftLogState
<1>3. LogIsRun(new)
  <2> SUFFICES ASSUME NEW i \in DOMAIN new, NEW j \in DOMAIN new
               PROVE  /\ log_index(new[i].log_id) = i
                      /\ i < j => Lt(new[i].log_id, new[j].log_id)
                      /\ i .. j \subseteq DOMAIN new
    BY DEF LogIsRun
  <2>1. i \in DOMAIN lg /\ j \in DOMAIN lg /\ i .. j \subseteq DOMAIN lg
    BY <1>1 DEF WellFormed, LogIsRun
  <2>2. i .. j \subseteq DOMAIN new
    <3>1. i \in Nat /\ j \in Nat /\ log_index(keep) \in Int /\ j <= log_index(keep)
      BY <2>1, <1>1, WellFormedTypes, IdIndex
    <3>2. \A k \in i .. j : k \in DOMAIN lg /\ k <= log_index(keep)
      BY <2>1, <3>1
    <3> QED
      BY <3>2, <1>1
  <2> QED
    BY <2>1, <2>2, <1>1 DEF WellFormed, LogIsRun
<1>4. CASE keep = s.purged
  <2>1. DOMAIN new = {}
    <3>1. \A i \in DOMAIN lg : i \in Nat /\ i >= log_index(s.purged) + 1
      BY WellFormedTypes, IdIndex DEF WellFormed, LogFits
    <3>2. log_index(s.purged) \in Int
      BY WellFormedTypes, IdIndex
    <3>3. \A i \in DOMAIN lg : ~(i <= log_index(keep))
      BY <3>1, <3>2, <1>4
    <3> QED
      BY <3>3, <1>1
  <2>2. t.last = s.purged
    BY <1>2, <1>4, WellFormedTypes, IdOrder DEF WellFormed, MarksInOrder, Le
  <2>3. MarksInOrder(t)
    BY <1>2, <1>4, <2>2, WellFormedTypes, IdIndex DEF MarksInOrder, Le, check_truncate
  <2> QED
    BY <1>3, <2>1, <2>3 DEF WellFormed, LogFits
<1>5. ASSUME NEW k \in DOMAIN lg, keep = lg[k].log_id
      PROVE  WellFormed(t, new)
  <2>1. /\ k <= log_index(s.last) /\ log_index(s.last) \in DOMAIN lg
        /\ lg[log_index(s.last)].log_id = s.last
        /\ log_index(keep) = k /\ k \in Nat
        /\ Lt(s.purged, keep) /\ k >= next_log_index(s.purged)
    BY <1>5, WellFormedTypes DEF WellFormed, LogFits, LogIsRun
  <2>2. t.last = keep
    <3>1. CASE k = log_index(s.last)
      BY <3>1, <2>1, <1>2, <1>5
    <3>2. CASE k < log_index(s.last)
      BY <3>2, <2>1, <1>2, <1>5 DEF WellFormed, LogIsRun
    <3>3. log_index(s.last) \in Int
      BY WellFormedTypes, IdIndex
    <3> QED
      BY <3>1, <3>2, <3>3, <2>1
  <2>3. LogFits(t, new)
    <3> SUFFICES ASSUME NEW i \in DOMAIN new
                 PROVE  /\ i >= next_log_index(t.purged)
                        /\ Lt(t.purged, new[i].log_id)
                        /\ i <= log_index(t.last)
                        /\ log_index(t.last) \in DOMAIN new
                        /\ new[log_index(t.last)].log_id = t.last
      BY DEF LogFits
    <3>1. i \in DOMAIN lg /\ i <= k /\ k \in DOMAIN new
      BY <1>1, <2>1
    <3>2. i >= next_log_index(s.purged) /\ Lt(s.purged, lg[i].log_id)
      BY <3>1 DEF WellFormed, LogFits
    <3> QED
      BY <3>1, <3>2, <1>1, <1>2, <1>5, <2>1, <2>2
  <2>4. MarksInOrder(t)
    BY <1>2, <2>1, <2>2, WellFormedTypes, IdIndex DEF MarksInOrder, Le, check_truncate
  <2> QED
    BY <1>3, <2>3, <2>4 DEF WellFormed
<1> QED
  BY <1>4, <1>5

\* A purge up to an id that agrees with the log removes a prefix of the run,
\* or all of it and moves `last` up.
LEMMA PurgeWellFormed ==
  ASSUME NEW s \in RaftLogState, NEW lg, IsLog(lg), WellFormed(s, lg),
         NEW id \in LogId, Agrees(id, s.last),
         \A i \in DOMAIN lg : Agrees(id, lg[i].log_id)
  PROVE  WellFormed(purge_state(s, id),
                    RestrictLog(lg, {i \in DOMAIN lg : i >= next_log_index(id)}))
<1> DEFINE t == purge_state(s, id)
           new == RestrictLog(lg, {i \in DOMAIN lg : i >= next_log_index(id)})
<1>1. id \in OptLogId /\ log_index(id) \in Nat
  BY IdIndex DEF OptLogId, LogId, log_index
<1>2. /\ DOMAIN new = {i \in DOMAIN lg : i > log_index(id)}
      /\ \A i \in DOMAIN new : new[i] = lg[i]
  BY <1>1, WellFormedTypes, IdIndex DEF RestrictLog
<1>3. /\ t.committed = s.committed
      /\ t.purged = IF Lt(s.purged, id) THEN id ELSE s.purged
      /\ t.last = IF Lt(s.last, id) THEN id ELSE s.last
  BY DEF purge_state, RaftLogState
<1>4. LogIsRun(new)
  <2> SUFFICES ASSUME NEW i \in DOMAIN new, NEW j \in DOMAIN new
               PROVE  /\ log_index(new[i].log_id) = i
                      /\ i < j => Lt(new[i].log_id, new[j].log_id)
                      /\ i .. j \subseteq DOMAIN new
    BY DEF LogIsRun
  <2>1. i \in DOMAIN lg /\ j \in DOMAIN lg /\ i .. j \subseteq DOMAIN lg
    BY <1>2 DEF WellFormed, LogIsRun
  <2>2. i .. j \subseteq DOMAIN new
    <3>1. i \in Nat /\ j \in Nat /\ log_index(id) < i
      BY <2>1, <1>2, WellFormedTypes
    <3>2. \A k \in i .. j : k \in DOMAIN lg /\ k > log_index(id)
      BY <2>1, <3>1, <1>1
    <3> QED
      BY <3>2, <1>2
  <2> QED
    BY <2>1, <2>2, <1>2 DEF WellFormed, LogIsRun
<1>5. LogFits(t, new)
  <2> SUFFICES ASSUME NEW i \in DOMAIN new
               PROVE  /\ i >= next_log_index(t.purged)
                      /\ Lt(t.purged, new[i].log_id)
                      /\ i <= log_index(t.last)
                      /\ log_index(t.last) \in DOMAIN new
                      /\ new[log_index(t.last)].log_id = t.last
    BY DEF LogFits
  <2>1. i \in DOMAIN lg /\ i > log_index(id) /\ new[i] = lg[i] /\ i \in Nat
    BY <1>2, WellFormedTypes
  <2>2. /\ i >= next_log_index(s.purged) /\ Lt(s.purged, lg[i].log_id)
        /\ i <= log_index(s.last) /\ log_index(s.last) \in DOMAIN lg
        /\ lg[log_index(s.last)].log_id = s.last
    BY <2>1 DEF WellFormed, LogFits
  <2>3. log_index(lg[i].log_id) = i
    BY <2>1 DEF WellFormed, LogIsRun
  <2>4. Lt(id, lg[i].log_id)
    BY <2>1, <2>3 DEF Agrees
  <2>5. i >= next_log_index(t.purged) /\ Lt(t.purged, new[i].log_id)
    BY <2>1, <2>2, <2>4, <1>1, <1>3, IdIndex
  <2>6. log_index(id) < log_index(s.last) /\ Lt(id, s.last)
    <3>1. log_index(id) < log_index(s.last)
      BY <2>1, <2>2, <1>1, WellFormedTypes, IdIndex
    <3> QED
      BY <3>1 DEF Agrees
  <2>7. t.last = s.last
    BY <2>6, <1>1, <1>3, WellFormedTypes, IdOrder
  <2> QED
    BY <2>1, <2>2, <2>5, <2>6, <2>7, <1>2
<1>6. MarksInOrder(t)
  <2>1. /\ Le(s.purged, s.last) /\ log_index(s.purged) <= log_index(s.last)
        /\ Le(s.committed, s.last)
    BY DEF WellFormed, MarksInOrder
  <2>2. /\ log_index(s.purged) \in Int /\ log_index(s.last) \in Int
        /\ s.purged \in OptLogId /\ s.last \in OptLogId /\ s.committed \in OptLogId
    BY WellFormedTypes, IdIndex
  <2>3. CASE Lt(s.last, id)
    <3>1. Lt(s.purged, id) /\ Lt(s.committed, id)
      BY <2>1, <2>2, <2>3, <1>1, IdOrder DEF Le
    <3> QED
      BY <3>1, <2>3, <1>1, <1>3 DEF MarksInOrder, Le
  <2>4. CASE ~Lt(s.last, id)
    <3>1. Le(id, s.last)
      BY <2>2, <2>4, <1>1, IdOrder DEF Le
    <3>2. log_index(id) <= log_index(s.last)
      BY <2>2, <2>4, <1>1 DEF Agrees
    <3> QED
      BY <3>1, <3>2, <2>1, <2>2, <2>4, <1>1, <1>3 DEF MarksInOrder
  <2> QED
    BY <2>3, <2>4
<1> QED
  BY <1>4, <1>5, <1>6 DEF WellFormed

\* update_state: a state with ordered marks that check_checkpoint accepts fits
\* the log map.
LEMMA CheckpointWellFormed ==
  ASSUME NEW lg, IsLog(lg), LogIsRun(lg), NEW state \in RaftLogState,
         MarksInOrder(state), check_checkpoint(lg, state)
  PROVE  WellFormed(state, lg)
<1>1. CASE DOMAIN lg = {}
  BY <1>1 DEF WellFormed, LogFits
<1>2. ASSUME NEW first \in DOMAIN lg, NEW last \in DOMAIN lg,
             \A i \in DOMAIN lg : first <= i /\ i <= last,
             log_index(lg[first].log_id) = next_log_index(state.purged),
             Lt(state.purged, lg[first].log_id),
             lg[last].log_id = state.last
      PROVE  LogFits(state, lg)
  <2>1. first = next_log_index(state.purged) /\ last = log_index(state.last)
    BY <1>2 DEF LogIsRun
  <2> SUFFICES ASSUME NEW i \in DOMAIN lg
               PROVE  /\ i >= next_log_index(state.purged)
                      /\ Lt(state.purged, lg[i].log_id)
                      /\ i <= log_index(state.last)
                      /\ log_index(state.last) \in DOMAIN lg
                      /\ lg[log_index(state.last)].log_id = state.last
    BY DEF LogFits
  <2>2. i = first \/ Lt(lg[first].log_id, lg[i].log_id)
    <3>1. first \in Nat /\ i \in Nat /\ first <= i
      BY <1>2, WellFormedTypes
    <3>2. first < i => Lt(lg[first].log_id, lg[i].log_id)
      BY DEF LogIsRun
    <3> QED
      BY <3>1, <3>2
  <2>3. Lt(state.purged, lg[i].log_id)
    BY <2>2, <1>2, WellFormedTypes, IdOrder
  <2>4. first \in Nat /\ last \in Nat /\ i \in Nat
    BY WellFormedTypes
  <2> QED
    BY <2>1, <2>3, <2>4, <1>2
<1> QED
  BY <1>1, <1>2 DEF WellFormed, check_checkpoint

---------------------------------------------------------------------------
(* apply keeps one log.                                                    *)

\* What check leaves to the callers: the id a truncation keeps is one of this
\* log, a purge agrees with it, a declared state describes it.
Proper(s, lg, rec) ==
  /\ rec.type = "TruncateAfter" =>
       rec.log_id = s.purged \/ \E k \in DOMAIN lg : rec.log_id = lg[k].log_id
  /\ rec.type = "PurgeUpto" =>
       /\ Agrees(rec.log_id, s.last)
       /\ \A i \in DOMAIN lg : Agrees(rec.log_id, lg[i].log_id)
  /\ rec.type = "Checkpoint" => WellFormed(rec.state, lg) /\ rec.state.vote >= s.vote

\* A state that differs in the vote or the user data, or commits more of the log.
LEMMA MarksWellFormed ==
  ASSUME NEW s, NEW t, NEW lg, WellFormed(s, lg),
         t.last = s.last, t.purged = s.purged, Le(t.committed, s.last)
  PROVE  WellFormed(t, lg)
<1>1. LogFits(t, lg)
  BY DEF WellFormed, LogFits
<1>2. MarksInOrder(t)
  BY DEF WellFormed, MarksInOrder
<1> QED
  BY <1>1, <1>2 DEF WellFormed

\* A record that passes the check and is proper leaves one log and takes no
\* vote back.
LEMMA ApplyWellFormed ==
  ASSUME NEW s \in RaftLogState, NEW lg, IsLog(lg), WellFormed(s, lg),
         NEW rec \in RaftLogRecord, check(s, rec), Proper(s, lg, rec),
         NEW chunk \in Nat, NEW seg \in Nat
  PROVE  /\ WellFormed(apply_state(s, rec), apply_log(lg, rec, chunk, seg))
         /\ apply_state(s, rec).vote >= s.vote
<1> DEFINE t == apply_state(s, rec)
           l == apply_log(lg, rec, chunk, seg)
<1>0. s.vote \in Int /\ s.vote >= s.vote /\ Le(s.committed, s.last)
  BY DEF RaftLogState, OptVote, NoVote, WellFormed, MarksInOrder
<1>1. CASE rec.type = "SaveVote"
  <2>1. t = [s EXCEPT !.vote = rec.vote] /\ check_vote(s, rec.vote)
    BY <1>1, ApplyStateCases DEF check
  <2>2. t.last = s.last /\ t.purged = s.purged /\ t.committed = s.committed
        /\ t.vote = rec.vote
    BY <2>1 DEF RaftLogState
  <2>3. l = lg
    BY <1>1, Zenon DEF apply_log
  <2> QED
    BY <1>0, <2>1, <2>2, <2>3, MarksWellFormed DEF check_vote
<1>2. CASE rec.type = "Commit"
  <2>1. t = [s EXCEPT !.committed = rec.log_id] /\ check_commit(s, rec.log_id)
    BY <1>2, ApplyStateCases DEF check
  <2>2. t.last = s.last /\ t.purged = s.purged /\ t.committed = rec.log_id /\ t.vote = s.vote
    BY <2>1 DEF RaftLogState
  <2>3. l = lg
    BY <1>2, Zenon DEF apply_log
  <2> QED
    BY <1>0, <2>1, <2>2, <2>3, MarksWellFormed DEF check_commit
<1>3. CASE rec.type = "Checkpoint"
  <2>1. t = rec.state
    BY <1>3, ApplyStateCases
  <2>2. l = lg
    BY <1>3, Zenon DEF apply_log
  <2> QED
    BY <1>3, <2>1, <2>2 DEF Proper
<1>4. CASE rec.type = "Append"
  <2> DEFINE data == NewLogData(rec.log_id, chunk, seg)
  <2>1. /\ t = [s EXCEPT !.last = rec.log_id] /\ check_append(s, rec.log_id)
        /\ rec.log_id \in LogId
    BY <1>4, ApplyStateCases, RecordTypes DEF check
  <2>2. l = InsertLog(lg, log_index(rec.log_id), data)
    BY <1>4, Zenon DEF apply_log
  <2>3. data \in LogData /\ data.log_id = rec.log_id
    BY <2>1, LogDataType DEF NewLogData
  <2>4. t.vote = s.vote
    BY <2>1 DEF RaftLogState
  <2> HIDE DEF data
  <2> QED
    BY <1>0, <2>1, <2>2, <2>3, <2>4, AppendWellFormed
<1>5. CASE rec.type = "TruncateAfter"
  <2>1. /\ t = truncate_after(s, rec.log_id) /\ check_truncate(s, rec.log_id)
        /\ rec.log_id \in OptLogId
    BY <1>5, ApplyStateCases, RecordTypes DEF check
  <2>2. l = RestrictLog(lg, {i \in DOMAIN lg : i < next_log_index(rec.log_id)})
    BY <1>5, Zenon DEF apply_log
  <2>3. t.vote = s.vote
    BY <2>1 DEF truncate_after, RaftLogState
  <2> QED
    BY <1>0, <1>5, <2>1, <2>2, <2>3, TruncateWellFormed DEF Proper
<1>6. CASE rec.type = "PurgeUpto"
  <2>1. t = purge_state(s, rec.log_id) /\ rec.log_id \in LogId
    BY <1>6, ApplyStateCases, RecordTypes
  <2>2. l = RestrictLog(lg, {i \in DOMAIN lg : i >= next_log_index(rec.log_id)})
    BY <1>6, Zenon DEF apply_log
  <2>3. t.vote = s.vote
    BY <2>1 DEF purge_state, RaftLogState
  <2> QED
    BY <1>0, <1>6, <2>1, <2>2, <2>3, PurgeWellFormed DEF Proper
<1> QED
  BY <1>1, <1>2, <1>3, <1>4, <1>5, <1>6, RecordTypes

---------------------------------------------------------------------------
(* The payload cache keeps its type.                                       *)

\* RaftLogStateMachine::apply keeps the cache a cache.
LEMMA ApplyCacheType ==
  ASSUME NEW c, IsCache(c), NEW rec \in RaftLogRecord
  PROVE  IsCache(apply_cache(c, rec))
<1>1. CASE rec.type = "Append"
  <2>1. apply_cache(c, rec) = cache_insert(c, rec.log_id, rec.payload)
    BY <1>1, Zenon DEF apply_cache
  <2>2. rec.log_id \in LogId /\ rec.payload \in Payload
    BY <1>1, RecordTypes
  <2> QED
    BY <2>1, <2>2, InsertType
<1>2. CASE rec.type = "TruncateAfter"
  <2>1. \/ apply_cache(c, rec) = cache_clear(c)
        \/ apply_cache(c, rec) = cache_truncate_after(c, rec.log_id)
    BY <1>2, Zenon DEF apply_cache
  <2>2. IsCache(cache_clear(c))
    BY CacheType DEF cache_clear, IsCache
  <2>3. IsCache(cache_truncate_after(c, rec.log_id))
    BY WithoutType DEF cache_truncate_after
  <2> QED
    BY <2>1, <2>2, <2>3
<1>3. CASE rec.type = "PurgeUpto"
  <2>1. apply_cache(c, rec) = cache_purge_upto(c, rec.log_id)
    BY <1>3, Zenon DEF apply_cache
  <2> QED
    BY <2>1, WithoutType DEF cache_purge_upto
<1>4. CASE rec.type \in {"SaveVote", "Commit", "Checkpoint"}
  <2>1. apply_cache(c, rec) = c
    BY <1>4, Zenon DEF apply_cache
  <2> QED
    BY <2>1
<1> QED
  BY <1>1, <1>2, <1>3, <1>4, RecordTypes

---------------------------------------------------------------------------
(* Closed chunks.                                                          *)

\* Closing a chunk keeps the map of closed chunks.
LEMMA CloseChunkType ==
  ASSUME NEW chunks, IsClosed(chunks), NEW id \in Nat, NEW state \in RaftLogState
  PROVE  IsClosed(CloseChunk(chunks, id, state))
  BY DEF IsClosed, CloseChunk

\* So does draining some of them.
LEMMA DrainType ==
  ASSUME NEW chunks, IsClosed(chunks), NEW S
  PROVE  IsClosed([c \in DOMAIN chunks \ S |-> chunks[c]])
  BY DEF IsClosed

\* The chunks buffer_removable_chunks drains are chunk ids.
LEMMA RemovableType ==
  ASSUME NEW chunks, IsClosed(chunks), NEW purged
  PROVE  Removable(chunks, purged) \subseteq Nat
  BY DEF IsClosed, Removable

---------------------------------------------------------------------------
(* The WAL and the history grow and are cut together.                      *)

WalEntry == [chunk : Nat, rec : RaftLogRecord]

\* One more view of the store.
LEMMA HistoryAppend ==
  ASSUME NEW h, IsHistory(h), NEW v, IsView(v)
  PROVE  IsHistory(Append(h, v)) /\ Len(Append(h, v)) = Len(h) + 1
<1> DEFINE S == {h[p] : p \in DOMAIN h}
           g == Append(h, v)
<1>1. h \in Seq(S)
  BY DEF IsHistory
<1>2. /\ Len(h) \in Nat /\ DOMAIN h = 1 .. Len(h)
      /\ g \in Seq(S \cup {v}) /\ Len(g) = Len(h) + 1
      /\ DOMAIN g = 1 .. Len(g)
      /\ \A p \in 1 .. Len(h) : g[p] = h[p]
      /\ g[Len(h) + 1] = v
  BY <1>1
<1> HIDE DEF S, g
<1>3. g \in Seq({g[p] : p \in DOMAIN g})
  BY <1>2
<1>4. \A p \in DOMAIN g : IsView(g[p])
  BY <1>2 DEF IsHistory
<1> QED
  BY <1>2, <1>3, <1>4 DEF IsHistory, g

\* The views up to a position.
LEMMA HistoryPrefix ==
  ASSUME NEW h, IsHistory(h), NEW r \in 0 .. Len(h)
  PROVE  IsHistory(SubSeq(h, 1, r)) /\ Len(SubSeq(h, 1, r)) = r
<1> DEFINE S == {h[p] : p \in DOMAIN h}
           g == SubSeq(h, 1, r)
<1>1. h \in Seq(S)
  BY DEF IsHistory
<1>2. /\ Len(h) \in Nat /\ DOMAIN h = 1 .. Len(h)
      /\ g \in Seq(S) /\ Len(g) = r
      /\ DOMAIN g = 1 .. r
      /\ \A p \in 1 .. r : g[p] = h[p]
  BY <1>1
<1> HIDE DEF S, g
<1>3. g \in Seq({g[p] : p \in DOMAIN g})
  BY <1>2
<1>4. \A p \in DOMAIN g : IsView(g[p])
  BY <1>2 DEF IsHistory
<1> QED
  BY <1>2, <1>3, <1>4 DEF IsHistory, g

\* A record that goes to the chunk of the last one, or starts a chunk.
LEMMA LedAppend ==
  ASSUME NEW r \in Seq(WalEntry), Led(r), NEW e \in WalEntry,
         \/ Len(r) > 0 /\ e.chunk = r[Len(r)].chunk
         \/ e.chunk = Len(r) /\ e.rec.type = "Checkpoint"
  PROVE  Led(Append(r, e))
<1> DEFINE g == Append(r, e)
<1>1. /\ Len(r) \in Nat /\ g \in Seq(WalEntry) /\ Len(g) = Len(r) + 1
      /\ \A p \in 1 .. Len(r) : g[p] = r[p]
      /\ g[Len(r) + 1] = e
  OBVIOUS
<1> HIDE DEF g
<1>2. ASSUME NEW p \in 1 .. Len(r)
      PROVE  /\ g[p].chunk < p /\ g[g[p].chunk + 1].chunk = g[p].chunk
             /\ g[g[p].chunk + 1].rec.type = "Checkpoint"
  <2>0. r[p] \in WalEntry
    OBVIOUS
  <2>1. r[p].chunk \in Nat /\ r[p].chunk < p
    BY <2>0 DEF Led, WalEntry
  <2>2. r[p].chunk + 1 \in 1 .. Len(r)
    BY <1>1, <2>1
  <2> QED
    BY <1>1, <2>1, <2>2 DEF Led
<1>3. /\ e.chunk < Len(r) + 1 /\ g[e.chunk + 1].chunk = e.chunk
      /\ g[e.chunk + 1].rec.type = "Checkpoint"
  <2>1. CASE Len(r) > 0 /\ e.chunk = r[Len(r)].chunk
    <3>1. e.chunk \in Nat
      BY DEF WalEntry
    <3> QED
      BY <1>1, <1>2, <2>1, <3>1
  <2>2. CASE e.chunk = Len(r) /\ e.rec.type = "Checkpoint"
    BY <1>1, <2>2
  <2> QED
    BY <2>1, <2>2
<1>4. SUFFICES ASSUME NEW p \in 1 .. Len(g)
               PROVE  /\ g[p].chunk < p /\ g[g[p].chunk + 1].chunk = g[p].chunk
                      /\ g[g[p].chunk + 1].rec.type = "Checkpoint"
  BY DEF Led, g
<1>5. p \in 1 .. Len(r) \/ p = Len(r) + 1
  BY <1>1
<1> QED
  BY <1>1, <1>2, <1>3, <1>5

\* The records up to a position.
LEMMA LedPrefix ==
  ASSUME NEW r \in Seq(WalEntry), Led(r), NEW n \in 0 .. Len(r)
  PROVE  /\ Led(SubSeq(r, 1, n)) /\ SubSeq(r, 1, n) \in Seq(WalEntry)
         /\ Len(SubSeq(r, 1, n)) = n
<1> DEFINE g == SubSeq(r, 1, n)
<1>1. /\ Len(r) \in Nat /\ n \in Nat /\ g \in Seq(WalEntry) /\ Len(g) = n
      /\ \A p \in 1 .. n : g[p] = r[p]
  OBVIOUS
<1> HIDE DEF g
<1>2. ASSUME NEW p \in 1 .. n
      PROVE  /\ g[p].chunk < p /\ g[g[p].chunk + 1].chunk = g[p].chunk
             /\ g[g[p].chunk + 1].rec.type = "Checkpoint"
  <2>0. r[p] \in WalEntry /\ p \in 1 .. Len(r)
    BY <1>1
  <2>1. r[p].chunk \in Nat /\ r[p].chunk < p
    BY <2>0 DEF Led, WalEntry
  <2>2. r[p].chunk + 1 \in 1 .. n
    BY <1>1, <2>1
  <2> QED
    BY <1>1, <2>1, <2>2 DEF Led
<1> QED
  BY <1>1, <1>2 DEF Led, g

\* Requests stay covered when the WAL grows.
LEMMA CoversGrow ==
  ASSUME NEW q, NEW r \in Seq(WalEntry), NEW e \in WalEntry, Covers(q, r),
         Len(q) \in Nat
  PROVE  Covers(q, Append(r, e))
<1>1. /\ Len(r) \in Nat /\ Len(Append(r, e)) = Len(r) + 1
      /\ \A p \in 1 .. Len(r) : Append(r, e)[p] = r[p]
  OBVIOUS
<1> QED
  BY <1>1 DEF Covers

\* A request for a chunk's records up to one of its own is covered.
LEMMA CoversWrite ==
  ASSUME NEW q \in Seq(Requests), NEW r \in Seq(WalEntry), Covers(q, r),
         NEW upto \in 1 .. Len(r), NEW sync \in BOOLEAN, NEW ack \in BOOLEAN
  PROVE  LET w == WriteRequest(r[upto].chunk, upto, sync, ack) IN
         Append(q, w) \in Seq(Requests) /\ Covers(Append(q, w), r)
<1> DEFINE w == WriteRequest(r[upto].chunk, upto, sync, ack)
<1>1. r[upto] \in WalEntry /\ upto \in Nat
  OBVIOUS
<1>2. w \in Requests
  BY <1>1 DEF WriteRequest, Requests, WalEntry
<1>3. w.upto = upto /\ w.chunk = r[upto].chunk
  BY DEF WriteRequest
<1> HIDE DEF w
<1>4. /\ Append(q, w) \in Seq(Requests) /\ Len(q) \in Nat
      /\ Len(Append(q, w)) = Len(q) + 1
      /\ \A k \in 1 .. Len(q) : Append(q, w)[k] = q[k]
      /\ Append(q, w)[Len(q) + 1] = w
  BY <1>2
<1>5. Covers(Append(q, w), r)
  BY <1>3, <1>4 DEF Covers
<1> QED
  BY <1>4, <1>5 DEF w

---------------------------------------------------------------------------
(* The caller's operations keep the types and the structure.               *)

\* append_and_apply, whatever the record.
LEMMA AppendAndApplyType ==
  ASSUME TypeInv, status = "up", NEW rec \in RaftLogRecord, NEW buffer \in BOOLEAN,
         append_and_apply(rec, buffer),
         call' \in [rest : Seq(LogId \X Payload), from : Nat]
  PROVE  TypeInv'
<1> DEFINE pos == Len(recs) + 1
           st == apply_state(log_state, rec)
           lg == apply_log(log, rec, open_chunk, pos)
           full == pos - open_chunk >= ChunkMaxRecords
           chunks == IF full THEN CloseChunk(closed, open_chunk, st) ELSE closed
           removable == IF full \/ buffer THEN Removable(chunks, st.purged) ELSE {}
           e == Entry(open_chunk, rec)
           k == Entry(pos, CheckpointRecord(st))
           v == View(st, lg)
<1>1. /\ recs \in Seq(WalEntry) /\ Len(recs) \in Nat /\ pos \in Nat /\ open_chunk \in Nat
      /\ Len(recs) > 0 /\ open_chunk = recs[Len(recs)].chunk
      /\ IsHistory(snap) /\ Len(snap) = Len(recs) /\ Led(recs)
      /\ queue \in Seq(Requests) /\ Len(queue) \in Nat /\ Covers(queue, recs)
  BY DEF TypeInv, TypeOK, Structure, ChunksLed, OpenChunkIsLast, RequestsCover, WalEntry
<1>2. st \in RaftLogState /\ IsLog(lg) /\ IsCache(apply_cache(cache, rec))
  <2>1. log_state \in RaftLogState /\ IsLog(log) /\ IsCache(cache)
    BY DEF TypeInv, TypeOK
  <2> QED
    BY <1>1, <2>1, ApplyStateType, ApplyLogType, ApplyCacheType
<1> HIDE DEF st, lg
<1>3. IsView(v)
  BY <1>2 DEF IsView, View
<1>4. e \in WalEntry /\ k \in WalEntry /\ e.chunk = open_chunk /\ k.chunk = pos
      /\ k.rec.type = "Checkpoint"
  BY <1>1, <1>2 DEF Entry, WalEntry, CheckpointRecord, RaftLogRecord
<1>5. IsClosed(closed') /\ removed_chunks' \subseteq Nat
  <2>1. IsClosed(closed) /\ removed_chunks \subseteq Nat
    BY DEF TypeInv, TypeOK
  <2>2. IsClosed(chunks)
    BY <1>1, <1>2, <2>1, CloseChunkType
  <2> HIDE DEF chunks, full
  <2>3. removable \subseteq Nat
    BY <2>2, RemovableType
  <2>4. closed' = [c \in DOMAIN chunks \ removable |-> chunks[c]]
        /\ removed_chunks' = removed_chunks \cup removable
    BY DEF append_and_apply, chunks, full, st
  <2> HIDE DEF removable
  <2> QED
    BY <2>1, <2>2, <2>3, <2>4, DrainType
<1>6. log_state' = st /\ log' = lg /\ cache' = apply_cache(cache, rec)
      /\ UNCHANGED <<status, first_chunk, written, synced, acked, torn, rp, crashes>>
  BY DEF append_and_apply, st, lg
<1>range. written \in Nat /\ written <= Len(recs)
  BY DEF TypeInv, TypeOK, Structure, WrittenInRange
<1>up. status' = "up"
  BY <1>6
<1> HIDE DEF e, k, v
<1>7. /\ Append(recs, e) \in Seq(WalEntry) /\ Len(Append(recs, e)) = pos
      /\ Append(recs, e)[pos] = e /\ Led(Append(recs, e))
      /\ Covers(queue, Append(recs, e))
      /\ IsHistory(Append(snap, v)) /\ Len(Append(snap, v)) = pos
  BY <1>1, <1>3, <1>4, LedAppend, CoversGrow, HistoryAppend
<1>8. CASE ~full
  <2>1. /\ recs' = Append(recs, e) /\ snap' = Append(snap, v)
        /\ UNCHANGED <<open_chunk, handed, queue, files>>
    BY <1>8 DEF append_and_apply, e, v, st, lg
  <2>2. TypeOK'
    BY <1>2, <1>5, <1>6, <1>7, <2>1 DEF TypeInv, TypeOK, WalEntry
  <2>3. Structure'
    BY <1>1, <1>4, <1>7, <1>range, <1>6, <1>up, <2>1 DEF Structure, ChunksLed, OpenChunkIsLast,
        RequestsCover, WrittenInRange, FilesLed, ReplayPlace
  <2> QED
    BY <2>2, <2>3 DEF TypeInv
<1>9. CASE full
  <2> DEFINE r == Append(recs, e)
             w == WriteRequest(open_chunk, pos, TRUE, FALSE)
  <2>1. /\ recs' = Append(r, k) /\ snap' = Append(Append(snap, v), v)
        /\ open_chunk' = pos /\ handed' = pos
        /\ queue' = Append(queue, w) /\ files' = files \cup {pos}
    BY <1>9 DEF append_and_apply, e, k, v, st, lg
  <2>2. Append(queue, w) \in Seq(Requests) /\ Covers(Append(queue, w), r)
    <3>1. /\ r \in Seq(WalEntry) /\ pos \in 1 .. Len(r) /\ r[pos].chunk = open_chunk
          /\ Covers(queue, r)
      BY <1>1, <1>4, <1>7
    <3> HIDE DEF r
    <3> QED
      BY <1>1, <3>1, CoversWrite
  <2>3. Len(Append(queue, w)) \in Nat
    BY <2>2
  <2> HIDE DEF w, r
  <2>4. /\ r \in Seq(WalEntry) /\ Len(r) = pos /\ Led(r)
    BY <1>7 DEF r
  <2>5. /\ recs' \in Seq(WalEntry) /\ Len(recs') = pos + 1 /\ recs'[pos + 1] = k
        /\ Led(recs') /\ Covers(queue', recs')
    BY <1>4, <2>1, <2>2, <2>3, <2>4, LedAppend, CoversGrow
  <2>6. IsHistory(snap') /\ Len(snap') = pos + 1
    BY <1>3, <1>7, <2>1, HistoryAppend
  <2>7. TypeOK'
    BY <1>1, <1>2, <1>5, <1>6, <2>1, <2>2, <2>5, <2>6 DEF TypeInv, TypeOK, WalEntry
  <2>8. Structure'
    BY <1>1, <1>4, <1>range, <1>6, <1>up, <2>1, <2>5 DEF Structure, ChunksLed,
        OpenChunkIsLast, RequestsCover, WrittenInRange, FilesLed, ReplayPlace
  <2> QED
    BY <2>7, <2>8 DEF TypeInv
<1> QED
  BY <1>8, <1>9

\* Every operation of the caller.
LEMMA CallerType ==
  ASSUME TypeInv, Caller
  PROVE  TypeInv'
<1> DEFINE Calls == [rest : Seq(LogId \X Payload), from : Nat]
<1>1. /\ call \in Calls /\ NoCall \in Calls /\ Len(recs) \in Nat
      /\ log_state \in RaftLogState /\ IsLog(log) /\ recs \in Seq(WalEntry)
  BY DEF TypeInv, TypeOK, NoCall, WalEntry
<1>2. ASSUME NEW vote \in Votes, save_vote(vote)
      PROVE  TypeInv'
  <2>1. SaveVoteAction(vote) \in RaftLogRecord
    BY InputAssumption DEF SaveVoteAction, RaftLogRecord
  <2> QED
    BY <1>1, <1>2, <2>1, AppendAndApplyType DEF save_vote, Ready
<1>3. ASSUME NEW user_data \in UserDatas, save_user_data(user_data)
      PROVE  TypeInv'
  <2>1. [log_state EXCEPT !.user_data = user_data] \in RaftLogState
    BY <1>1, InputAssumption DEF RaftLogState
  <2>2. CheckpointRecord([log_state EXCEPT !.user_data = user_data]) \in RaftLogRecord
    BY <2>1 DEF CheckpointRecord, RaftLogRecord
  <2> QED
    BY <1>1, <1>3, <2>2, AppendAndApplyType DEF save_user_data, Ready
<1>4. ASSUME NEW entries \in Batches, append(entries)
      PROVE  TypeInv'
  <2>1. /\ entries \in Seq(LogId \X Payload) /\ Len(entries) \in Nat /\ Len(entries) > 0
    BY InputAssumption, BoundAssumption DEF Batches
  <2>2. entries[1] \in LogId \X Payload /\ Tail(entries) \in Seq(LogId \X Payload)
    BY <2>1
  <2>3. AppendAction(entries[1][1], entries[1][2]) \in RaftLogRecord
    BY <2>2 DEF AppendAction, RaftLogRecord
  <2>4. call' \in Calls
    BY <1>1, <1>4, <2>2 DEF append
  <2> QED
    BY <1>4, <2>3, <2>4, AppendAndApplyType DEF append, Ready
<1>5. ASSUME append_next
      PROVE  TypeInv'
  <2>1. call.rest \in Seq(LogId \X Payload) /\ call.rest # <<>>
    BY <1>1, <1>5 DEF append_next
  <2>2. call.rest[1] \in LogId \X Payload /\ Tail(call.rest) \in Seq(LogId \X Payload)
    BY <2>1
  <2>3. AppendAction(call.rest[1][1], call.rest[1][2]) \in RaftLogRecord
    BY <2>2 DEF AppendAction, RaftLogRecord
  <2>4. call' \in Calls
    BY <1>1, <1>5, <2>2 DEF append_next
  <2> QED
    BY <1>5, <2>3, <2>4, AppendAndApplyType DEF append_next
<1>6. ASSUME append_reject
      PROVE  TypeInv'
  BY <1>1, <1>6 DEF append_reject, wal, worker, disk, TypeInv, TypeOK, Structure,
      ChunksLed, OpenChunkIsLast, RequestsCover, WrittenInRange, FilesLed, ReplayPlace
<1>7. ASSUME NEW index \in Indexes, truncate(index)
      PROVE  TypeInv'
  <2>1. PICK keep \in TruncateKeeps(index) :
          append_and_apply(TruncateAfterAction(keep), FALSE)
    BY <1>7 DEF truncate
  <2>2. keep \in OptLogId
    BY <1>1 DEF TruncateKeeps, IsLog, LogData, RaftLogState, OptLogId
  <2>3. TruncateAfterAction(keep) \in RaftLogRecord
    BY <2>2 DEF TruncateAfterAction, RaftLogRecord
  <2> QED
    BY <1>1, <1>7, <2>1, <2>3, AppendAndApplyType DEF truncate, Ready
<1>8. ASSUME NEW id \in LogIds, purge(id)
      PROVE  TypeInv'
  <2>1. PurgeUptoAction(id) \in RaftLogRecord
    BY InputAssumption DEF PurgeUptoAction, RaftLogRecord
  <2> QED
    BY <1>1, <1>8, <2>1, AppendAndApplyType DEF purge, Ready
<1>9. ASSUME NEW id \in LogIds, commit(id)
      PROVE  TypeInv'
  <2>1. CommitAction(id) \in RaftLogRecord
    BY InputAssumption DEF CommitAction, RaftLogRecord
  <2> QED
    BY <1>1, <1>9, <2>1, AppendAndApplyType DEF commit, Ready
<1>10. ASSUME NEW state \in RestoreStates, update_state(state)
       PROVE  TypeInv'
  <2>1. CheckpointRecord(state) \in RaftLogRecord
    BY InputAssumption DEF CheckpointRecord, RaftLogRecord
  <2> QED
    BY <1>1, <1>10, <2>1, AppendAndApplyType DEF update_state, Ready
<1>11. ASSUME NEW sync \in BOOLEAN, flush(sync)
       PROVE  TypeInv'
  <2> DEFINE write == WriteRequest(open_chunk, Len(recs), sync, sync)
             q == Append(queue, write)
             remove == RemoveRequest(Removals(sync))
  <2>1. /\ queue \in Seq(Requests) /\ Covers(queue, recs) /\ Len(recs) \in 1 .. Len(recs)
        /\ open_chunk = recs[Len(recs)].chunk
    BY <1>1, <1>11 DEF TypeInv, TypeOK, Structure, OpenChunkIsLast, RequestsCover, flush, Ready
  <2>2. q \in Seq(Requests) /\ Covers(q, recs) /\ Len(q) \in Nat
    BY <1>1, <2>1, CoversWrite
  <2>3. remove \in Requests /\ remove.type # "Write"
    BY DEF TypeInv, TypeOK, Removals, RemoveRequest, Requests
  <2> HIDE DEF q, remove
  <2>4. /\ Append(q, remove) \in Seq(Requests) /\ Len(Append(q, remove)) = Len(q) + 1
        /\ \A k \in 1 .. Len(q) : Append(q, remove)[k] = q[k]
        /\ Append(q, remove)[Len(q) + 1] = remove
    BY <2>2, <2>3
  <2>5. Covers(Append(q, remove), recs)
    BY <2>2, <2>3, <2>4 DEF Covers
  <2>6. queue' = q \/ queue' = Append(q, remove)
    BY <1>11 DEF flush, q, remove
  <2>7. queue' \in Seq(Requests) /\ Covers(queue', recs)
    BY <2>2, <2>4, <2>5, <2>6
  <2>8. /\ handed' = Len(recs) /\ removed_chunks' \subseteq removed_chunks
        /\ UNCHANGED <<status, mem, recs, snap, open_chunk, first_chunk, closed,
                       written, synced, acked, disk, rp>>
        /\ status = "up"
    BY <1>11 DEF flush, Ready, StillRemoved
  <2> QED
    BY <1>1, <2>7, <2>8 DEF mem, disk, TypeInv, TypeOK, Structure, ChunksLed,
        OpenChunkIsLast, RequestsCover, WrittenInRange, FilesLed, ReplayPlace
<1>12. ASSUME drain_cache_evictable
       PROVE  TypeInv'
  <2>1. IsCache(cache')
    BY <1>12, WithoutType DEF drain_cache_evictable, drain_evictable, TypeInv, TypeOK
  <2> QED
    BY <1>12, <2>1 DEF drain_cache_evictable, wal, worker, disk, TypeInv, TypeOK,
        Structure, ChunksLed, OpenChunkIsLast, RequestsCover, WrittenInRange, FilesLed,
        ReplayPlace
<1> QED
  BY <1>2, <1>3, <1>4, <1>5, <1>6, <1>7, <1>8, <1>9, <1>10, <1>11, <1>12 DEF Caller

---------------------------------------------------------------------------
(* The FlushWorker keeps them.                                             *)

\* The requests left behind the first one.
LEMMA CoversTail ==
  ASSUME NEW q \in Seq(Requests), q # <<>>, NEW r, Covers(q, r)
  PROVE  /\ Head(q) \in Requests /\ Tail(q) \in Seq(Requests) /\ Covers(Tail(q), r)
         /\ Head(q).type = "Write" =>
              Head(q).upto \in 1 .. Len(r) /\ Head(q).chunk = r[Head(q).upto].chunk
<1>1. /\ Head(q) \in Requests /\ Tail(q) \in Seq(Requests) /\ Head(q) = q[1]
      /\ Len(q) \in Nat /\ Len(q) > 0 /\ Len(Tail(q)) = Len(q) - 1
      /\ \A k \in 1 .. Len(q) - 1 : Tail(q)[k] = q[k + 1]
  OBVIOUS
<1>2. Covers(Tail(q), r)
  BY <1>1 DEF Covers
<1> QED
  BY <1>1, <1>2 DEF Covers

\* Every step of the FlushWorker.
LEMMA FlushWorkerType ==
  ASSUME TypeInv, FlushWorker
  PROVE  TypeInv'
<1>1. /\ status = "up" /\ queue # <<>> /\ queue \in Seq(Requests)
      /\ Covers(queue, recs) /\ Led(recs)
      /\ recs \in Seq(WalEntry) /\ Len(recs) \in Nat
  BY DEF FlushWorker, WorkerWrite, WorkerSync, WorkerRemove, Serving, TypeInv, TypeOK,
      Structure, RequestsCover, ChunksLed, WalEntry
<1>2. /\ Head(queue) \in Requests /\ Tail(queue) \in Seq(Requests)
      /\ Covers(Tail(queue), recs)
      /\ Head(queue).type = "Write" => /\ Head(queue).upto \in 1 .. Len(recs)
                                       /\ Head(queue).chunk = recs[Head(queue).upto].chunk
  BY <1>1, CoversTail
<1>3. ASSUME WorkerWrite
      PROVE  TypeInv'
  <2>1. written' \in Nat /\ written' <= Len(recs)
    BY <1>1, <1>2, <1>3 DEF WorkerWrite, Serving
  <2>2. queue' \in Seq(Requests) /\ Covers(queue', recs)
    BY <1>1, <1>2, <1>3 DEF WorkerWrite, AfterWrite
  <2> QED
    BY <1>1, <1>3, <2>1, <2>2 DEF WorkerWrite, mem, wal, disk, TypeInv, TypeOK,
        Structure, ChunksLed, OpenChunkIsLast, RequestsCover, WrittenInRange, FilesLed,
        ReplayPlace
<1>4. ASSUME WorkerSync
      PROVE  TypeInv'
  <2>1. IsCache(cache')
    <3>1. IsCache(cache)
      BY DEF TypeInv, TypeOK
    <3> DEFINE u == Head(queue).upto
               c == Head(queue).chunk
    <3>2. u \in 1 .. Len(recs) /\ c = recs[u].chunk
      BY <1>2, <1>4 DEF WorkerSync, Serving
    <3> HIDE DEF u, c
    <3>3. recs[u] \in WalEntry
      BY <1>1, <3>2
    <3>4. c \in Nat /\ c < u /\ recs[c + 1].rec.type = "Checkpoint"
      BY <1>1, <3>2, <3>3 DEF Led, WalEntry
    <3>5. c + 1 \in 1 .. Len(recs)
      BY <1>1, <3>2, <3>4
    <3>6. recs[c + 1] \in WalEntry
      BY <1>1, <3>5
    <3>7. LeadingState(c).last \in OptLogId
      BY <3>4, <3>6, RecordTypes DEF LeadingState, RaftLogState, WalEntry
    <3>8. cache' = on_chunk_persisted(c)
      BY <1>4 DEF WorkerSync, c
    <3> QED
      BY <3>1, <3>7, <3>8, SetEvictableType DEF on_chunk_persisted
  <2>2. written \in Nat /\ synced' = written /\ (acked' = written \/ acked' = acked)
    BY <1>4 DEF WorkerSync, TypeInv, TypeOK
  <2> QED
    BY <1>1, <1>2, <1>4, <2>1, <2>2 DEF WorkerSync, wal, disk, TypeInv, TypeOK,
        Structure, ChunksLed, OpenChunkIsLast, RequestsCover, WrittenInRange, FilesLed,
        ReplayPlace
<1>5. ASSUME WorkerRemove
      PROVE  TypeInv'
  <2>1. PICK c \in Head(queue).ids :
          /\ files' = files \ {c}
          /\ queue' = IF Head(queue).ids = {c} THEN Tail(queue)
                      ELSE <<RemoveRequest(Head(queue).ids \ {c})>> \o Tail(queue)
    BY <1>5 DEF WorkerRemove
  <2> DEFINE rest == RemoveRequest(Head(queue).ids \ {c})
             q == Tail(queue)
  <2>2. rest \in Requests /\ rest.type # "Write"
    BY <1>2, <1>5 DEF WorkerRemove, Serving, Requests, RemoveRequest
  <2> HIDE DEF rest, q
  <2>3. q \in Seq(Requests) /\ Covers(q, recs) /\ Len(q) \in Nat
    BY <1>2 DEF q
  <2>4. /\ <<rest>> \o q \in Seq(Requests) /\ Len(<<rest>> \o q) = Len(q) + 1
        /\ (<<rest>> \o q)[1] = rest
        /\ \A k \in 2 .. Len(q) + 1 : (<<rest>> \o q)[k] = q[k - 1]
    BY <2>2, <2>3
  <2>5. Covers(<<rest>> \o q, recs)
    BY <2>2, <2>3, <2>4 DEF Covers
  <2>6. queue' \in Seq(Requests) /\ Covers(queue', recs)
    BY <2>1, <2>3, <2>4, <2>5 DEF q, rest
  <2> QED
    BY <1>1, <1>5, <2>1, <2>6 DEF WorkerRemove, mem, wal, TypeInv, TypeOK,
        Structure, ChunksLed, OpenChunkIsLast, RequestsCover, WrittenInRange, FilesLed,
        ReplayPlace
<1> QED
  BY <1>3, <1>4, <1>5 DEF FlushWorker

---------------------------------------------------------------------------
(* Crash and recovery keep them.                                           *)

\* A crash, wherever it cuts the records.
LEMMA CrashType ==
  ASSUME TypeInv, Fail
  PROVE  TypeInv'
<1>1. PICK r \in synced .. Reach, incomplete \in BOOLEAN : Crash(r, incomplete)
  BY DEF Fail
<1>2. /\ recs \in Seq(WalEntry) /\ Len(recs) \in Nat /\ Led(recs)
      /\ IsHistory(snap) /\ Len(snap) = Len(recs)
      /\ synced \in Nat /\ written \in Nat /\ crashes \in Nat
      /\ queue \in Seq(Requests) /\ Covers(queue, recs) /\ written <= Len(recs)
  BY DEF TypeInv, TypeOK, Structure, ChunksLed, RequestsCover, WrittenInRange, WalEntry
<1>3. Reach \in Nat /\ Reach <= Len(recs)
  BY <1>2, CoversTail DEF Reach, Serving
<1>4. r \in Nat /\ r \in 0 .. Len(recs)
  BY <1>2, <1>3
<1>5. /\ recs' \in Seq(WalEntry) /\ Led(recs') /\ Len(recs') = r
      /\ IsHistory(snap') /\ Len(snap') = r
  BY <1>1, <1>2, <1>4, LedPrefix, HistoryPrefix DEF Crash
<1>6. default_state \in RaftLogState /\ IsLog(EmptyMap) /\ IsClosed(EmptyMap)
  BY DEF default_state, RaftLogState, OptVote, OptLogId, OptUserData, NoVote,
      NoUserData, IsLog, IsClosed, EmptyMap
<1>7. IsCache(new_cache)
  BY CacheType DEF new_cache, OptLogId
<1>8. /\ <<>> \in Seq(Requests) /\ Len(<<>>) = 0
      /\ NoCall \in [rest : Seq(LogId \X Payload), from : Nat]
  BY DEF NoCall
<1>torn. torn' \in BOOLEAN
  BY <1>1 DEF Crash
<1>rest. /\ status' = "down" /\ log_state' = default_state /\ log' = EmptyMap
         /\ cache' = new_cache /\ call' = NoCall /\ open_chunk' = 0 /\ first_chunk' = 0
         /\ closed' = EmptyMap /\ removed_chunks' = {} /\ queue' = <<>>
         /\ handed' = r /\ written' = r /\ rp' = 0 /\ crashes' = crashes + 1
         /\ synced' = synced /\ acked' = acked /\ files' \subseteq files
  BY <1>1 DEF Crash
<1>9. TypeOK'
  BY <1>2, <1>4, <1>5, <1>6, <1>7, <1>8, <1>torn, <1>rest DEF TypeInv, TypeOK, WalEntry
<1>10. Structure'
  BY <1>1, <1>2, <1>4, <1>5, <1>8 DEF Crash, Structure, ChunksLed, OpenChunkIsLast,
      RequestsCover, Covers, WrittenInRange, FilesLed, ReplayPlace
<1> QED
  BY <1>9, <1>10 DEF TypeInv

\* Every step of RaftLog::open.
LEMMA OpenType ==
  ASSUME TypeInv, open
  PROVE  TypeInv'
<1>1. /\ recs \in Seq(WalEntry) /\ Len(recs) \in Nat /\ Led(recs)
      /\ IsHistory(snap) /\ Len(snap) = Len(recs)
      /\ log_state \in RaftLogState /\ IsLog(log) /\ IsCache(cache) /\ IsClosed(closed)
      /\ files \subseteq Nat /\ open_chunk \in Nat /\ rp \in Nat
      /\ written = Len(recs) /\ queue = <<>> /\ status # "up"
      /\ \A c \in files : c < Len(recs)
  BY DEF open, OpenStart, ReplayRecord, OpenFinish, TypeInv, TypeOK, Structure, ChunksLed,
      WrittenInRange, FilesLed, WalEntry
<1>2. ASSUME OpenStart
      PROVE  TypeInv'
  <2>1. files # {} => Oldest \in files
    BY <1>1, LeastMember DEF Oldest
  <2>2. /\ rp' = IF files = {} THEN Len(recs) ELSE Oldest
        /\ open_chunk' = rp' /\ status' \in {"failed", "replay"}
        /\ UNCHANGED <<mem, recs, snap, first_chunk, closed, removed_chunks, handed,
                       worker, disk>>
    BY <1>2 DEF OpenStart
  <2>3. /\ rp' \in Nat /\ rp' <= Len(recs)
        /\ files = {} => rp' = Len(recs)
        /\ files # {} => rp' < Len(recs)
    <3>1. CASE files = {}
      <4>1. rp' = Len(recs)
        BY <2>2, <3>1
      <4> QED
        BY <1>1, <3>1, <4>1
    <3>2. CASE files # {}
      <4>1. rp' \in files
        BY <2>1, <2>2, <3>2
      <4>2. rp' \in Nat /\ rp' < Len(recs)
        BY <1>1, <4>1
      <4>3. Len(recs) \in Nat
        BY <1>1
      <4> QED
        BY <3>2, <4>2, <4>3
    <3> QED
      BY <3>1, <3>2
  <2> QED
    BY <1>1, <2>2, <2>3 DEF mem, worker, disk, TypeInv, TypeOK, Structure, ChunksLed,
        OpenChunkIsLast, RequestsCover, WrittenInRange, FilesLed, ReplayPlace
<1>3. ASSUME ReplayRecord
      PROVE  TypeInv'
  <2> DEFINE chunk == recs[rp + 1].chunk
             rec == recs[rp + 1].rec
             entered == chunk # open_chunk
             c == IF entered THEN set_last_evictable(cache, log_state.last) ELSE cache
  <2>1. /\ status = "replay" /\ rp + 1 \in 1 .. Len(recs)
        /\ UNCHANGED <<call, recs, snap, first_chunk, removed_chunks, handed, worker, disk>>
    BY <1>1, <1>3 DEF ReplayRecord
  <2>2. recs[rp + 1] \in WalEntry
    BY <1>1, <2>1
  <2>3. chunk \in Nat /\ rec \in RaftLogRecord
    BY <2>2 DEF WalEntry
  <2>4. log_state.last \in OptLogId
    BY <1>1 DEF RaftLogState
  <2>5. IsCache(c)
    BY <1>1, <2>4, SetEvictableType
  <2> HIDE DEF c
  <2>6. CASE check(log_state, rec)
    <3>1. /\ log_state' = apply_state(log_state, rec)
          /\ log' = apply_log(log, rec, chunk, rp + 1)
          /\ cache' = apply_cache(c, rec)
          /\ closed' = (IF entered THEN CloseChunk(closed, open_chunk, log_state) ELSE closed)
          /\ open_chunk' = chunk /\ rp' = rp + 1 /\ status' = status
      BY <1>3, <2>6 DEF ReplayRecord, c
    <3> HIDE DEF rec, entered
    <3>2. log_state' \in RaftLogState /\ IsLog(log') /\ IsCache(cache') /\ IsClosed(closed')
      BY <1>1, <2>1, <2>3, <2>5, <3>1, ApplyStateType, ApplyLogType, ApplyCacheType,
          CloseChunkType
    <3> QED
      BY <1>1, <2>1, <2>3, <3>1, <3>2 DEF worker, disk, TypeInv, TypeOK, Structure,
          ChunksLed, OpenChunkIsLast, RequestsCover, WrittenInRange, FilesLed, ReplayPlace
  <2>7. CASE ~check(log_state, rec)
    <3>1. /\ status' = "failed"
          /\ UNCHANGED <<log_state, log, cache, closed, open_chunk, rp>>
      BY <1>3, <2>7 DEF ReplayRecord
    <3> QED
      BY <1>1, <2>1, <3>1 DEF worker, disk, TypeInv, TypeOK, Structure,
          ChunksLed, OpenChunkIsLast, RequestsCover, WrittenInRange, FilesLed, ReplayPlace
  <2> QED
    BY <2>6, <2>7
<1>4. ASSUME OpenFinish
      PROVE  TypeInv'
  <2> DEFINE create == files = {} \/ torn
             chunks == IF torn THEN CloseChunk(closed, open_chunk, log_state) ELSE closed
             removable == RemovableOnOpen(chunks)
             chunk == IF create THEN Len(recs) ELSE open_chunk
             e == Entry(chunk, CheckpointRecord(log_state))
             v == View(log_state, log)
  <2>1. IsClosed(chunks)
    BY <1>1, CloseChunkType
  <2> HIDE DEF chunks
  <2>2. removable \subseteq Nat
    BY <2>1, RemovableType DEF RemovableOnOpen
  <2> HIDE DEF removable
  <2>3. chunk \in Nat
    BY <1>1
  <2>4. /\ status' = "up" /\ open_chunk' = chunk /\ first_chunk' = chunk
        /\ closed' = [c \in DOMAIN chunks \ removable |-> chunks[c]]
        /\ removed_chunks' = removable /\ files' = files \cup {chunk}
        /\ (synced' = Len(recs) \/ synced' = synced) /\ torn' = FALSE
        /\ UNCHANGED <<log_state, log, cache, call, handed, queue, written, acked,
                       crashes, rp>>
    BY <1>4 DEF OpenFinish, chunks, removable
  <2>5. IsClosed(closed')
    BY <2>1, <2>4, DrainType
  <2>6. CASE create
    <3>1. recs' = Append(recs, e) /\ snap' = Append(snap, v)
      BY <1>4, <2>6 DEF OpenFinish
    <3>2. /\ e \in WalEntry /\ e.chunk = Len(recs) /\ e.rec.type = "Checkpoint"
      BY <1>1, <2>3, <2>6 DEF Entry, CheckpointRecord, WalEntry, RaftLogRecord
    <3>3. IsView(v)
      BY <1>1 DEF View, IsView
    <3> HIDE DEF e, v
    <3>4. /\ recs' \in Seq(WalEntry) /\ Len(recs') = Len(recs) + 1 /\ Led(recs')
          /\ recs'[Len(recs) + 1] = e /\ IsHistory(snap') /\ Len(snap') = Len(recs) + 1
      BY <1>1, <3>1, <3>2, <3>3, LedAppend, HistoryAppend
    <3>5. TypeOK'
      BY <1>1, <2>2, <2>3, <2>4, <2>5, <3>4 DEF TypeInv, TypeOK, WalEntry
    <3>6. Structure'
      <4>1. chunk = Len(recs)
        BY <2>6
      <4> QED
        BY <1>1, <2>4, <3>2, <3>4, <4>1 DEF Structure, Covers,
            ChunksLed, OpenChunkIsLast, RequestsCover, WrittenInRange, FilesLed, ReplayPlace
    <3> QED
      BY <3>5, <3>6 DEF TypeInv
  <2>7. CASE ~create
    <3>1. recs' = recs /\ snap' = snap
      BY <1>4, <2>7 DEF OpenFinish
    <3>2. rp = Len(recs) /\ rp > 0 /\ open_chunk = recs[rp].chunk /\ chunk = open_chunk
      BY <1>1, <1>4, <2>7 DEF OpenFinish, TypeInv, Structure, ReplayPlace
    <3>5. TypeOK'
      BY <1>1, <2>2, <2>3, <2>4, <2>5, <3>1 DEF TypeInv, TypeOK, WalEntry
    <3>6. Structure'
      BY <1>1, <2>4, <3>1, <3>2 DEF Structure, Covers,
          ChunksLed, OpenChunkIsLast, RequestsCover, WrittenInRange, FilesLed, ReplayPlace
    <3> QED
      BY <3>5, <3>6 DEF TypeInv
  <2> QED
    BY <2>6, <2>7
<1> QED
  BY <1>2, <1>3, <1>4 DEF open

---------------------------------------------------------------------------
(* The theorem.                                                            *)

\* A store that was never opened has the types and the structure.
LEMMA InitType ==
  ASSUME Init
  PROVE  TypeInv
<1>1. default_state \in RaftLogState /\ IsLog(EmptyMap) /\ IsClosed(EmptyMap)
  BY DEF default_state, RaftLogState, OptVote, OptLogId, OptUserData, NoVote,
      NoUserData, IsLog, IsClosed, EmptyMap
<1>2. IsCache(new_cache)
  BY CacheType DEF new_cache, OptLogId
<1>3. /\ <<>> \in Seq(Requests) /\ <<>> \in Seq(WalEntry) /\ Len(<<>>) = 0
      /\ IsHistory(<<>>)
      /\ NoCall \in [rest : Seq(LogId \X Payload), from : Nat]
  BY DEF NoCall, IsHistory
<1>4. TypeOK
  <2>1. /\ status \in {"down", "replay", "up", "failed"} /\ log_state \in RaftLogState
        /\ IsLog(log) /\ IsCache(cache) /\ IsClosed(closed)
        /\ call \in [rest : Seq(LogId \X Payload), from : Nat]
    BY <1>1, <1>2, <1>3 DEF Init
  <2>2. /\ recs \in Seq(WalEntry) /\ Len(snap) = Len(recs) /\ IsHistory(snap)
        /\ queue \in Seq(Requests)
    BY <1>3 DEF Init
  <2>0. torn = FALSE
    BY DEF Init
  <2>4. removed_chunks = {} /\ files = {}
    BY DEF Init
  <2>3. /\ \A n \in {open_chunk, first_chunk, handed, written, synced, acked, rp,
                     crashes} : n \in Nat
    BY DEF Init
  <2> QED
    BY <2>0, <2>1, <2>2, <2>3, <2>4 DEF TypeOK, WalEntry
<1>5. Structure
  BY <1>3 DEF Init, Structure, ChunksLed, OpenChunkIsLast, RequestsCover, WrittenInRange,
      FilesLed, ReplayPlace, Led, Covers
<1> QED
  BY <1>4, <1>5 DEF TypeInv

\* Every step keeps the types and the structure.
LEMMA NextType ==
  ASSUME TypeInv, [Next]_vars
  PROVE  TypeInv'
<1>1. CASE UNCHANGED vars
  BY <1>1 DEF vars, mem, wal, worker, disk, TypeInv, TypeOK, Structure, ChunksLed,
      OpenChunkIsLast, RequestsCover, WrittenInRange, FilesLed, ReplayPlace
<1> QED
  BY <1>1, CallerType, FlushWorkerType, OpenType, CrashType DEF Next

\* In every behaviour of a store, through any interleaving of calls, FlushWorker
\* steps, crashes and recoveries, the variables keep their types, each chunk
\* starts with the checkpoint on_chunk_persisted reads, each request names
\* records that exist, and a replay stands at a record of the chunk it reads.
THEOREM StructureHolds == Spec => []TypeInv
<1>1. Init => TypeInv
  BY InitType
<1>2. TypeInv /\ [Next]_vars => TypeInv'
  BY NextType
<1> QED
  BY <1>1, <1>2, PTL DEF Spec

\* The types the structs of the code give the state of a store hold in every
\* state it reaches, for every configuration, input and bound.
THEOREM TypeCorrect == Spec => []TypeOK
<1>1. TypeInv => TypeOK
  BY DEF TypeInv
<1> QED
  BY <1>1, StructureHolds, PTL

---------------------------------------------------------------------------
(* Lemmas about the history of a WAL: what stays true of the records, the  *)
(* views, the files, the closed chunks and the requests when a record is   *)
(* added, a chunk is closed or removed, a request is queued or served, and *)
(* a crash cuts the WAL.                                                   *)

---------------------------------------------------------------------------
(* What one record does to the log map.                                    *)

\* An entry of the new log map is an old one or the one just appended.
LEMMA ApplyLogKeeps ==
  ASSUME NEW l, IsLog(l), NEW rec \in RaftLogRecord, NEW chunk \in Nat, NEW seg \in Nat,
         NEW i \in DOMAIN apply_log(l, rec, chunk, seg)
  PROVE  \/ i \in DOMAIN l /\ apply_log(l, rec, chunk, seg)[i] = l[i]
         \/ /\ apply_log(l, rec, chunk, seg)[i].segment = seg
            /\ apply_log(l, rec, chunk, seg)[i].chunk_id = chunk
<1>1. CASE rec.type = "Append"
  <2>1. apply_log(l, rec, chunk, seg) =
          InsertLog(l, log_index(rec.log_id), NewLogData(rec.log_id, chunk, seg))
    BY <1>1, Zenon DEF apply_log
  <2> QED
    BY <2>1 DEF InsertLog, NewLogData
<1>2. CASE rec.type \in {"TruncateAfter", "PurgeUpto"}
  <2>1. \E S : apply_log(l, rec, chunk, seg) = RestrictLog(l, S)
    BY <1>2, Zenon DEF apply_log
  <2> QED
    BY <2>1 DEF RestrictLog
<1>3. CASE rec.type \in {"SaveVote", "Commit", "Checkpoint"}
  <2>1. apply_log(l, rec, chunk, seg) = l
    BY <1>3, Zenon DEF apply_log
  <2> QED
    BY <2>1
<1> QED
  BY <1>1, <1>2, <1>3, RecordTypes

\* Replaying a record commutes with leaving out the entries up to position n.
LEMMA ApplyLogAfter ==
  ASSUME NEW l, IsLog(l), NEW rec \in RaftLogRecord, NEW chunk \in Nat, NEW seg \in Nat,
         NEW n \in Nat, n < seg
  PROVE  apply_log(After(l, n), rec, chunk, seg) = After(apply_log(l, rec, chunk, seg), n)
<1> DEFINE a == After(l, n)
<1>0. /\ DOMAIN a = {i \in DOMAIN l : l[i].segment > n}
      /\ \A i \in DOMAIN a : a[i] = l[i]
      /\ a = [i \in DOMAIN a |-> l[i]]
  BY DEF After, RestrictLog
<1> HIDE DEF a
<1>1. CASE rec.type = "Append"
  <2> DEFINE i == log_index(rec.log_id)
             d == NewLogData(rec.log_id, chunk, seg)
  <2>1. apply_log(a, rec, chunk, seg) = InsertLog(a, i, d)
        /\ apply_log(l, rec, chunk, seg) = InsertLog(l, i, d)
    BY <1>1, Zenon DEF apply_log
  <2>2. d.segment > n
    BY DEF NewLogData
  <2> HIDE DEF i, d
  <2>3. After(InsertLog(l, i, d), n) = InsertLog(a, i, d)
    BY <1>0, <2>2 DEF After, RestrictLog, InsertLog
  <2> QED
    BY <2>1, <2>3 DEF a
<1>2. CASE rec.type = "TruncateAfter"
  <2> DEFINE m == next_log_index(rec.log_id)
  <2>1. /\ apply_log(a, rec, chunk, seg) = RestrictLog(a, {i \in DOMAIN a : i < m})
        /\ apply_log(l, rec, chunk, seg) = RestrictLog(l, {i \in DOMAIN l : i < m})
    BY <1>2, Zenon DEF apply_log
  <2> HIDE DEF m
  <2>2. After(RestrictLog(l, {i \in DOMAIN l : i < m}), n)
          = RestrictLog(a, {i \in DOMAIN a : i < m})
    BY <1>0 DEF After, RestrictLog
  <2> QED
    BY <2>1, <2>2 DEF a
<1>3. CASE rec.type = "PurgeUpto"
  <2> DEFINE m == next_log_index(rec.log_id)
  <2>1. /\ apply_log(a, rec, chunk, seg) = RestrictLog(a, {i \in DOMAIN a : i >= m})
        /\ apply_log(l, rec, chunk, seg) = RestrictLog(l, {i \in DOMAIN l : i >= m})
    BY <1>3, Zenon DEF apply_log
  <2> HIDE DEF m
  <2>2. After(RestrictLog(l, {i \in DOMAIN l : i >= m}), n)
          = RestrictLog(a, {i \in DOMAIN a : i >= m})
    BY <1>0 DEF After, RestrictLog
  <2> QED
    BY <2>1, <2>2 DEF a
<1>4. CASE rec.type \in {"SaveVote", "Commit", "Checkpoint"}
  <2>1. apply_log(a, rec, chunk, seg) = a /\ apply_log(l, rec, chunk, seg) = l
    BY <1>4, Zenon DEF apply_log
  <2> QED
    BY <2>1 DEF a
<1> QED
  BY <1>1, <1>2, <1>3, <1>4, RecordTypes

---------------------------------------------------------------------------
(* One more record: records r with history h grow by record e, view v.     *)

Wal(r, h) == r \in Seq(WalEntry) /\ IsHistory(h) /\ Len(h) = Len(r) /\ Led(r)

Grows(r, h, e, v) ==
  /\ e \in WalEntry /\ IsView(v)
  /\ Builds(At(h, Len(r)), e, Len(r) + 1, v)
  /\ WellFormed(v.log_state, v.log)
  /\ v.log_state.vote >= At(h, Len(r)).log_state.vote
  /\ \/ Len(r) > 0 /\ e.chunk = r[Len(r)].chunk
     \/ e.chunk = Len(r) /\ e.rec = CheckpointRecord(At(h, Len(r)).log_state)

\* What the records and the views are, by position.
LEMMA WalTypes ==
  ASSUME NEW r, NEW h, Wal(r, h)
  PROVE  /\ Len(r) \in Nat
         /\ \A p \in 1 .. Len(r) :
              /\ r[p] \in WalEntry /\ r[p].chunk \in Nat /\ r[p].rec \in RaftLogRecord
              /\ IsView(h[p]) /\ h[p].log_state \in RaftLogState /\ IsLog(h[p].log)
         /\ \A p \in 0 .. Len(r) : /\ IsView(At(h, p)) /\ At(h, p).log_state \in RaftLogState
                                   /\ IsLog(At(h, p).log)
<1>1. Len(r) \in Nat /\ Len(h) = Len(r) /\ DOMAIN h = 1 .. Len(r)
  BY DEF Wal, IsHistory
<1>2. ASSUME NEW p \in 1 .. Len(r)
      PROVE  /\ r[p] \in WalEntry /\ r[p].chunk \in Nat /\ r[p].rec \in RaftLogRecord
             /\ IsView(h[p]) /\ h[p].log_state \in RaftLogState /\ IsLog(h[p].log)
  <2>1. r[p] \in WalEntry
    BY DEF Wal
  <2>2. IsView(h[p])
    BY <1>1 DEF Wal, IsHistory
  <2> QED
    BY <2>1, <2>2 DEF WalEntry, IsView
<1>3. IsView(At(h, 0))
  <2>1. default_state \in RaftLogState /\ IsLog(EmptyMap)
    BY DEF default_state, RaftLogState, OptVote, OptLogId, OptUserData, NoVote, NoUserData,
        IsLog, EmptyMap
  <2> QED
    BY <2>1 DEF At, View, IsView
<1>4. ASSUME NEW p \in 0 .. Len(r)
      PROVE  IsView(At(h, p))
  <2>1. CASE p = 0
    BY <1>3, <2>1
  <2>2. CASE p # 0
    BY <1>1, <1>2, <2>2 DEF At
  <2> QED
    BY <2>1, <2>2
<1> QED
  BY <1>1, <1>2, <1>4 DEF IsView

\* rr and hh are r and h with e and v behind them.
Grown(r, h, e, v, rr, hh) ==
  /\ Wal(rr, hh) /\ Len(rr) = Len(r) + 1 /\ Len(hh) = Len(r) + 1 /\ Len(r) \in Nat
  /\ \A p \in 1 .. Len(r) : rr[p] = r[p] /\ hh[p] = h[p]
  /\ rr[Len(r) + 1] = e /\ hh[Len(r) + 1] = v
  /\ \A p \in 0 .. Len(r) : At(hh, p) = At(h, p)
  /\ At(hh, Len(r) + 1) = v

\* A history grown by one record has that record and its view at the end.
LEMMA GrownByOne ==
  ASSUME NEW r, NEW h, Wal(r, h), NEW e, NEW v, Grows(r, h, e, v)
  PROVE  Grown(r, h, e, v, Append(r, e), Append(h, v))
<1>0. PICK rr, hh : rr = Append(r, e) /\ hh = Append(h, v)
  OBVIOUS
<1>1. r \in Seq(WalEntry) /\ e \in WalEntry /\ Len(r) \in Nat /\ Len(h) = Len(r)
  BY DEF Wal, Grows
<1>2. /\ rr \in Seq(WalEntry) /\ Len(rr) = Len(r) + 1 /\ rr[Len(r) + 1] = e
      /\ \A p \in 1 .. Len(r) : rr[p] = r[p]
  BY <1>0, <1>1
<1>3. hh[Len(r) + 1] = v /\ \A p \in 1 .. Len(r) : hh[p] = h[p]
  <2>1. PICK S : h \in Seq(S)
    BY DEF Wal, IsHistory
  <2>2. h \in Seq(S \cup {v})
    BY <2>1
  <2> QED
    BY <1>0, <1>1, <2>2
<1>4. IsHistory(hh) /\ Len(hh) = Len(r) + 1
  BY <1>0, <1>1, HistoryAppend DEF Wal, Grows
<1>5. Led(rr)
  <2>1. CheckpointRecord(At(h, Len(r)).log_state).type = "Checkpoint"
    BY DEF CheckpointRecord
  <2>2. \/ Len(r) > 0 /\ e.chunk = r[Len(r)].chunk
        \/ e.chunk = Len(r) /\ e.rec.type = "Checkpoint"
    BY <2>1 DEF Grows
  <2> QED
    BY <1>0, <1>1, <2>2, LedAppend DEF Wal
<1>6. Wal(rr, hh)
  BY <1>2, <1>4, <1>5 DEF Wal
<1>7. \A p \in 0 .. Len(r) : At(hh, p) = At(h, p)
  BY <1>1, <1>3 DEF At
<1>8. At(hh, Len(r) + 1) = v
  BY <1>1, <1>3 DEF At
<1> QED
  BY <1>0, <1>1, <1>2, <1>3, <1>4, <1>6, <1>7, <1>8 DEF Grown

\* A history grows to a history.
LEMMA HistoryGrows ==
  ASSUME NEW r, NEW h, Wal(r, h), History(r, h), NEW e, NEW v, Grows(r, h, e, v)
  PROVE  History(Append(r, e), Append(h, v))
<1> DEFINE n == Len(r)
<1>0. PICK rr, hh : /\ rr = Append(r, e) /\ hh = Append(h, v)
                    /\ Grown(r, h, e, v, rr, hh)
  BY GrownByOne
<1>1. /\ Wal(rr, hh) /\ Len(rr) = n + 1 /\ Len(hh) = n + 1 /\ n \in Nat
      /\ \A p \in 1 .. n : rr[p] = r[p] /\ hh[p] = h[p]
      /\ rr[n + 1] = e /\ hh[n + 1] = v
      /\ \A p \in 0 .. n : At(hh, p) = At(h, p)
  BY <1>0 DEF Grown
<1>2. /\ \A p \in 1 .. n + 1 : rr[p].chunk \in Nat /\ hh[p].log_state \in RaftLogState
      /\ \A p \in 1 .. n : r[p].chunk < p
      /\ e.chunk \in Nat /\ e.rec \in RaftLogRecord
  BY <1>1, WalTypes DEF Wal, Led, Grows, WalEntry
<1>3. Len(h) = n
  BY DEF Wal
<1> HIDE DEF n
<1>4. RecordsBuild(rr, hh)
  <2>1. ASSUME NEW p \in 1 .. n
        PROVE  Builds(At(hh, p - 1), rr[p], p, hh[p])
    BY <1>1 DEF History, RecordsBuild, n
  <2>2. Builds(At(hh, n), rr[n + 1], n + 1, hh[n + 1])
    BY <1>1 DEF Grows, n
  <2>3. \A p \in 1 .. n + 1 : p \in 1 .. n \/ p = n + 1
    BY <1>1
  <2>4. \A p \in 1 .. n + 1 : Builds(At(hh, p - 1), rr[p], p, hh[p])
    BY <1>1, <2>1, <2>2, <2>3
  <2> QED
    BY <1>1, <2>4 DEF RecordsBuild
<1>5. LeadersRestate(rr, hh)
  <2>1. ASSUME NEW p \in 1 .. n, rr[p].chunk = p - 1
        PROVE  rr[p].rec = CheckpointRecord(At(hh, p - 1).log_state)
    BY <1>1, <2>1 DEF History, LeadersRestate, n
  <2>2. e.chunk = n => e.rec = CheckpointRecord(At(hh, n).log_state)
    BY <1>1, <1>2 DEF Grows, n
  <2> QED
    BY <1>1, <2>1, <2>2 DEF LeadersRestate
<1>6. ViewsWellFormed(hh)
  BY <1>1, <1>3 DEF History, ViewsWellFormed, Grows
<1>7. ChunksAscend(rr)
  <2>1. ASSUME NEW p \in 1 .. n
        PROVE  rr[p].chunk <= e.chunk
    <3>1. r[p].chunk <= r[n].chunk /\ n \in 1 .. n /\ r[p].chunk < n
      BY <1>1, <1>2 DEF History, ChunksAscend, n
    <3> QED
      BY <1>1, <1>2, <3>1 DEF Grows, n
  <2>2. \A p, q \in 1 .. n : p <= q => rr[p].chunk <= rr[q].chunk
    BY <1>1 DEF History, ChunksAscend, n
  <2> QED
    BY <1>1, <1>2, <2>1, <2>2 DEF ChunksAscend
<1>8. EntriesPlaced(rr, hh)
  <2>1. ASSUME NEW p \in 1 .. n, NEW i \in DOMAIN hh[p].log
        PROVE  /\ hh[p].log[i].segment \in 1 .. p
               /\ rr[hh[p].log[i].segment].chunk = hh[p].log[i].chunk_id
               /\ \A q \in hh[p].log[i].segment .. p :
                    i \in DOMAIN hh[q].log /\ hh[q].log[i] = hh[p].log[i]
    <3>1. i \in DOMAIN h[p].log /\ hh[p] = h[p]
      BY <1>1
    <3>2. /\ h[p].log[i].segment \in 1 .. p
          /\ r[h[p].log[i].segment].chunk = h[p].log[i].chunk_id
          /\ \A q \in h[p].log[i].segment .. p :
               i \in DOMAIN h[q].log /\ h[q].log[i] = h[p].log[i]
      BY <1>1, <3>1 DEF History, EntriesPlaced, n
    <3>3. h[p].log[i].segment \in 1 .. n
      BY <1>1, <3>2
    <3>4. \A q \in h[p].log[i].segment .. p : q \in 1 .. n
      BY <1>1, <3>2
    <3> QED
      BY <1>1, <3>1, <3>2, <3>3, <3>4
  <2>2. ASSUME NEW i \in DOMAIN v.log
        PROVE  /\ v.log[i].segment \in 1 .. n + 1
               /\ rr[v.log[i].segment].chunk = v.log[i].chunk_id
               /\ \A q \in v.log[i].segment .. n + 1 :
                    i \in DOMAIN hh[q].log /\ hh[q].log[i] = v.log[i]
    <3> DEFINE l == At(h, n).log
    <3>1. IsLog(l) /\ v.log = apply_log(l, e.rec, e.chunk, n + 1)
      BY <1>1, WalTypes DEF Grows, Builds, n
    <3>2. \/ i \in DOMAIN l /\ v.log[i] = l[i]
          \/ v.log[i].segment = n + 1 /\ v.log[i].chunk_id = e.chunk
      <4> HIDE DEF l
      <4> QED
        BY <1>1, <1>2, <3>1, ApplyLogKeeps
    <3>3. CASE i \in DOMAIN l /\ v.log[i] = l[i]
      <4>1. n > 0 /\ n \in 1 .. n /\ l = hh[n].log
        <5>1. n # 0
          BY <3>3 DEF At, View, EmptyMap
        <5> QED
          BY <1>1, <5>1 DEF At
      <4>2. /\ hh[n].log[i].segment \in 1 .. n
            /\ rr[hh[n].log[i].segment].chunk = hh[n].log[i].chunk_id
            /\ \A q \in hh[n].log[i].segment .. n :
                 i \in DOMAIN hh[q].log /\ hh[q].log[i] = hh[n].log[i]
        BY <2>1, <3>3, <4>1
      <4>3. v.log[i] = hh[n].log[i]
        BY <3>3, <4>1
      <4> HIDE DEF l
      <4> QED
        BY <1>1, <4>2, <4>3
    <3>4. CASE v.log[i].segment = n + 1 /\ v.log[i].chunk_id = e.chunk
      BY <1>1, <3>4
    <3> HIDE DEF l
    <3> QED
      BY <3>2, <3>3, <3>4
  <2>3. \A p \in 1 .. n + 1 : p \in 1 .. n \/ p = n + 1
    BY <1>1
  <2> QED
    BY <1>1, <2>1, <2>2, <2>3 DEF EntriesPlaced
<1>9. VotesAscend(hh)
  <2>0. \A p \in 1 .. n + 1 : hh[p].log_state.vote \in Int
    BY <1>2 DEF RaftLogState, OptVote, NoVote
  <2>1. \A p, q \in 1 .. n : p <= q => hh[p].log_state.vote <= hh[q].log_state.vote
    BY <1>1, <1>3 DEF History, VotesAscend
  <2>2. n > 0 => hh[n].log_state.vote <= v.log_state.vote
    <3>1. n > 0 => At(h, n) = hh[n]
      BY <1>1 DEF At
    <3> QED
      BY <1>1, <2>0, <3>1 DEF Grows, n
  <2> QED
    BY <1>1, <2>0, <2>1, <2>2 DEF VotesAscend
<1> QED
  BY <1>0, <1>4, <1>5, <1>6, <1>7, <1>8, <1>9 DEF History

---------------------------------------------------------------------------
(* What holds of the files and of the closed chunks when a record is added. *)

\* An entry of the new view is one of the last view, or in the new record's chunk.
LEMMA NewEntries ==
  ASSUME NEW r, NEW h, Wal(r, h), NEW e, NEW v, Grows(r, h, e, v), NEW i \in DOMAIN v.log
  PROVE  \/ Len(r) > 0 /\ i \in DOMAIN h[Len(r)].log /\ v.log[i] = h[Len(r)].log[i]
         \/ v.log[i].chunk_id = e.chunk
<1> DEFINE l == At(h, Len(r)).log
<1>1. /\ Len(r) \in Nat /\ IsLog(l) /\ v.log = apply_log(l, e.rec, e.chunk, Len(r) + 1)
      /\ e.rec \in RaftLogRecord /\ e.chunk \in Nat
  BY WalTypes DEF Grows, Builds, WalEntry
<1>2. \/ i \in DOMAIN l /\ v.log[i] = l[i]
      \/ v.log[i].chunk_id = e.chunk
  <2> HIDE DEF l
  <2> QED
    BY <1>1, ApplyLogKeeps
<1>3. CASE Len(r) = 0
  <2>1. DOMAIN l = {}
    BY <1>3 DEF At, View, EmptyMap
  <2> QED
    BY <1>2, <2>1
<1>4. CASE Len(r) > 0
  <2>1. l = h[Len(r)].log
    BY <1>4 DEF At
  <2> QED
    BY <1>2, <1>4, <2>1
<1> QED
  BY <1>1, <1>3, <1>4

\* The chunk of the new record starts with its first record.
LEMMA NewChunk ==
  ASSUME NEW r, NEW h, Wal(r, h), NEW e, NEW v, Grows(r, h, e, v),
         NEW rr, NEW hh, Grown(r, h, e, v, rr, hh)
  PROVE  /\ e.chunk \in Nat /\ e.chunk < Len(rr) /\ rr[e.chunk + 1].chunk = e.chunk
         /\ Len(r) \in Nat /\ Len(rr) = Len(r) + 1 /\ Len(hh) = Len(r) + 1
         /\ \A p \in 1 .. Len(rr) : p \in 1 .. Len(r) \/ p = Len(r) + 1
<1>1. /\ Len(r) \in Nat /\ Len(rr) = Len(r) + 1 /\ Len(hh) = Len(r) + 1
      /\ rr[Len(rr)] = e /\ Led(rr)
  BY DEF Grown, Wal
<1>2. e.chunk \in Nat
  BY DEF Grows, WalEntry
<1> QED
  BY <1>1, <1>2 DEF Led

\* A dead chunk stays dead.
LEMMA DeadGrows ==
  ASSUME NEW r, NEW h, Wal(r, h), NEW e, NEW v, Grows(r, h, e, v),
         NEW rr, NEW hh, Grown(r, h, e, v, rr, hh),
         NEW c \in Nat, NEW u \in Nat, u <= Len(r), Dead(r, h, c, u)
  PROVE  Dead(rr, hh, c, u)
<1> DEFINE n == Len(r)
<1>1. /\ n \in Nat /\ Len(rr) = n + 1 /\ rr[n + 1] = e /\ hh[n + 1] = v
      /\ \A p \in 1 .. n : rr[p] = r[p] /\ hh[p] = h[p]
      /\ \A p \in 1 .. Len(rr) : p \in 1 .. n \/ p = n + 1
  BY NewChunk DEF Grown
<1>2. /\ c < n
      /\ \A p \in 1 .. n : u <= p =>
           r[p].chunk # c /\ \A i \in DOMAIN h[p].log : h[p].log[i].chunk_id # c
  BY DEF Dead
<1>3. n > 0 /\ n \in 1 .. n /\ r[n].chunk # c /\ \A i \in DOMAIN h[n].log : h[n].log[i].chunk_id # c
  BY <1>1, <1>2
<1>4. e.chunk # c
  BY <1>2, <1>3 DEF Grows
<1>5. \A i \in DOMAIN v.log : v.log[i].chunk_id # c
  BY <1>3, <1>4, NewEntries
<1> HIDE DEF n
<1> QED
  BY <1>1, <1>2, <1>4, <1>5 DEF Dead

\* The files needed are the ones needed before, and the new record's.
LEMMA HoldGrows ==
  ASSUME NEW r, NEW h, Wal(r, h), NEW e, NEW v, Grows(r, h, e, v),
         NEW rr, NEW hh, Grown(r, h, e, v, rr, hh),
         NEW F, NEW m \in Nat, m <= Len(r), Hold(F, m, r, h)
  PROVE  Hold(F \cup {e.chunk}, m, rr, hh)
<1> DEFINE n == Len(r)
<1>1. /\ n \in Nat /\ Len(rr) = n + 1 /\ rr[n + 1] = e /\ hh[n + 1] = v
      /\ \A p \in 1 .. n : rr[p] = r[p] /\ hh[p] = h[p]
      /\ \A p \in 1 .. Len(rr) : p \in 1 .. n \/ p = n + 1
  BY NewChunk DEF Grown
<1>2. \A p \in 1 .. n : m <= p =>
        r[p].chunk \in F /\ \A i \in DOMAIN h[p].log : h[p].log[i].chunk_id \in F
  BY DEF Hold
<1>3. n > 0 => \A i \in DOMAIN h[n].log : h[n].log[i].chunk_id \in F
  BY <1>1, <1>2
<1>4. \A i \in DOMAIN v.log : v.log[i].chunk_id \in F \cup {e.chunk}
  BY <1>3, NewEntries
<1> HIDE DEF n
<1> QED
  BY <1>1, <1>2, <1>4 DEF Hold

\* The files, and the new record's, start where they should.
LEMMA StartGrows ==
  ASSUME NEW r, NEW h, Wal(r, h), NEW e, NEW v, Grows(r, h, e, v),
         NEW rr, NEW hh, Grown(r, h, e, v, rr, hh),
         NEW F, F \subseteq Nat, Start(F, r)
  PROVE  Start(F \cup {e.chunk}, rr)
<1>1. /\ Len(r) \in Nat /\ Len(rr) = Len(r) + 1
      /\ \A p \in 1 .. Len(r) : rr[p] = r[p]
      /\ e.chunk < Len(rr) /\ rr[e.chunk + 1].chunk = e.chunk
  BY NewChunk DEF Grown
<1>2. ASSUME NEW c \in F
      PROVE  c < Len(rr) /\ rr[c + 1].chunk = c
  <2>1. c \in Nat /\ c < Len(r) /\ r[c + 1].chunk = c
    BY DEF Start
  <2>2. c + 1 \in 1 .. Len(r)
    BY <1>1, <2>1
  <2> QED
    BY <1>1, <2>1, <2>2
<1> QED
  BY <1>1, <1>2 DEF Start

\* The trailing states of closed chunks stay what their last records left.
LEMMA ClosedGrows ==
  ASSUME NEW r, NEW h, Wal(r, h), NEW e, NEW v, Grows(r, h, e, v),
         NEW rr, NEW hh, Grown(r, h, e, v, rr, hh),
         NEW chunks, IsClosed(chunks), NEW oid \in Nat, oid <= e.chunk,
         ClosedAtEnd(chunks, oid, r, h)
  PROVE  ClosedAtEnd(chunks, oid, rr, hh)
<1> DEFINE n == Len(r)
<1>1. /\ n \in Nat /\ Len(rr) = n + 1 /\ rr[n + 1] = e /\ hh[n + 1] = v
      /\ \A p \in 1 .. n : rr[p] = r[p] /\ hh[p] = h[p]
      /\ \A p \in 1 .. Len(rr) : p \in 1 .. n \/ p = n + 1
      /\ e.chunk \in Nat
  BY NewChunk DEF Grown
<1>2. SUFFICES ASSUME NEW c \in DOMAIN chunks
               PROVE  /\ c < oid
                      /\ \E last \in 1 .. Len(rr) :
                           /\ chunks[c] = hh[last].log_state
                           /\ \A s \in 1 .. Len(rr) : rr[s].chunk = c => s <= last
  BY DEF ClosedAtEnd
<1>3. /\ c \in Nat /\ c < oid
      /\ \E last \in 1 .. n : /\ chunks[c] = h[last].log_state
                              /\ \A s \in 1 .. n : r[s].chunk = c => s <= last
  BY DEF ClosedAtEnd, IsClosed
<1>4. PICK last \in 1 .. n : /\ chunks[c] = h[last].log_state
                             /\ \A s \in 1 .. n : r[s].chunk = c => s <= last
  BY <1>3
<1>5. e.chunk # c
  BY <1>1, <1>3
<1> HIDE DEF n
<1>6. \A s \in 1 .. Len(rr) : rr[s].chunk = c => s <= last
  BY <1>1, <1>4, <1>5
<1>7. last \in 1 .. Len(rr) /\ chunks[c] = hh[last].log_state
  BY <1>1, <1>4
<1> QED
  BY <1>3, <1>6, <1>7

---------------------------------------------------------------------------
(* Closing and removing chunks.                                            *)

\* The last chunk closes with the state reached; a later one is open then.
LEMMA CloseAtEnd ==
  ASSUME NEW r, NEW h, Wal(r, h), NEW chunks, IsClosed(chunks),
         NEW oid \in Nat, NEW next \in Nat, oid < next,
         ClosedAtEnd(chunks, oid, r, h),
         NEW last \in 1 .. Len(r), \A s \in 1 .. Len(r) : r[s].chunk = oid => s <= last
  PROVE  ClosedAtEnd(CloseChunk(chunks, oid, h[last].log_state), next, r, h)
<1> DEFINE new == CloseChunk(chunks, oid, h[last].log_state)
<1>1. /\ DOMAIN new = DOMAIN chunks \cup {oid}
      /\ new[oid] = h[last].log_state
      /\ \A c \in DOMAIN chunks : c # oid => new[c] = chunks[c]
  BY DEF CloseChunk
<1> HIDE DEF new
<1>2. ASSUME NEW c \in DOMAIN chunks
      PROVE  /\ c < next /\ c # oid
             /\ \E e \in 1 .. Len(r) : /\ new[c] = h[e].log_state
                                       /\ \A s \in 1 .. Len(r) : r[s].chunk = c => s <= e
  BY <1>1 DEF ClosedAtEnd, IsClosed
<1> QED
  BY <1>1, <1>2 DEF ClosedAtEnd, new

\* A subset of the closed chunks, and a later open chunk.
LEMMA DrainAtEnd ==
  ASSUME NEW r, NEW h, NEW chunks, IsClosed(chunks), NEW S,
         NEW oid \in Nat, ClosedAtEnd(chunks, oid, r, h)
  PROVE  ClosedAtEnd([c \in DOMAIN chunks \ S |-> chunks[c]], oid, r, h)
  BY DEF ClosedAtEnd

\* A chunk buffer_removable_chunks drains is dead: an entry of it that were
\* live now would have been in the log when the chunk ended, at or below the
\* chunk's last id, hence at or below the purge point.
LEMMA RemovableDead ==
  ASSUME NEW r, NEW h, Wal(r, h), History(r, h), Len(r) > 0,
         NEW chunks, IsClosed(chunks), ClosedAtEnd(chunks, r[Len(r)].chunk, r, h),
         NEW c \in Removable(chunks, h[Len(r)].log_state.purged)
  PROVE  c \in Nat /\ Dead(r, h, c, Len(r))
<1> DEFINE n == Len(r)
           now == h[n]
<1>1. /\ n \in Nat /\ n \in 1 .. n /\ r[n].chunk \in Nat /\ r[n].chunk < n
      /\ \A p \in 1 .. n : r[p].chunk \in Nat
      /\ \A p \in 1 .. n : h[p].log_state \in RaftLogState /\ IsLog(h[p].log)
      /\ Len(h) = n
  BY WalTypes DEF Wal, Led
<1>2. /\ c \in DOMAIN chunks /\ c \in Nat /\ c < r[n].chunk
      /\ Le(chunks[c].last, now.log_state.purged)
  BY DEF Removable, ClosedAtEnd, IsClosed
<1>3. PICK e \in 1 .. n : /\ chunks[c] = h[e].log_state
                          /\ \A s \in 1 .. n : r[s].chunk = c => s <= e
  BY <1>2 DEF ClosedAtEnd
<1>4. ASSUME NEW i \in DOMAIN now.log, now.log[i].chunk_id = c
      PROVE  FALSE
  <2> DEFINE data == now.log[i]
  <2>1. /\ data.segment \in 1 .. n /\ r[data.segment].chunk = c
        /\ \A q \in data.segment .. n : i \in DOMAIN h[q].log /\ h[q].log[i] = data
    BY <1>1, <1>4 DEF History, EntriesPlaced
  <2>2. e \in data.segment .. n
    BY <1>1, <1>3, <2>1
  <2>3. i \in DOMAIN h[e].log /\ h[e].log[i] = data
    BY <2>1, <2>2
  <2> DEFINE s == h[e].log_state
             l == h[e].log
             m == log_index(s.last)
  <2>4. LogIsRun(l) /\ LogFits(s, l) /\ LogFits(now.log_state, now.log)
    BY <1>1 DEF History, ViewsWellFormed, WellFormed
  <2>5. s \in RaftLogState /\ IsLog(l) /\ now.log_state \in RaftLogState /\ IsLog(now.log)
    BY <1>1
  <2>6. /\ data.log_id \in OptLogId /\ s.last \in OptLogId
        /\ now.log_state.purged \in OptLogId /\ i \in Nat
    BY <1>4, <2>5, WellFormedTypes
  <2>7. m \in DOMAIN l /\ l[m].log_id = s.last /\ i <= m /\ m \in Nat
    BY <2>3, <2>4, <2>5, WellFormedTypes DEF LogFits
  <2>8. i = m \/ i < m
    BY <2>6, <2>7
  <2>9. Le(data.log_id, s.last)
    BY <2>3, <2>4, <2>7, <2>8 DEF LogIsRun, Le
  <2>10. Le(s.last, now.log_state.purged)
    BY <1>2, <1>3
  <2>11. Lt(now.log_state.purged, data.log_id)
    BY <1>4, <2>4 DEF LogFits
  <2> HIDE DEF data, s, now
  <2> QED
    BY <2>6, <2>9, <2>10, <2>11, IdOrder DEF Le
<1>5. \A p \in 1 .. n : n <= p => p = n
  BY <1>1
<1>6. c # r[n].chunk /\ c < n
  BY <1>1, <1>2
<1>7. \A i \in DOMAIN now.log : now.log[i].chunk_id # c
  BY <1>4
<1> QED
  BY <1>2, <1>5, <1>6, <1>7 DEF Dead

\* A chunk that is dead from a position on is dead from a later one on.
LEMMA DeadLater ==
  ASSUME NEW r, NEW h, NEW c, NEW u \in Nat, NEW w \in Nat, u <= w, Dead(r, h, c, u)
  PROVE  Dead(r, h, c, w)
  BY DEF Dead

\* The file of a dead chunk is not needed.
LEMMA DeadNotHeld ==
  ASSUME NEW r, NEW h, NEW F, NEW n \in Nat, NEW c, Dead(r, h, c, n), Hold(F, n, r, h)
  PROVE  Hold(F \ {c}, n, r, h)
  BY DEF Dead, Hold

---------------------------------------------------------------------------
(* A crash cuts the records and the history at a position.                 *)

\* g and k are the first n records and views of r and h.
CutAt(g, k, n, r, h) ==
  /\ Wal(g, k) /\ Len(g) = n /\ Len(k) = n /\ n \in Nat /\ n <= Len(r)
  /\ \A p \in 1 .. n : p \in 1 .. Len(r) /\ g[p] = r[p] /\ k[p] = h[p]
  /\ \A p \in 0 .. n : At(k, p) = At(h, p)

\* A WAL cut at a position keeps its types and its chunks' first records.
LEMMA PrefixWal ==
  ASSUME NEW r, NEW h, Wal(r, h), NEW n \in 0 .. Len(r)
  PROVE  CutAt(SubSeq(r, 1, n), SubSeq(h, 1, n), n, r, h)
<1>1. r \in Seq(WalEntry) /\ IsHistory(h) /\ Len(h) = Len(r) /\ Led(r) /\ Len(r) \in Nat
  BY DEF Wal
<1>2. n \in Nat /\ n <= Len(r) /\ \A p \in 1 .. n : p \in 1 .. Len(r)
  BY <1>1
<1>3. PICK g, k : g = SubSeq(r, 1, n) /\ k = SubSeq(h, 1, n)
  OBVIOUS
<1>4. g \in Seq(WalEntry) /\ Led(g) /\ Len(g) = n /\ IsHistory(k) /\ Len(k) = n
  BY <1>1, <1>3, LedPrefix, HistoryPrefix
<1>5. \A p \in 1 .. n : g[p] = r[p]
  BY <1>1, <1>2, <1>3
<1>6. \A p \in 1 .. n : k[p] = h[p]
  <2>1. PICK S : h \in Seq(S)
    BY <1>1 DEF IsHistory
  <2> QED
    BY <1>1, <1>2, <1>3, <2>1
<1>7. \A p \in 0 .. n : At(k, p) = At(h, p)
  BY <1>2, <1>6 DEF At
<1>8. Wal(g, k)
  BY <1>4 DEF Wal
<1> QED
  BY <1>2, <1>3, <1>4, <1>5, <1>6, <1>7, <1>8 DEF CutAt

\* A prefix of a history is a history.
LEMMA PrefixHistory ==
  ASSUME NEW r, NEW h, Wal(r, h), History(r, h), NEW n \in 0 .. Len(r)
  PROVE  History(SubSeq(r, 1, n), SubSeq(h, 1, n))
<1>1. PICK g, k : g = SubSeq(r, 1, n) /\ k = SubSeq(h, 1, n) /\ CutAt(g, k, n, r, h)
  BY PrefixWal
<1>2. /\ Wal(g, k) /\ Len(g) = n /\ Len(k) = n /\ n \in Nat /\ n <= Len(r)
      /\ \A p \in 1 .. n : p \in 1 .. Len(r) /\ g[p] = r[p] /\ k[p] = h[p]
      /\ \A p \in 0 .. n : At(k, p) = At(h, p)
  BY <1>1 DEF CutAt
<1>3. Len(h) = Len(r) /\ Len(r) \in Nat
  BY DEF Wal
<1>4. RecordsBuild(g, k)
  BY <1>2 DEF History, RecordsBuild
<1>5. LeadersRestate(g, k)
  BY <1>2 DEF History, LeadersRestate
<1>6. ViewsWellFormed(k)
  BY <1>2, <1>3 DEF History, ViewsWellFormed
<1>7. ChunksAscend(g)
  BY <1>2 DEF History, ChunksAscend
<1>8. EntriesPlaced(g, k)
  <2>1. SUFFICES ASSUME NEW p \in 1 .. n, NEW i \in DOMAIN k[p].log
                 PROVE  /\ k[p].log[i].segment \in 1 .. p
                        /\ g[k[p].log[i].segment].chunk = k[p].log[i].chunk_id
                        /\ \A q \in k[p].log[i].segment .. p :
                             i \in DOMAIN k[q].log /\ k[q].log[i] = k[p].log[i]
    BY <1>2 DEF EntriesPlaced
  <2>2. i \in DOMAIN h[p].log /\ k[p] = h[p] /\ p \in 1 .. Len(r)
    BY <1>2
  <2>3. /\ h[p].log[i].segment \in 1 .. p
        /\ r[h[p].log[i].segment].chunk = h[p].log[i].chunk_id
        /\ \A q \in h[p].log[i].segment .. p :
             i \in DOMAIN h[q].log /\ h[q].log[i] = h[p].log[i]
    BY <2>2 DEF History, EntriesPlaced
  <2>4. h[p].log[i].segment \in 1 .. n /\ \A q \in h[p].log[i].segment .. p : q \in 1 .. n
    BY <1>2, <2>3
  <2> QED
    BY <1>2, <2>2, <2>3, <2>4
<1>9. VotesAscend(k)
  BY <1>2, <1>3 DEF History, VotesAscend
<1> QED
  BY <1>1, <1>4, <1>5, <1>6, <1>7, <1>8, <1>9 DEF History

\* The files that keep their first record are the ones still needed.
LEMMA PrefixHolds ==
  ASSUME NEW r, NEW h, Wal(r, h), History(r, h), NEW n \in 0 .. Len(r),
         NEW F, F \subseteq Nat, NEW m \in Nat, Hold(F, m, r, h), Start(F, r)
  PROVE  /\ Hold({c \in F : c < n}, m, SubSeq(r, 1, n), SubSeq(h, 1, n))
         /\ Start({c \in F : c < n}, SubSeq(r, 1, n))
<1>1. PICK g, k : g = SubSeq(r, 1, n) /\ k = SubSeq(h, 1, n) /\ CutAt(g, k, n, r, h)
  BY PrefixWal
<1>2. /\ Len(g) = n /\ n \in Nat /\ n <= Len(r) /\ Len(r) \in Nat
      /\ \A p \in 1 .. n : p \in 1 .. Len(r) /\ g[p] = r[p] /\ k[p] = h[p]
  BY <1>1 DEF CutAt, Wal
<1>3. \A p \in 1 .. Len(r) : r[p].chunk \in Nat /\ r[p].chunk < p
  BY WalTypes DEF Wal, Led
<1>4. ASSUME NEW p \in 1 .. n, m <= p
      PROVE  /\ g[p].chunk \in {c \in F : c < n}
             /\ \A i \in DOMAIN k[p].log : k[p].log[i].chunk_id \in {c \in F : c < n}
  <2>1. r[p].chunk \in F /\ \A i \in DOMAIN h[p].log : h[p].log[i].chunk_id \in F
    BY <1>2, <1>4 DEF Hold
  <2>2. ASSUME NEW i \in DOMAIN h[p].log
        PROVE  h[p].log[i].chunk_id < n
    <3>1. /\ h[p].log[i].segment \in 1 .. p
          /\ r[h[p].log[i].segment].chunk = h[p].log[i].chunk_id
      BY <1>2 DEF History, EntriesPlaced
    <3>2. h[p].log[i].segment \in 1 .. Len(r) /\ h[p].log[i].segment <= n
      BY <1>2, <3>1
    <3> QED
      BY <1>2, <1>3, <3>1, <3>2
  <2>3. r[p].chunk < n
    BY <1>2, <1>3
  <2> QED
    BY <1>2, <2>1, <2>2, <2>3
<1>5. Hold({c \in F : c < n}, m, g, k)
  BY <1>2, <1>4 DEF Hold
<1>6. Start({c \in F : c < n}, g)
  <2>1. SUFFICES ASSUME NEW c \in F, c < n
                 PROVE  g[c + 1].chunk = c
    BY <1>2 DEF Start
  <2>2. r[c + 1].chunk = c /\ c + 1 \in 1 .. n
    BY <1>2, <2>1 DEF Start
  <2> QED
    BY <1>2, <2>2
<1> QED
  BY <1>1, <1>5, <1>6

---------------------------------------------------------------------------
(* The FlushWorker's queue.                                                *)

\* The removals stay safe when the WAL grows.
LEMMA RemovalsGrow ==
  ASSUME NEW r, NEW h, Wal(r, h), NEW e, NEW v, Grows(r, h, e, v),
         NEW rr, NEW hh, Grown(r, h, e, v, rr, hh),
         NEW q \in Seq(Requests), Covers(q, r), NEW m \in Nat, m <= Len(r),
         RemovalsDead(q, m, r, h)
  PROVE  RemovalsDead(q, m, rr, hh)
<1>1. Len(q) \in Nat /\ \A k \in 1 .. Len(q) : q[k] \in Requests
  OBVIOUS
<1>2. SUFFICES ASSUME NEW k \in 1 .. Len(q), q[k].type = "RemoveChunks", NEW c \in q[k].ids
               PROVE  \/ Dead(rr, hh, c, m)
                      \/ \E j \in 1 .. k - 1 :
                           q[j].type = "Write" /\ q[j].sync /\ Dead(rr, hh, c, q[j].upto)
  BY DEF RemovalsDead
<1>3. c \in Nat
  BY <1>1, <1>2 DEF Requests
<1>4. CASE Dead(r, h, c, m)
  BY <1>3, <1>4, DeadGrows
<1>5. CASE \E j \in 1 .. k - 1 :
             q[j].type = "Write" /\ q[j].sync /\ Dead(r, h, c, q[j].upto)
  <2>1. PICK j \in 1 .. k - 1 :
               q[j].type = "Write" /\ q[j].sync /\ Dead(r, h, c, q[j].upto)
    BY <1>5
  <2>2. j \in 1 .. Len(q)
    BY <1>1
  <2>3. q[j].upto \in Nat /\ q[j].upto <= Len(r)
    BY <2>1, <2>2 DEF Covers
  <2>4. Dead(rr, hh, c, q[j].upto)
    BY <1>3, <2>1, <2>3, DeadGrows
  <2> QED
    BY <2>1, <2>4
<1> QED
  BY <1>2, <1>4, <1>5 DEF RemovalsDead

\* A write request at the end of the queue.
LEMMA QueueWrite ==
  ASSUME NEW q \in Seq(Requests), NEW chunk \in Nat, NEW upto \in Nat,
         NEW sync \in BOOLEAN, NEW ack \in BOOLEAN,
         NEW r, NEW h, NEW low \in Nat, NEW high \in Nat, NEW m \in Nat,
         low <= high, high <= upto, Ordered(q, low, high), RemovalsDead(q, m, r, h),
         Covers(q, r)
  PROVE  LET g == Append(q, WriteRequest(chunk, upto, sync, ack)) IN
         /\ g \in Seq(Requests) /\ Len(g) = Len(q) + 1
         /\ g[Len(q) + 1] = WriteRequest(chunk, upto, sync, ack)
         /\ Ordered(g, low, upto) /\ RemovalsDead(g, m, r, h)
<1>1. PICK w, g : w = WriteRequest(chunk, upto, sync, ack) /\ g = Append(q, w)
  OBVIOUS
<1>2. w \in Requests /\ w.type = "Write" /\ w.upto = upto
  BY <1>1 DEF WriteRequest, Requests
<1>3. /\ g \in Seq(Requests) /\ Len(g) = Len(q) + 1 /\ Len(q) \in Nat /\ g[Len(q) + 1] = w
      /\ \A k \in 1 .. Len(q) : g[k] = q[k]
      /\ \A k \in 1 .. Len(g) : k \in 1 .. Len(q) \/ k = Len(q) + 1
  BY <1>1, <1>2
<1>4. \A k \in 1 .. Len(q) : q[k].type = "Write" => q[k].upto \in Nat
  BY DEF Covers
<1>5. Ordered(g, low, upto)
  BY <1>2, <1>3, <1>4 DEF Ordered
<1>6. RemovalsDead(g, m, r, h)
  <2>1. SUFFICES ASSUME NEW k \in 1 .. Len(g), g[k].type = "RemoveChunks", NEW c \in g[k].ids
                 PROVE  \/ Dead(r, h, c, m)
                        \/ \E j \in 1 .. k - 1 :
                             g[j].type = "Write" /\ g[j].sync /\ Dead(r, h, c, g[j].upto)
    BY DEF RemovalsDead
  <2>2. k \in 1 .. Len(q) /\ g[k] = q[k] /\ \A j \in 1 .. k - 1 : g[j] = q[j]
    BY <1>2, <1>3, <2>1
  <2> QED
    BY <2>1, <2>2 DEF RemovalsDead
<1> QED
  BY <1>1, <1>3, <1>5, <1>6

\* A removal behind a sync from which its chunks are dead.
LEMMA QueueRemove ==
  ASSUME NEW q \in Seq(Requests), Len(q) > 0,
         NEW r, NEW h, NEW low \in Nat, NEW high \in Nat, NEW m \in Nat,
         Ordered(q, low, high), RemovalsDead(q, m, r, h),
         q[Len(q)].type = "Write", q[Len(q)].sync,
         NEW ids, ids \subseteq Nat, \A c \in ids : Dead(r, h, c, q[Len(q)].upto)
  PROVE  LET g == Append(q, RemoveRequest(ids)) IN
         g \in Seq(Requests) /\ Ordered(g, low, high) /\ RemovalsDead(g, m, r, h)
<1>1. PICK w, g : w = RemoveRequest(ids) /\ g = Append(q, w)
  OBVIOUS
<1>2. w \in Requests /\ w.type = "RemoveChunks" /\ w.ids = ids
  BY <1>1 DEF RemoveRequest, Requests
<1>3. /\ g \in Seq(Requests) /\ Len(g) = Len(q) + 1 /\ Len(q) \in Nat /\ g[Len(q) + 1] = w
      /\ \A k \in 1 .. Len(q) : g[k] = q[k]
      /\ \A k \in 1 .. Len(g) : k \in 1 .. Len(q) \/ k = Len(q) + 1
  BY <1>1, <1>2
<1>4. Ordered(g, low, high)
  BY <1>2, <1>3 DEF Ordered
<1>5. RemovalsDead(g, m, r, h)
  <2>1. SUFFICES ASSUME NEW k \in 1 .. Len(g), g[k].type = "RemoveChunks", NEW c \in g[k].ids
                 PROVE  \/ Dead(r, h, c, m)
                        \/ \E j \in 1 .. k - 1 :
                             g[j].type = "Write" /\ g[j].sync /\ Dead(r, h, c, g[j].upto)
    BY DEF RemovalsDead
  <2>2. CASE k \in 1 .. Len(q)
    <3>1. g[k] = q[k] /\ \A j \in 1 .. k - 1 : g[j] = q[j]
      BY <1>3, <2>2
    <3>2. \/ Dead(r, h, c, m)
          \/ \E j \in 1 .. k - 1 :
               q[j].type = "Write" /\ q[j].sync /\ Dead(r, h, c, q[j].upto)
      BY <2>1, <2>2, <3>1, Zenon DEF RemovalsDead
    <3> QED
      BY <3>1, <3>2, Zenon
  <2>3. CASE k = Len(q) + 1
    <3>1. Len(q) \in 1 .. k - 1 /\ g[Len(q)] = q[Len(q)] /\ g[k].ids = ids
      BY <1>2, <1>3, <2>3
    <3> QED
      BY <2>1, <3>1
  <2> QED
    BY <1>3, <2>2, <2>3
<1> QED
  BY <1>1, <1>3, <1>4, <1>5

\* The first request, and the ones behind it.
LEMMA QueueServed ==
  ASSUME NEW q \in Seq(Requests), q # <<>>,
         NEW r, NEW h, NEW low \in Nat, NEW high \in Nat, Ordered(q, low, high),
         Covers(q, r)
  PROVE  /\ Len(Tail(q)) = Len(q) - 1 /\ Len(q) \in Nat /\ Len(q) > 0
         /\ \A k \in 1 .. Len(q) - 1 : Tail(q)[k] = q[k + 1]
         /\ Head(q) = q[1]
         /\ Head(q).type = "Write" =>
              low <= Head(q).upto /\ Head(q).upto <= high /\ Head(q).upto \in Nat
         /\ Ordered(Tail(q), low, high)
         /\ Head(q).type = "Write" =>
              Ordered(q, Head(q).upto, high) /\ Ordered(Tail(q), Head(q).upto, high)
<1>1. PICK t : t = Tail(q)
  OBVIOUS
<1>2. /\ Len(t) = Len(q) - 1 /\ Len(q) \in Nat /\ Len(q) > 0
      /\ \A k \in 1 .. Len(q) - 1 : t[k] = q[k + 1]
      /\ Head(q) = q[1]
  BY <1>1
<1>3. \A k \in 1 .. Len(q) : q[k].type = "Write" => q[k].upto \in Nat
  BY DEF Covers
<1>4. Head(q).type = "Write" =>
        low <= Head(q).upto /\ Head(q).upto <= high /\ Head(q).upto \in Nat
  BY <1>2, <1>3 DEF Ordered
<1>5. ASSUME NEW k \in 1 .. Len(t), t[k].type = "Write"
      PROVE  /\ low <= t[k].upto /\ t[k].upto <= high
             /\ Head(q).type = "Write" => Head(q).upto <= t[k].upto
             /\ \A j \in 1 .. k : t[j].type = "Write" => t[j].upto <= t[k].upto
  <2>1. k + 1 \in 1 .. Len(q) /\ 1 \in 1 .. k + 1 /\ t[k] = q[k + 1]
    BY <1>2
  <2>2. /\ low <= q[k + 1].upto /\ q[k + 1].upto <= high
        /\ \A j \in 1 .. k + 1 : q[j].type = "Write" => q[j].upto <= q[k + 1].upto
    BY <1>5, <2>1 DEF Ordered
  <2>3. \A j \in 1 .. k : t[j] = q[j + 1] /\ j + 1 \in 1 .. k + 1
    BY <1>2, <2>1
  <2> QED
    BY <1>2, <2>1, <2>2, <2>3
<1>6. Ordered(t, low, high)
  BY <1>5 DEF Ordered
<1>7. Head(q).type = "Write" => Ordered(t, Head(q).upto, high)
  BY <1>5 DEF Ordered
<1>8. Head(q).type = "Write" => Ordered(q, Head(q).upto, high)
  BY <1>2 DEF Ordered
<1> QED
  BY <1>1, <1>2, <1>4, <1>6, <1>7, <1>8
=============================================================================
