-------------------------- MODULE RaftLogStateMachine --------------------------
(***************************************************************************)
(* The deterministic half of a store: what RaftLogState::check accepts,    *)
(* and what RaftLogStateMachine::apply does to the state and to the log    *)
(* map (src/src/raft_log/state_machine).  The payload cache, which apply   *)
(* updates as well, is in module PayloadCache.                             *)
(***************************************************************************)
EXTENDS RaftLogTypes

---------------------------------------------------------------------------
(* RaftLogState::check: one predicate per kind of record.                  *)

\* Mutants of the checks: a check that lets everything through, and one that
\* forgets that indexes are consecutive.
check_vote_dropped(s, vote) == TRUE
check_append_with_holes(s, id) == Lt(s.last, id)
check_truncate_dropped(s, keep_upto) == TRUE

check_vote(s, vote) == vote >= s.vote

check_append(s, id) ==
  /\ Lt(s.last, id)
  /\ s.last = None \/ log_index(id) = next_log_index(s.last)

check_commit(s, id) ==
  /\ Le(s.committed, id)
  /\ Le(id, s.last)

check_truncate(s, keep_upto) == Le(s.committed, keep_upto)

check(s, rec) ==
  /\ rec.type = "SaveVote" => check_vote(s, rec.vote)
  /\ rec.type = "Append" => check_append(s, rec.log_id)
  /\ rec.type = "Commit" => check_commit(s, rec.log_id)
  /\ rec.type = "TruncateAfter" => check_truncate(s, rec.log_id)

---------------------------------------------------------------------------
(* RaftLogState::apply of a record that passed the check.                  *)

truncate_after(s, id) ==
  [s EXCEPT !.last = IF Lt(id, s.last) THEN id ELSE s.last]

purge_state(s, id) ==
  [s EXCEPT !.purged = IF Lt(s.purged, id) THEN id ELSE s.purged,
            !.last   = IF Lt(s.last, id) THEN id ELSE s.last]

\* Mutant: a checkpoint is merged into the state instead of replacing it.
apply_checkpoint_merged(s, state) ==
  [state EXCEPT !.committed = IF Lt(s.committed, state.committed) /\ s.last # None
                              THEN state.committed ELSE s.committed]

apply_checkpoint(s, state) == state

apply_state(s, rec) ==
  CASE rec.type = "SaveVote" -> [s EXCEPT !.vote = rec.vote]
    [] rec.type = "Append" -> [s EXCEPT !.last = rec.log_id]
    [] rec.type = "Commit" -> [s EXCEPT !.committed = rec.log_id]
    [] rec.type = "TruncateAfter" -> truncate_after(s, rec.log_id)
    [] rec.type = "PurgeUpto" -> purge_state(s, rec.log_id)
    [] rec.type = "Checkpoint" -> apply_checkpoint(s, rec.state)

---------------------------------------------------------------------------
(* What RaftLogStateMachine::apply does to the log map.                    *)

RestrictLog(log, S) == [i \in DOMAIN log \cap S |-> log[i]]

InsertLog(log, i, data) ==
  [j \in DOMAIN log \cup {i} |-> IF j = i THEN data ELSE log[j]]

\* Mutant: the segment is read before the record is appended.
NewLogData_stale_segment(id, chunk_id, segment) ==
  [log_id |-> id, chunk_id |-> chunk_id, segment |-> segment - 1]

\* LogData::new
NewLogData(id, chunk_id, segment) ==
  [log_id |-> id, chunk_id |-> chunk_id, segment |-> segment]

apply_log(log, rec, chunk_id, segment) ==
  CASE rec.type = "Append" ->
         InsertLog(log, log_index(rec.log_id),
                   NewLogData(rec.log_id, chunk_id, segment))
    [] rec.type = "TruncateAfter" ->
         RestrictLog(log, {i \in DOMAIN log : i < next_log_index(rec.log_id)})
    [] rec.type = "PurgeUpto" ->
         RestrictLog(log, {i \in DOMAIN log : i >= next_log_index(rec.log_id)})
    [] rec.type \in {"SaveVote", "Commit", "Checkpoint"} -> log

\* Mutant: update_state takes any state.
check_checkpoint_dropped(log, state) == TRUE

\* check_checkpoint, run by update_state only: the declared state describes
\* the entries held.
check_checkpoint(log, state) ==
  \/ DOMAIN log = {}
  \/ \E first, last \in DOMAIN log :
       /\ \A i \in DOMAIN log : first <= i /\ i <= last
       /\ log_index(log[first].log_id) = next_log_index(state.purged)
       /\ Lt(state.purged, log[first].log_id)
       /\ log[last].log_id = state.last

---------------------------------------------------------------------------
(* What makes a state and a log map describe one log.                      *)

\* The ids are the indexes' own, grow with the index, and leave no hole.
LogIsRun(log) ==
  \A i, j \in DOMAIN log :
    /\ log_index(log[i].log_id) = i
    /\ i < j => Lt(log[i].log_id, log[j].log_id)
    /\ i .. j \subseteq DOMAIN log

\* Every entry is above the purge point and the newest one is `last`.
LogFits(s, log) ==
  \A i \in DOMAIN log :
    /\ i >= next_log_index(s.purged)
    /\ Lt(s.purged, log[i].log_id)
    /\ i <= log_index(s.last)
    /\ log_index(s.last) \in DOMAIN log
    /\ log[log_index(s.last)].log_id = s.last

\* The marks of the state are in order.
MarksInOrder(s) ==
  /\ Le(s.purged, s.last) /\ log_index(s.purged) <= log_index(s.last)
  /\ Le(s.committed, s.last)

WellFormed(s, log) == LogIsRun(log) /\ LogFits(s, log) /\ MarksInOrder(s)
=============================================================================
