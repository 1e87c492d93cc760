------------------------------ MODULE RaftLogTypes ------------------------------
(***************************************************************************)
(* The data of a raft-log store: log ids, the records the write-ahead log  *)
(* holds (src/src/raft_log/raft_log_action.rs, raft_log_record.rs), the    *)
(* state they build (RaftLogState) and the entries of the log map          *)
(* (LogData).                                                              *)
(*                                                                         *)
(* A log id is the pair <<term, index>>, ordered lexicographically as the  *)
(* `Ord` of T::LogId is.  `Option<T::LogId>` adds None below every id; its *)
(* representation <<-1, -1>> makes the order and next_log_index uniform.   *)
(***************************************************************************)
EXTENDS Integers

None == <<-1, -1>>

LogId == Nat \X Nat
OptLogId == LogId \cup {None}

Lt(a, b) == a[1] < b[1] \/ (a[1] = b[1] /\ a[2] < b[2])
Le(a, b) == a = b \/ Lt(a, b)

log_index(id) == id[2]

\* T::next_log_index: index + 1, and 0 for None.
next_log_index(id) == id[2] + 1

\* a and b are ordered the same way by index and by log id, as any two ids
\* of one Raft log are.
Agrees(a, b) ==
  /\ Lt(a, b) <=> log_index(a) < log_index(b)
  /\ Lt(b, a) <=> log_index(b) < log_index(a)

(***************************************************************************)
(* Votes are ranked by a number: only their order matters here.  A payload *)
(* is its size, which is all PayloadCache looks at.                        *)
(***************************************************************************)
NoVote == -1
NoUserData == -1

OptVote == Nat \cup {NoVote}
OptUserData == Nat \cup {NoUserData}
Payload == Nat

RaftLogState == [vote : OptVote, last : OptLogId, committed : OptLogId,
                 purged : OptLogId, user_data : OptUserData]

default_state == [vote |-> NoVote, last |-> None, committed |-> None,
                  purged |-> None, user_data |-> NoUserData]

SaveVoteAction(v) == [type |-> "SaveVote", vote |-> v]
AppendAction(id, p) == [type |-> "Append", log_id |-> id, payload |-> p]
CommitAction(id) == [type |-> "Commit", log_id |-> id]
TruncateAfterAction(id) == [type |-> "TruncateAfter", log_id |-> id]
PurgeUptoAction(id) == [type |-> "PurgeUpto", log_id |-> id]
CheckpointRecord(s) == [type |-> "Checkpoint", state |-> s]

RaftLogRecord ==
  [type : {"SaveVote"}, vote : Nat]
    \cup [type : {"Append"}, log_id : LogId, payload : Payload]
    \cup [type : {"Commit"}, log_id : LogId]
    \cup [type : {"TruncateAfter"}, log_id : OptLogId]
    \cup [type : {"PurgeUpto"}, log_id : LogId]
    \cup [type : {"Checkpoint"}, state : RaftLogState]

\* An entry of the log map: the id and where its record lies, the chunk and
\* the record's position in the WAL.
LogData == [log_id : LogId, chunk_id : Nat, segment : Nat]

\* A log map, BTreeMap<u64, LogData>: a function from some set of indexes.
IsLog(log) ==
  /\ log = [i \in DOMAIN log |-> log[i]]
  /\ DOMAIN log \subseteq Nat
  /\ \A i \in DOMAIN log : log[i] \in LogData

EmptyMap == [i \in {} |-> 0]
=============================================================================
