--------------------------- MODULE RaftLogRefinement ---------------------------
(***************************************************************************)
(* The store implements DurableLog.  What the node sees is what the live   *)
(* structures answer: RaftLog::log_state, and RaftLog::read over the whole *)
(* range, which goes through the cache or to the files.  The contents      *)
(* written are the views the records of the WAL built.                     *)
(***************************************************************************)
EXTENDS RaftLogProperties

\* The entry RaftLog::read yields for an entry of the log map.
Shown(data, payload) == [log_id |-> data.log_id, payload |-> payload]

\* The content a running store answers with.
Served ==
  [marks |-> log_state,
   entries |-> [i \in DOMAIN log |-> Shown(log[i], read_payload(log[i]))]]

\* The content the first p records stand for.
Recorded(p) ==
  [marks |-> snap[p].log_state,
   entries |-> [i \in DOMAIN snap[p].log |->
                  Shown(snap[p].log[i], load_record(snap[p].log[i]).payload)]]

Abstract == INSTANCE DurableLog WITH
  up <- status = "up",
  view <- IF status = "up" THEN Served
          ELSE [marks |-> default_state, entries |-> EmptyMap],
  history <- [p \in 1 .. Len(snap) |-> Recorded(p)],
  durable <- synced,
  promised <- acked

\* The store keeps its promise (RaftLogWriter, RaftLog::open): every step of
\* the caller, the FlushWorker, a crash or a replay is one of DurableLog, or
\* nothing the node can notice. Eviction, closing a chunk, unlinking and
\* draining change nothing the node sees, and an opened store shows the
\* contents of the last surviving record, which is at or after everything
\* acknowledged.
ImplementsDurableLog == Abstract!AbsSpec
=============================================================================
