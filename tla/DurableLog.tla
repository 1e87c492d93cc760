------------------------------- MODULE DurableLog -------------------------------
(***************************************************************************)
(* What a raft-log store promises the Raft node that uses it               *)
(* (src/src/api/raft_log_writer.rs), with no chunk, file, cache, buffer or *)
(* worker in sight.                                                        *)
(*                                                                         *)
(* The store holds a content: the marks of RaftLogState, and the entries   *)
(* by index.  Writes change the content one legal step at a time and are   *)
(* remembered in order.  Some prefix of what is remembered is durable, and *)
(* a part of that has been promised to the node.  A crash takes back       *)
(* writes that are not durable, the latest first; a store that opens again *)
(* shows exactly what is left.                                             *)
(***************************************************************************)
EXTENDS RaftLogTypes, Sequences

VARIABLES
  up,        \* the store is open
  view,      \* the content the node sees while it is
  history,   \* the contents written, each after one write
  durable,   \* how many of them no crash takes back
  promised   \* how many of them an acknowledged flush covers

absvars == <<up, view, history, durable, promised>>

Content(marks, entries) == [marks |-> marks, entries |-> entries]

Empty == Content(default_state, EmptyMap)

Latest(h) == IF h = <<>> THEN Empty ELSE h[Len(h)]

---------------------------------------------------------------------------
(* The legal writes, as relations between a content c and the next one d.  *)

\* d has the entries of c at the indexes of S, and no others.
Keeps(c, d, S) ==
  /\ DOMAIN d.entries = S
  /\ \A i \in S : d.entries[i] = c.entries[i]

SavesVote(c, d) ==
  /\ d.marks.vote >= c.marks.vote
  /\ d = [c EXCEPT !.marks.vote = d.marks.vote]

SavesUserData(c, d) == d = [c EXCEPT !.marks.user_data = d.marks.user_data]

\* One entry, right above the last one.
Appends(c, d) ==
  LET id == d.marks.last IN
  /\ Lt(c.marks.last, id)
  /\ c.marks.last = None \/ log_index(id) = next_log_index(c.marks.last)
  /\ d.marks = [c.marks EXCEPT !.last = id]
  /\ DOMAIN d.entries = DOMAIN c.entries \cup {log_index(id)}
  /\ d.entries[log_index(id)].log_id = id
  /\ \A i \in DOMAIN c.entries : d.entries[i] = c.entries[i]

\* The entries above some id that is at least the committed one.
Truncates(c, d) ==
  /\ Le(c.marks.committed, d.marks.last)
  /\ Le(d.marks.last, c.marks.last)
  /\ d.marks = [c.marks EXCEPT !.last = d.marks.last]
  /\ Keeps(c, d, {i \in DOMAIN c.entries : Le(c.entries[i].log_id, d.marks.last)})

Commits(c, d) ==
  /\ Le(c.marks.committed, d.marks.committed)
  /\ Le(d.marks.committed, d.marks.last)
  /\ d = [c EXCEPT !.marks.committed = d.marks.committed]

\* The entries up to some id, which may lie beyond the last one.
Purges(c, d) ==
  /\ Le(c.marks.purged, d.marks.purged)
  /\ d.marks = [c.marks EXCEPT !.purged = d.marks.purged,
                               !.last = IF Lt(@, d.marks.purged) THEN d.marks.purged
                                        ELSE @]
  /\ Keeps(c, d, {i \in DOMAIN c.entries : Lt(d.marks.purged, c.entries[i].log_id)})

\* A state declared from outside: it keeps the entries, and moves the ends of
\* the log forward only where there is none.
Restores(c, d) ==
  /\ d.entries = c.entries
  /\ \A i \in DOMAIN d.entries : /\ d.marks.last = c.marks.last
                                 /\ Lt(d.marks.purged, d.entries[i].log_id)
  /\ Le(c.marks.last, d.marks.last) /\ Le(c.marks.purged, d.marks.purged)
  /\ d.marks.vote >= c.marks.vote

Legal(c, d) ==
  \/ SavesVote(c, d) \/ SavesUserData(c, d) \/ Appends(c, d) \/ Truncates(c, d)
  \/ Commits(c, d) \/ Purges(c, d) \/ Restores(c, d)

---------------------------------------------------------------------------
(* The steps.                                                              *)

\* h with the content c remembered once, or twice where the store restates it.
Remember(h, c) == {Append(h, c), Append(Append(h, c), c)}

\* A write: the node sees it at once.
Write ==
  /\ up
  /\ Legal(view, view')
  /\ history' \in Remember(history, view')
  /\ UNCHANGED <<up, durable, promised>>

\* What is written becomes durable, and the node may be told.
Sync ==
  /\ up
  /\ durable' \in durable .. Len(history)
  /\ promised' \in {promised, durable'}
  /\ UNCHANGED <<up, view, history>>

\* A crash, also of a store that is being opened.
Fall ==
  /\ ~up' /\ view' = Empty
  /\ Len(history') \in durable .. Len(history)
  /\ history' = SubSeq(history, 1, Len(history'))
  /\ UNCHANGED <<durable, promised>>

\* Opening shows the latest content that is left, and may restate it.
Reopen ==
  /\ ~up /\ up'
  /\ view' = Latest(history)
  /\ history' \in {history} \cup Remember(history, view')
  /\ durable' \in {durable, Len(history)}
  /\ UNCHANGED promised

AbsInit == ~up /\ view = Empty /\ history = <<>> /\ durable = 0 /\ promised = 0

AbsNext == Write \/ Sync \/ Fall \/ Reopen

AbsSpec == AbsInit /\ [][AbsNext]_absvars

=============================================================================
