------------------------------- MODULE MCRaftLog -------------------------------
(* Values for the constants of RaftLog, for TLC.                           *)
EXTENDS RaftLogInvariant, RaftLogRefinement

\* One log, and an entry of a later term that competes for index 1.
MCLogIds == {<<1, 0>>, <<1, 1>>, <<2, 1>>}

\* A batch of two may also follow the first entry.
MCBatchIds == MCLogIds \cup {<<1, 2>>}

\* The same index 1 only, so that a first append leaves a hole below it.
MCHighIds == {<<1, 1>>, <<1, 2>>}

MCUserDatas == {NoUserData, 1}

MCOneId == {<<1, 0>>}

\* What a node that installed a snapshot declares, and a state that keeps an
\* entry above its purge point.
MCRestore ==
  {[vote |-> 1, last |-> <<1, 1>>, committed |-> <<1, 1>>, purged |-> <<1, 1>>,
    user_data |-> NoUserData],
   [vote |-> 1, last |-> <<1, 1>>, committed |-> <<1, 0>>, purged |-> <<1, 0>>,
    user_data |-> 1]}
=============================================================================
