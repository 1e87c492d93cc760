--------------------------- MODULE MCRaftLogObservers ---------------------------
(* Values for the constants of RaftLogObservers, for TLC.                  *)
EXTENDS RaftLogObservers

\* One log, and an entry of a later term that competes for index 0.
MCLogIds == {<<1, 0>>, <<1, 1>>, <<2, 0>>}

MCOneId == {<<1, 0>>}
=============================================================================
