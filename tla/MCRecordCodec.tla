----------------------------- MODULE MCRecordCodec -----------------------------
(* Records for TLC: every kind, with and without its optional parts.       *)
EXTENDS RecordCodec

MCRecords ==
  {SaveVoteAction(0), SaveVoteAction(1),
   AppendAction(<<1, 0>>, 0), AppendAction(<<1, 1>>, 2),
   CommitAction(<<1, 1>>), TruncateAfterAction(None), TruncateAfterAction(<<1, 0>>),
   PurgeUptoAction(<<1, 1>>),
   CheckpointRecord(default_state),
   CheckpointRecord([vote |-> 1, last |-> <<2, 1>>, committed |-> <<1, 1>>,
                     purged |-> None, user_data |-> 1])}
=============================================================================
