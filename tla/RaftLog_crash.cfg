SPECIFICATION Spec
CONSTANTS
  ChunkMaxRecords = 2
  MaxItems = 1
  Capacity = 10
  LogIds <- MCLogIds
  Payloads = {1}
  Votes = {1, 2}
  UserDatas = {1}
  RestoreStates <- MCRestore
  MaxBatch = 1
  Contract = {"fresh_ids", "consistent_purge", "forward_restore"}
  MaxRecs = 6
  MaxQueue = 2
  MaxCrashes = 2
INVARIANT RecoveryExact
INVARIANT OpenSucceeds
INVARIANT AckedVoteKept
INVARIANT FilesInv
INVARIANT CacheInv
INVARIANT FreshInv
PROPERTY ImplementsDurableLog
