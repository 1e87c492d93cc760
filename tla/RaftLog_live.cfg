SPECIFICATION Spec
CONSTANTS
  ChunkMaxRecords = 3
  MaxItems = 2
  Capacity = 2
  LogIds <- MCBatchIds
  Payloads = {1, 2}
  Votes = {}
  UserDatas = {}
  RestoreStates = {}
  MaxBatch = 2
  Contract = {"fresh_ids", "consistent_purge", "forward_restore"}
  MaxRecs = 8
  MaxQueue = 2
  MaxCrashes = 0
INVARIANT EvictedIsDurable
INVARIANT ReadsServeAppended
INVARIANT CacheSizeExact
INVARIANT ObsoleteChunksBuffered
INVARIANT FilesAccounted
INVARIANT DrainNormalizes
INVARIANT DrainInv
PROPERTY InsertKeepsLimits
PROPERTY CommittedOnlyPurged
