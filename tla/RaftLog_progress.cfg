SPECIFICATION FairObservedSpec
CONSTANTS
  ChunkMaxRecords = 2
  MaxItems = 1
  Capacity = 10
  LogIds <- MCOneId
  Payloads = {1}
  Votes = {}
  UserDatas = {}
  RestoreStates = {}
  MaxBatch = 1
  Contract = {"fresh_ids", "consistent_purge", "forward_restore"}
  MaxRecs = 7
  MaxQueue = 3
  MaxCrashes = 1
  Observers = {"wait"}
  MaxDamage = 0
INVARIANT FlushedWhenAnswered
INVARIANT WaitInv
PROPERTY EventuallyUp
PROPERTY SyncCompletes
PROPERTY ObsoleteFilesUnlinked
PROPERTY WaitsEnd
