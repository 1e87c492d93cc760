SPECIFICATION Spec
CONSTANTS
  ChunkMaxRecords = 3
  MaxItems = 1
  Capacity = 10
  LogIds <- MCLogIds
  Payloads = {1}
  Votes = {1}
  UserDatas <- MCUserDatas
  RestoreStates <- MCRestore
  MaxBatch = 2
  Contract = {"consistent_purge", "forward_restore"}
  MaxRecs = 6
  MaxQueue = 2
  MaxCrashes = 1
INVARIANT TypeOK
INVARIANT LogMatchesState
INVARIANT RecoveryInv
INVARIANT SizeInv
INVARIANT LiveChunksOnDisk
